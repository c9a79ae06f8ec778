--------------------------- MODULE AccountsProofs ---------------------------
(***************************************************************************)
(* Theorems about Accounts, for all addresses, VK users, roles, requests   *)
(* and bounds.                                                             *)
(***************************************************************************)
EXTENDS Accounts, TLAPS, SequenceTheorems, FiniteSetTheorems

-----------------------------------------------------------------------------
(* What a request has in memory.                                            *)

\* Queries that will write to, or for, the user the request has read.
OfUser == {"sendLink", "insertKey", "deleteTokens", "insertToken", "saveVerified",
           "deleteLink", "saveRole"}

OfReset == {"mailReset", "setPassword", "endSessions", "deleteReset"}

\* What request record r holds fits the tables: the rows it names have existed.
Fits(r) ==
  /\ r.pc \in OfUser => r.user \in Id
  /\ r.pc \in {"insertUser", "saveVerified", "saveRole"} => r.entity.live
  /\ r.pc \in {"insertKeyUser", "insertKey"} => r.key \in Key
  /\ r.pc \in OfReset \cup {"deleteResets", "insertReset"} => r.email \in Email
  /\ r.pc \in OfReset => r.reset \in 1..Len(resets)

ServesInv == \A h \in Handler : Fits(request[h])

\* Links go with the row of their user, and a row that is gone has no address.
RowsInv ==
  /\ Len(users) <= MaxUsers
  /\ links \subseteq Live
  /\ \A u \in Id : ~users[u].live => users[u].email = NoEmail

TablesInv == AccountsTypeOK /\ ServesInv /\ RowsInv

-----------------------------------------------------------------------------
(* Records.                                                                 *)

LEMMA DeletedType == Deleted \in User /\ ~Deleted.live /\ Deleted.email = NoEmail
  BY DEF Deleted, User

LEMMA NoRequestType ==
  /\ NoRequest \in Request /\ Fits(NoRequest) /\ Fits(NoRequest)'
  /\ NoRequest.pc = "none"
<1>1. NoRequest \in Request
  BY DeletedType DEF NoRequest, Request
<1>2. NoRequest.pc = "none"
  BY DEF NoRequest
<1> QED BY <1>1, <1>2 DEF Fits, OfUser, OfReset

LEMMA KeyUserType ==
  KeyUser \in User /\ KeyUser.live /\ KeyUser.email = NoEmail
  BY DEF KeyUser, Deleted, User

LEMMA NewUserType ==
  ASSUME NEW email \in Email, NEW p \in Password
  PROVE  /\ NewUser(email, p) \in User /\ NewUser(email, p).live
         /\ NewUser(email, p).email = email /\ ~NewUser(email, p).verified
  BY DEF NewUser, User

LEMMA RootType ==
  ASSUME NEW p \in Password
  PROVE  /\ Root(p) \in User /\ Root(p).live
         /\ Root(p).email = RootEmail /\ Root(p).verified
  BY AccountsAssumption DEF Root, NewUser, User

\* The lengths of the tables, and their rows.
LEMMA TablesType ==
  ASSUME AccountsTypeOK
  PROVE  /\ Len(users) \in Nat /\ Id = 1..Len(users)
         /\ \A u \in Id : users[u] \in User
         /\ Len(resets) \in Nat
         /\ \A t \in 1..Len(resets) : resets[t] \in Reset
         /\ \A h \in Handler : request[h] \in Request
  BY DEF AccountsTypeOK, Id

\* What fits in the next state.
LEMMA FitsUser ==
  ASSUME NEW r \in Request, r.user \in Id',
         r.pc \in OfUser \ {"saveVerified", "saveRole"},
         r.pc = "insertKey" => r.key \in Key
  PROVE  Fits(r)'
  BY DEF Fits, OfUser, OfReset

-----------------------------------------------------------------------------
(* Frames.                                                                  *)

\* A step that changes the record of one request keeps the others fitting.
LEMMA ServesKept ==
  ASSUME TablesInv, NEW h \in Handler, NEW r \in Request,
         request' = [request EXCEPT ![h] = r], Fits(r)',
         Len(users') \in Nat, Len(users') >= Len(users),
         Len(resets') \in Nat, Len(resets') >= Len(resets)
  PROVE  ServesInv' /\ request' \in [Handler -> Request]
<1>1. AccountsTypeOK /\ ServesInv /\ request \in [Handler -> Request]
  BY DEF TablesInv, AccountsTypeOK
<1>2. \A g \in Handler : request'[g] = IF g = h THEN r ELSE request[g]
  BY <1>1
<1>3. ASSUME NEW g \in Handler PROVE Fits(request[g])'
  <2>1. CASE g = h
    BY <1>2, <2>1 DEF Fits, Id
  <2>2. CASE g # h
    <3>1. Fits(request[g]) /\ request'[g] = request[g]
      BY <1>1, <1>2, <2>2 DEF ServesInv
    <3>2. Len(users) \in Nat /\ Len(resets) \in Nat
      BY <1>1, TablesType
    <3>3. 1..Len(users) \subseteq 1..Len(users') /\ 1..Len(resets) \subseteq 1..Len(resets')
      BY <3>2
    <3> QED BY <3>1, <3>3 DEF Fits, Id
  <2> QED BY <2>1, <2>2
<1>4. ServesInv'
  BY <1>3 DEF ServesInv
<1> QED BY <1>1, <1>4

\* A step of a request that writes no table.
LEMMA RequestMoves ==
  ASSUME TablesInv, UNCHANGED tables, NEW h \in Handler, NEW r \in Request,
         request' = [request EXCEPT ![h] = r], Fits(r),
         booted' \in BOOLEAN, made' \in 0..MaxRequests, failures' \in 0..MaxFailures
  PROVE  TablesInv'
<1>1. UNCHANGED <<users, links, mailed, resets, sessions, providers>>
  BY DEF tables
<1>2. AccountsTypeOK /\ Len(users) \in Nat /\ Len(resets) \in Nat
  BY TablesType DEF TablesInv
<1>3. Fits(r)'
  BY <1>1 DEF Fits, Id
<1>4. ServesInv' /\ request' \in [Handler -> Request]
  <2>1. /\ Len(users') \in Nat /\ Len(users') >= Len(users)
        /\ Len(resets') \in Nat /\ Len(resets') >= Len(resets)
    BY <1>1, <1>2
  <2> QED BY <1>3, <2>1, ServesKept
<1>5. AccountsTypeOK'
  BY <1>1, <1>2, <1>4 DEF AccountsTypeOK, VerifyToken, AuthProvider, Id
<1>6. RowsInv'
  BY <1>1 DEF TablesInv, RowsInv, Live, Id
<1> QED BY <1>4, <1>5, <1>6 DEF TablesInv

\* The same for a new request.
LEMMA StartsStep ==
  ASSUME TablesInv, NEW h \in Handler, NEW r \in Request, Fits(r), Starts(h, r)
  PROVE  TablesInv'
<1>1. /\ UNCHANGED tables /\ UNCHANGED <<booted, failures>>
      /\ request' = [request EXCEPT ![h] = r]
      /\ made < MaxRequests /\ made' = made + 1
  BY DEF Starts
<1>2. booted \in BOOLEAN /\ made \in 0..MaxRequests /\ failures \in 0..MaxFailures
  BY DEF TablesInv, AccountsTypeOK
<1>3. made' \in 0..MaxRequests
  BY <1>1, <1>2, AccountsAssumption
<1> QED BY <1>1, <1>2, <1>3, RequestMoves

LEMMA TablesInit == AccountsInit => TablesInv
<1> SUFFICES ASSUME AccountsInit PROVE TablesInv
  OBVIOUS
<1>1. Len(users) = 0 /\ Id = {} /\ Len(resets) = 0
  BY DEF AccountsInit, Id
<1>2. \A h \in Handler : request[h] = NoRequest
  BY DEF AccountsInit
<1>3. AccountsTypeOK
  <2>1. << >> \in Seq(User) /\ << >> \in Seq(Reset) /\ << >> \in Seq(RefreshToken)
    BY EmptySeq
  <2>2. 0 \in 0..MaxRequests /\ 0 \in 0..MaxFailures
    BY AccountsAssumption
  <2> QED BY <2>1, <2>2, NoRequestType DEF AccountsInit, AccountsTypeOK
<1>4. ServesInv
  BY <1>2, NoRequestType DEF ServesInv
<1>5. RowsInv
  BY <1>1, AccountsAssumption DEF AccountsInit, RowsInv
<1> QED BY <1>3, <1>4, <1>5 DEF TablesInv

-----------------------------------------------------------------------------
(* The tables, action by action.                                            *)

\* Users may be written and added, the other tables follow: what is left to say.
LEMMA UsersMove ==
  ASSUME TablesInv, UNCHANGED <<resets, sessions, booted, made, failures>>,
         users' \in Seq(User), Len(users') >= Len(users), Len(users') <= MaxUsers,
         \A u \in Id' : ~users'[u].live => users'[u].email = NoEmail,
         \A u \in links' : u \in Id' /\ users'[u].live,
         \A u \in mailed' : u \in Id',
         providers' \subseteq providers,
         NEW h \in Handler, NEW r \in Request,
         request' = [request EXCEPT ![h] = r], Fits(r)'
  PROVE  TablesInv'
<1>1. AccountsTypeOK /\ Len(users) \in Nat /\ Len(resets) \in Nat
  BY TablesType DEF TablesInv
<1>2. Len(users') \in Nat /\ Len(resets') \in Nat /\ Len(resets') >= Len(resets)
  BY <1>1
<1>3. ServesInv' /\ request' \in [Handler -> Request]
  BY <1>1, <1>2, ServesKept
<1>4. \A u \in Id : u \in Id'
  BY <1>1, <1>2 DEF Id
<1>5. AccountsTypeOK'
  BY <1>1, <1>3, <1>4 DEF AccountsTypeOK, VerifyToken, AuthProvider
<1>6. RowsInv'
  BY DEF RowsInv, Live
<1> QED BY <1>3, <1>5, <1>6 DEF TablesInv

LEMMA InsertUserTables ==
  ASSUME TablesInv, NEW h \in Handler, InsertUser(h) \/ InsertKeyUser(h)
  PROVE  TablesInv'
<1>1. AccountsTypeOK /\ ServesInv /\ RowsInv /\ Len(users) \in Nat
      /\ request[h] \in Request
  BY TablesType DEF TablesInv
<1>2. PICK e \in User :
        /\ users' = Append(users, e) /\ e.live
        /\ Len(users) < MaxUsers
        /\ UNCHANGED <<links, mailed, resets, sessions, providers, booted, made, failures>>
  <2>1. CASE InsertUser(h)
    <3>1. request[h].entity \in User /\ request[h].entity.live
      BY <1>1, <2>1 DEF InsertUser, Waits, ServesInv, Fits, Request
    <3> QED BY <2>1, <3>1 DEF InsertUser
  <2>2. CASE InsertKeyUser(h)
    BY <2>2, KeyUserType DEF InsertKeyUser
  <2> QED BY <2>1, <2>2
<1>3. /\ users' \in Seq(User) /\ Len(users') = Len(users) + 1
      /\ \A u \in 1..Len(users) : users'[u] = users[u]
      /\ users'[Len(users) + 1] = e
  BY <1>1, <1>2, AppendProperties DEF AccountsTypeOK
<1>4. /\ Id' = 1..(Len(users) + 1) /\ Len(users) + 1 \in Id'
      /\ \A u \in Id : u \in Id' /\ users'[u] = users[u]
      /\ \A u \in Id' : u \in Id \/ u = Len(users) + 1
  BY <1>1, <1>3 DEF Id
<1>5. PICK r \in Request : request' = [request EXCEPT ![h] = r] /\ Fits(r)'
  <2>0. PICK n \in Nat : n = Len(users) + 1
    BY <1>1
  <2>1. CASE InsertUser(h)
    <3>1. CASE request[h].entity.verified
      BY <2>1, <3>1, NoRequestType DEF InsertUser, Ends
    <3>2. CASE ~request[h].entity.verified
      <4>0. PICK r : r = [NoRequest EXCEPT !.pc = "sendLink", !.user = n]
        OBVIOUS
      <4>1. r \in Request /\ r.pc = "sendLink" /\ r.user = n
        BY <4>0, DeletedType DEF NoRequest, Request
      <4>2. request' = [request EXCEPT ![h] = r]
        BY <2>0, <2>1, <3>2, <4>0 DEF InsertUser
      <4>3. Fits(r)'
        <5>1. r.user \in Id'
          BY <1>4, <2>0, <4>1
        <5>2. r.pc \in OfUser \ {"saveVerified", "saveRole"} /\ r.pc # "insertKey"
          BY <4>1 DEF OfUser
        <5> QED BY <4>1, <5>1, <5>2, FitsUser
      <4> QED BY <4>1, <4>2, <4>3
    <3> QED BY <3>1, <3>2
  <2>2. CASE InsertKeyUser(h)
    <3>1. PICK q \in Request : q = request[h]
      BY <1>1
    <3>2. PICK r : r = [q EXCEPT !.pc = "insertKey", !.user = n]
      OBVIOUS
    <3>3. r \in Request /\ r.pc = "insertKey" /\ r.user = n /\ r.key = q.key
      BY <3>2 DEF Request
    <3>4. r.key \in Key
      BY <1>1, <2>2, <3>1, <3>3 DEF InsertKeyUser, Waits, ServesInv, Fits
    <3>5. request' = [request EXCEPT ![h] = r]
      <4>1. request' = [request EXCEPT ![h] = [request[h] EXCEPT !.pc = "insertKey",
                                                                 !.user = n]]
        BY <1>1, <2>0, <2>2 DEF InsertKeyUser, AccountsTypeOK, Request
      <4> QED BY <3>1, <3>2, <4>1
    <3>6. Fits(r)'
      <4>1. r.user \in Id'
        BY <1>4, <2>0, <3>3
      <4>2. r.pc \in OfUser \ {"saveVerified", "saveRole"}
        BY <3>3 DEF OfUser
      <4> QED BY <3>4, <3>3, <4>1, <4>2, FitsUser
    <3> QED BY <3>5, <3>6, <3>3
  <2> QED BY <2>1, <2>2
<1>6. \A u \in Id' : ~users'[u].live => users'[u].email = NoEmail
  BY <1>1, <1>2, <1>3, <1>4 DEF RowsInv
<1>7. \A u \in links' : u \in Id' /\ users'[u].live
  BY <1>1, <1>2, <1>4 DEF RowsInv, Live
<1>8. \A u \in mailed' : u \in Id'
  BY <1>1, <1>2, <1>4 DEF AccountsTypeOK
<1>9. Len(users') >= Len(users) /\ Len(users') <= MaxUsers
  BY <1>1, <1>2, <1>3, AccountsAssumption
<1>10. providers' \subseteq providers
  BY <1>2
<1> QED BY <1>2, <1>3, <1>5, <1>6, <1>7, <1>8, <1>9, <1>10, UsersMove

\* Rows written in place: live ones stay so.
LEMMA RowsWritten ==
  ASSUME TablesInv, UNCHANGED <<links, mailed, resets, sessions, providers, booted, made, failures>>,
         users' \in Seq(User), Len(users') = Len(users),
         \A u \in Id : users[u].live => users'[u].live,
         \A u \in Id : ~users'[u].live => users'[u].email = NoEmail,
         NEW h \in Handler, NEW r \in Request,
         request' = [request EXCEPT ![h] = r], Fits(r)
  PROVE  TablesInv'
<1>1. AccountsTypeOK /\ RowsInv /\ Len(users) \in Nat
  BY TablesType DEF TablesInv
<1>2. Id' = Id
  BY DEF Id
<1>3. Fits(r)'
  BY <1>2 DEF Fits
<1>4. \A u \in links' : u \in Id' /\ users'[u].live
  BY <1>1, <1>2 DEF RowsInv, Live
<1>5. /\ \A u \in mailed' : u \in Id'
      /\ Len(users') >= Len(users) /\ Len(users') <= MaxUsers
      /\ providers' \subseteq providers
  BY <1>1, <1>2 DEF AccountsTypeOK, RowsInv
<1>6. \A u \in Id' : ~users'[u].live => users'[u].email = NoEmail
  BY <1>2
<1> QED BY <1>3, <1>4, <1>5, <1>6, UsersMove

\* A save of a whole entity that was live when it was read.
LEMMA SaveUserRows ==
  ASSUME TablesInv, NEW u \in Id, NEW e \in User, e.live, SaveUser(u, e)
  PROVE  /\ users' \in Seq(User) /\ Len(users') = Len(users)
         /\ \A v \in Id : users'[v] = IF v = u THEN e ELSE users[v]
         /\ \A v \in Id : users[v].live => users'[v].live
         /\ \A v \in Id : ~users'[v].live => users'[v].email = NoEmail
<1>1. users \in Seq(User) /\ u \in 1..Len(users) /\ RowsInv
  BY DEF TablesInv, AccountsTypeOK, Id
<1>2. users' = [users EXCEPT ![u] = e]
  BY DEF SaveUser
<1>3. users' \in Seq(User) /\ Len(users') = Len(users)
      /\ \A v \in Id : users'[v] = IF v = u THEN e ELSE users[v]
  BY <1>1, <1>2, ExceptSeq DEF Id
<1> QED BY <1>1, <1>3 DEF RowsInv

LEMMA SaveUserTables ==
  ASSUME TablesInv, NEW h \in Handler, SaveVerified(h) \/ SaveRole(h)
  PROVE  TablesInv'
<1>1. AccountsTypeOK /\ ServesInv /\ request[h] \in Request
  BY TablesType DEF TablesInv
<1>2. /\ request[h].user \in Id /\ request[h].entity \in User /\ request[h].entity.live
  BY <1>1 DEF SaveVerified, SaveRole, Waits, ServesInv, Fits, OfUser, Request
<1>3. CASE SaveVerified(h)
  <2> DEFINE e == [request[h].entity EXCEPT !.verified = TRUE]
             r == [request[h] EXCEPT !.pc = "deleteLink", !.entity = Deleted]
  <2>1. e \in User /\ e.live
    BY <1>2 DEF User
  <2>2. r \in Request /\ r.pc = "deleteLink" /\ r.user = request[h].user
    BY <1>1, DeletedType DEF Request
  <2>3. /\ SaveUser(request[h].user, e) /\ request' = [request EXCEPT ![h] = r]
        /\ UNCHANGED <<links, mailed, resets, sessions, providers, booted, made, failures>>
    BY <1>3 DEF SaveVerified
  <2> HIDE DEF e, r
  <2>4. Fits(r)
    BY <1>2, <2>2 DEF Fits, OfReset
  <2> QED BY <1>2, <2>1, <2>2, <2>3, <2>4, SaveUserRows, RowsWritten
<1>4. CASE SaveRole(h)
  <2>1. /\ SaveUser(request[h].user, request[h].entity)
        /\ request' = [request EXCEPT ![h] = NoRequest]
        /\ UNCHANGED <<links, mailed, resets, sessions, providers, booted, made, failures>>
    BY <1>4 DEF SaveRole, Ends
  <2> QED BY <1>2, <2>1, SaveUserRows, RowsWritten, NoRequestType
<1> QED BY <1>3, <1>4

LEMMA SetPasswordTables ==
  ASSUME TablesInv, NEW h \in Handler, SetPassword(h)
  PROVE  TablesInv'
<1>1. AccountsTypeOK /\ ServesInv /\ RowsInv /\ request[h] \in Request
      /\ Len(users) \in Nat /\ Id = 1..Len(users) /\ \A u \in Id : users[u] \in User
  BY TablesType DEF TablesInv
<1> DEFINE p == request[h].password
           r == [request[h] EXCEPT !.pc = "endSessions", !.password = NoPassword]
<1>2. p \in Password \cup {NoPassword}
  BY <1>1 DEF Request
<1>3. users' = [u \in Id |-> IF u \in WithEmail(request[h].email)
                               THEN [users[u] EXCEPT !.password = p] ELSE users[u]]
  BY DEF SetPassword
<1>4. \A u \in Id : /\ users'[u] \in User /\ users'[u].live = users[u].live
                    /\ users'[u].email = users[u].email
  BY <1>1, <1>2, <1>3 DEF User
<1>5. users' \in Seq(User) /\ Len(users') = Len(users)
  BY <1>1, <1>3, <1>4, SeqDef
<1>6. /\ r \in Request /\ r.pc = "endSessions" /\ r.email = request[h].email
      /\ r.reset = request[h].reset
  BY <1>1 DEF Request
<1>7. /\ request' = [request EXCEPT ![h] = r]
      /\ UNCHANGED <<links, mailed, resets, sessions, providers, booted, made, failures>>
  BY DEF SetPassword
<1> HIDE DEF r
<1>8. Fits(r)
  BY <1>1, <1>6 DEF SetPassword, Waits, ServesInv, Fits, OfUser, OfReset
<1>9. /\ \A u \in Id : users[u].live => users'[u].live
      /\ \A u \in Id : ~users'[u].live => users'[u].email = NoEmail
  BY <1>1, <1>4 DEF RowsInv
<1> QED BY <1>5, <1>6, <1>7, <1>8, <1>9, RowsWritten

\* Steps that write other tables than users.
LEMMA OtherTables ==
  ASSUME TablesInv, UNCHANGED users,
         \A u \in links' : u \in Live, \A u \in mailed' : u \in Id,
         resets' \in Seq(Reset),
         sessions' \in [1..MaxUsers -> Seq(RefreshToken)],
         \A p \in providers' : p \in AuthProvider,
         ServesInv', request' \in [Handler -> Request],
         booted' \in BOOLEAN, made' \in 0..MaxRequests, failures' \in 0..MaxFailures
  PROVE  TablesInv'
<1>1. AccountsTypeOK /\ RowsInv
  BY DEF TablesInv
<1>2. Id' = Id /\ Live' = Live
  BY DEF Id, Live
<1>3. AccountsTypeOK'
  BY <1>1, <1>2 DEF AccountsTypeOK, VerifyToken, AuthProvider, Live
<1>4. RowsInv'
  BY <1>1, <1>2 DEF RowsInv
<1> QED BY <1>3, <1>4 DEF TablesInv

\* What one request does next, while the tables keep their rows.
LEMMA RequestKept ==
  ASSUME TablesInv, UNCHANGED users, Len(resets') \in Nat, Len(resets') >= Len(resets),
         NEW h \in Handler, NEW r \in Request,
         request' = [request EXCEPT ![h] = r], Fits(r)
  PROVE  ServesInv' /\ request' \in [Handler -> Request]
<1>1. Len(users) \in Nat /\ Len(resets) \in Nat
  BY TablesType DEF TablesInv
<1>2. Fits(r)'
  <2>1. 1..Len(resets) \subseteq 1..Len(resets')
    BY <1>1
  <2>2. Id' = Id
    BY DEF Id
  <2> QED BY <2>1, <2>2 DEF Fits
<1>3. Len(users') \in Nat /\ Len(users') >= Len(users)
  BY <1>1
<1> QED BY <1>2, <1>3, ServesKept

\* The same when no request moves.
LEMMA RequestsIdle ==
  ASSUME TablesInv, UNCHANGED request, Len(users') = Len(users),
         Len(resets') \in Nat, Len(resets') >= Len(resets)
  PROVE  ServesInv' /\ request' \in [Handler -> Request]
<1>1. Len(users) \in Nat /\ Len(resets) \in Nat /\ AccountsTypeOK /\ ServesInv
  BY TablesType DEF TablesInv
<1>2. 1..Len(resets) \subseteq 1..Len(resets') /\ Id' = Id
  BY <1>1 DEF Id
<1>3. ASSUME NEW g \in Handler PROVE Fits(request[g])'
  BY <1>1, <1>2 DEF ServesInv, Fits
<1> QED BY <1>1, <1>3 DEF ServesInv, AccountsTypeOK

\* The record of a request that waits for its next query.
LEMMA GoesType ==
  ASSUME TablesInv, NEW h \in Handler,
         NEW pc \in OfUser \cup OfReset \cup {"insertReset"}, Goes(h, pc)
  PROVE  \E r \in Request :
           /\ request' = [request EXCEPT ![h] = r]
           /\ r.pc = pc /\ r.user = request[h].user /\ r.entity = request[h].entity
           /\ r.email = request[h].email /\ r.key = request[h].key
           /\ r.reset = request[h].reset
<1>1. request[h] \in Request
  BY TablesType DEF TablesInv
<1> DEFINE r == [request[h] EXCEPT !.pc = pc]
<1>2. /\ r \in Request /\ r.pc = pc /\ r.user = request[h].user
      /\ r.entity = request[h].entity /\ r.email = request[h].email
      /\ r.key = request[h].key /\ r.reset = request[h].reset
  BY <1>1 DEF Request, OfUser, OfReset
<1>3. request' = [request EXCEPT ![h] = r]
  BY DEF Goes
<1> HIDE DEF r
<1> QED BY <1>2, <1>3

LEMMA EndsType ==
  ASSUME TablesInv, NEW h \in Handler, Ends(h)
  PROVE  /\ request' = [request EXCEPT ![h] = NoRequest]
         /\ NoRequest \in Request /\ Fits(NoRequest)
  BY NoRequestType DEF Ends

-----------------------------------------------------------------------------
(* Requests that start.                                                     *)

LEMMA RegisterTables ==
  ASSUME TablesInv, NEW h \in Handler, NEW email \in Email, NEW p \in Password,
         Register(h, email, p)
  PROVE  TablesInv'
<1> DEFINE r == [NoRequest EXCEPT !.pc = "insertUser", !.entity = NewUser(email, p)]
<1>1. r \in Request /\ r.pc = "insertUser" /\ r.entity = NewUser(email, p)
  BY DeletedType, NewUserType DEF NoRequest, Request
<1>2. Starts(h, r)
  BY DEF Register
<1> HIDE DEF r
<1>3. Fits(r)
  BY <1>1, NewUserType DEF Fits, OfUser, OfReset
<1> QED BY <1>1, <1>2, <1>3, StartsStep

LEMMA BootTables ==
  ASSUME TablesInv, NEW h \in Handler, Boot(h)
  PROVE  TablesInv'
<1>1. AccountsTypeOK
  BY DEF TablesInv
<1>2. /\ UNCHANGED <<tables, made, failures>>
      /\ booted' \in BOOLEAN /\ made' \in 0..MaxRequests /\ failures' \in 0..MaxFailures
  BY <1>1 DEF Boot, AccountsTypeOK
<1>3. CASE EmailFree(RootEmail)
  <2>1. PICK p \in Password :
          request' = [request EXCEPT ![h] = [NoRequest EXCEPT !.pc = "insertUser",
                                                              !.entity = Root(p)]]
    BY <1>3 DEF Boot
  <2> DEFINE r == [NoRequest EXCEPT !.pc = "insertUser", !.entity = Root(p)]
  <2>2. r \in Request /\ r.pc = "insertUser" /\ r.entity = Root(p)
    BY DeletedType, RootType DEF NoRequest, Request
  <2>3. request' = [request EXCEPT ![h] = r]
    BY <2>1
  <2> HIDE DEF r
  <2>4. Fits(r)
    BY <2>2, RootType DEF Fits, OfUser, OfReset
  <2> QED BY <1>2, <2>2, <2>3, <2>4, RequestMoves
<1>4. CASE ~EmailFree(RootEmail)
  <2>1. UNCHANGED <<request, users, links, mailed, resets, sessions, providers>>
    BY <1>4 DEF Boot, tables
  <2>2. ServesInv' /\ request' \in [Handler -> Request]
    <3>1. Len(resets) \in Nat
      BY <1>1, TablesType
    <3>2. /\ Len(users') = Len(users)
          /\ Len(resets') \in Nat /\ Len(resets') >= Len(resets)
      BY <2>1, <3>1
    <3> QED BY <2>1, <3>2, RequestsIdle
  <2> QED BY <1>1, <1>2, <2>1, <2>2, OtherTables DEF TablesInv, RowsInv, AccountsTypeOK
<1> QED BY <1>3, <1>4

\* A request for a user who has been found.
LEMMA ForUserTables ==
  ASSUME TablesInv, NEW h \in Handler, NEW u \in Id,
         VerifyUser(h, u) \/ Login(h, u) \/ Refresh(h, u)
           \/ \E role \in Role : SetRole(h, u, role)
  PROVE  TablesInv'
<1>1. AccountsTypeOK /\ RowsInv /\ u \in Nat /\ users[u] \in User
  <2>1. AccountsTypeOK /\ RowsInv /\ Len(users) \in Nat
    BY TablesType DEF TablesInv
  <2> QED BY <2>1, TablesType DEF Id
<1>2. CASE VerifyUser(h, u)
  <2> DEFINE r == [NoRequest EXCEPT !.pc = "saveVerified", !.user = u, !.entity = users[u]]
  <2>1. r \in Request /\ r.pc = "saveVerified" /\ r.user = u /\ r.entity = users[u]
    BY <1>1, DeletedType DEF NoRequest, Request
  <2>2. Starts(h, r)
    BY <1>2 DEF VerifyUser
  <2> HIDE DEF r
  <2>3. users[u].live
    BY <1>1, <1>2 DEF VerifyUser, RowsInv, Live
  <2>4. Fits(r)
    BY <2>1, <2>3 DEF Fits, OfReset
  <2> QED BY <2>1, <2>2, <2>4, StartsStep
<1>3. CASE Login(h, u) \/ Refresh(h, u)
  <2> DEFINE r == [NoRequest EXCEPT !.pc = "deleteTokens", !.user = u]
  <2>1. r \in Request /\ r.pc = "deleteTokens" /\ r.user = u
    BY <1>1, DeletedType DEF NoRequest, Request
  <2>2. Starts(h, r)
    BY <1>3 DEF Login, Refresh
  <2> HIDE DEF r
  <2>3. Fits(r)
    BY <2>1 DEF Fits, OfReset
  <2> QED BY <2>1, <2>2, <2>3, StartsStep
<1>4. CASE \E role \in Role : SetRole(h, u, role)
  <2>1. PICK role \in Role : SetRole(h, u, role)
    BY <1>4
  <2> DEFINE e == [users[u] EXCEPT !.role = role]
             r == [NoRequest EXCEPT !.pc = "saveRole", !.user = u, !.entity = e]
  <2>2. users[u].live
    BY <2>1 DEF SetRole, Live
  <2>3. e \in User /\ e.live
    BY <1>1, <2>2 DEF User
  <2>4. Starts(h, r)
    BY <2>1 DEF SetRole
  <2> HIDE DEF e
  <2>5. r \in Request /\ r.pc = "saveRole" /\ r.user = u /\ r.entity = e
    BY <1>1, <2>3, DeletedType DEF NoRequest, Request
  <2> HIDE DEF r
  <2>6. Fits(r)
    BY <2>3, <2>5 DEF Fits, OfReset
  <2> QED BY <2>4, <2>5, <2>6, StartsStep
<1> QED BY <1>2, <1>3, <1>4

LEMMA VkLoginTables ==
  ASSUME TablesInv, NEW h \in Handler, NEW key \in Key, VkLogin(h, key)
  PROVE  TablesInv'
<1>1. CASE \E u \in WithKey(key) :
             Starts(h, [NoRequest EXCEPT !.pc = "deleteTokens", !.user = u])
  <2>1. PICK u \in WithKey(key) :
          Starts(h, [NoRequest EXCEPT !.pc = "deleteTokens", !.user = u])
    BY <1>1
  <2> DEFINE r == [NoRequest EXCEPT !.pc = "deleteTokens", !.user = u]
  <2>2. u \in Id /\ u \in Nat
    BY DEF WithKey, Live, Id
  <2>3. r \in Request /\ r.pc = "deleteTokens" /\ r.user = u
    BY <2>2, DeletedType DEF NoRequest, Request
  <2>4. Starts(h, r)
    BY <2>1
  <2> HIDE DEF r
  <2>5. Fits(r)
    BY <2>2, <2>3 DEF Fits, OfReset
  <2> QED BY <2>3, <2>4, <2>5, StartsStep
<1>2. CASE Starts(h, [NoRequest EXCEPT !.pc = "insertKeyUser", !.key = key])
  <2> DEFINE r == [NoRequest EXCEPT !.pc = "insertKeyUser", !.key = key]
  <2>1. r \in Request /\ r.pc = "insertKeyUser" /\ r.key = key
    BY DeletedType DEF NoRequest, Request
  <2>2. Starts(h, r)
    BY <1>2
  <2> HIDE DEF r
  <2>3. Fits(r)
    BY <2>1 DEF Fits, OfUser, OfReset
  <2> QED BY <2>1, <2>2, <2>3, StartsStep
<1> QED BY <1>1, <1>2 DEF VkLogin

LEMMA ResetPasswordTables ==
  ASSUME TablesInv, NEW h \in Handler, NEW email \in Email, ResetPassword(h, email)
  PROVE  TablesInv'
<1> DEFINE r == [NoRequest EXCEPT !.pc = "deleteResets", !.email = email]
<1>1. r \in Request /\ r.pc = "deleteResets" /\ r.email = email
  BY DeletedType DEF NoRequest, Request
<1>2. Starts(h, r)
  BY DEF ResetPassword
<1> HIDE DEF r
<1>3. Fits(r)
  BY <1>1 DEF Fits, OfUser, OfReset
<1> QED BY <1>1, <1>2, <1>3, StartsStep

LEMMA ConfirmResetTables ==
  ASSUME TablesInv, NEW h \in Handler, NEW t \in 1..MaxResets, NEW p \in Password,
         ConfirmReset(h, t, p)
  PROVE  TablesInv'
<1>1. AccountsTypeOK /\ t \in 1..Len(resets) /\ t \in Nat
  BY DEF TablesInv, ConfirmReset
<1>2. resets[t].email \in Email
  BY <1>1, TablesType DEF Reset
<1> DEFINE r == [NoRequest EXCEPT !.pc = "setPassword", !.reset = t,
                                  !.email = resets[t].email, !.password = p]
<1>3. r \in Request /\ r.pc = "setPassword" /\ r.reset = t /\ r.email = resets[t].email
  BY <1>1, <1>2, DeletedType DEF NoRequest, Request
<1>4. Starts(h, r)
  BY DEF ConfirmReset
<1> HIDE DEF r
<1>5. Fits(r)
  BY <1>1, <1>2, <1>3 DEF Fits, OfUser, OfReset
<1> QED BY <1>3, <1>4, <1>5, StartsStep


-----------------------------------------------------------------------------
(* Queries that write one table.                                            *)

LEMMA LinkTables ==
  ASSUME TablesInv, NEW h \in Handler, SendLink(h) \/ LoseLink(h)
  PROVE  TablesInv'
<1>1. AccountsTypeOK /\ ServesInv /\ RowsInv /\ Len(resets) \in Nat
  BY TablesType DEF TablesInv
<1>2. /\ UNCHANGED <<users, resets, sessions, providers, booted, made>> /\ Ends(h)
      /\ failures' \in 0..MaxFailures
  <2>1. CASE SendLink(h)
    BY <1>1, <2>1 DEF SendLink, AccountsTypeOK
  <2>2. CASE LoseLink(h)
    BY <1>1, <2>2, AccountsAssumption DEF LoseLink, AccountsTypeOK
  <2> QED BY <2>1, <2>2
<1>3. \A u \in links' : u \in Live
  BY <1>1 DEF SendLink, LoseLink, Stored, RowsInv
<1>4. \A u \in mailed' : u \in Id
  BY <1>1 DEF SendLink, LoseLink, AccountsTypeOK, Live
<1>5. ServesInv' /\ request' \in [Handler -> Request]
  <2>1. Len(resets') \in Nat /\ Len(resets') >= Len(resets)
    BY <1>1, <1>2
  <2> QED BY <1>2, <2>1, EndsType, RequestKept
<1> QED BY <1>1, <1>2, <1>3, <1>4, <1>5, OtherTables DEF AccountsTypeOK

LEMMA DeleteLinkTables ==
  ASSUME TablesInv, NEW h \in Handler, DeleteLink(h)
  PROVE  TablesInv'
<1>1. AccountsTypeOK /\ ServesInv /\ RowsInv /\ Len(resets) \in Nat
  BY TablesType DEF TablesInv
<1>2. /\ UNCHANGED <<users, mailed, resets, sessions, providers, booted, made, failures>>
      /\ links' \subseteq links
  BY DEF DeleteLink
<1>3. PICK r \in Request : request' = [request EXCEPT ![h] = r] /\ Fits(r)
  <2>1. CASE Ends(h)
    BY <2>1, EndsType
  <2>2. CASE Goes(h, "deleteTokens")
    <3>1. PICK r \in Request :
            /\ request' = [request EXCEPT ![h] = r]
            /\ r.pc = "deleteTokens" /\ r.user = request[h].user
      <4>1. "deleteTokens" \in OfUser
        BY DEF OfUser
      <4> QED BY <2>2, <4>1, GoesType
    <3>2. Fits(r)
      BY <1>1, <3>1 DEF DeleteLink, Waits, ServesInv, Fits, OfUser, OfReset
    <3> QED BY <3>1, <3>2
  <2> QED BY <2>1, <2>2 DEF DeleteLink
<1>4. ServesInv' /\ request' \in [Handler -> Request]
  <2>1. Len(resets') \in Nat /\ Len(resets') >= Len(resets)
    BY <1>1, <1>2
  <2> QED BY <1>2, <1>3, <2>1, RequestKept
<1>5. \A u \in links' : u \in Live
  BY <1>1, <1>2 DEF RowsInv
<1> QED BY <1>1, <1>2, <1>4, <1>5, OtherTables DEF AccountsTypeOK

LEMMA InsertKeyTables ==
  ASSUME TablesInv, NEW h \in Handler, InsertKey(h)
  PROVE  TablesInv'
<1>1. AccountsTypeOK /\ ServesInv /\ RowsInv /\ Len(resets) \in Nat /\ request[h] \in Request
  BY TablesType DEF TablesInv
<1>2. /\ UNCHANGED <<users, links, mailed, resets, sessions, booted, made, failures>>
      /\ request[h].user \in Id /\ request[h].key \in Key
  BY <1>1 DEF InsertKey, Waits, ServesInv, Fits, OfUser
<1>3. \A p \in providers' : p \in AuthProvider
  BY <1>1, <1>2 DEF InsertKey, AccountsTypeOK, AuthProvider
<1>4. PICK r \in Request : request' = [request EXCEPT ![h] = r] /\ Fits(r)
  <2>1. CASE Ends(h)
    BY <2>1, EndsType
  <2>2. CASE request' = [request EXCEPT ![h].pc = "deleteTokens", ![h].key = "none"]
    <3> DEFINE r == [request[h] EXCEPT !.pc = "deleteTokens", !.key = "none"]
    <3>1. r \in Request /\ r.pc = "deleteTokens" /\ r.user = request[h].user
      BY <1>1 DEF Request
    <3>2. request' = [request EXCEPT ![h] = r]
      BY <2>2
    <3> HIDE DEF r
    <3>3. Fits(r)
      BY <1>2, <3>1 DEF Fits, OfUser, OfReset
    <3> QED BY <3>1, <3>2, <3>3
  <2> QED BY <2>1, <2>2 DEF InsertKey
<1>5. ServesInv' /\ request' \in [Handler -> Request]
  <2>1. Len(resets') \in Nat /\ Len(resets') >= Len(resets)
    BY <1>1, <1>2
  <2> QED BY <1>2, <1>4, <2>1, RequestKept
<1> QED BY <1>1, <1>2, <1>3, <1>5, OtherTables DEF AccountsTypeOK, RowsInv

\* What the sessions of one user may become.
LEMMA SessionsType ==
  ASSUME AccountsTypeOK, NEW u \in 1..MaxUsers
  PROVE  /\ sessions[u] \in Seq(RefreshToken)
         /\ Append(sessions[u], "good") \in Seq(RefreshToken)
         /\ Cleared(sessions[u]) \in Seq(RefreshToken)
         /\ sessions[u] # <<>> => Tail(sessions[u]) \in Seq(RefreshToken)
<1>1. sessions[u] \in Seq(RefreshToken) /\ "good" \in RefreshToken
  BY DEF AccountsTypeOK, RefreshToken
<1>2. Cleared(sessions[u]) \in Seq(RefreshToken)
  BY EmptySeq DEF Cleared
<1> QED BY <1>1, <1>2, AppendProperties, HeadTailProperties

LEMMA TokensTables ==
  ASSUME TablesInv, NEW h \in Handler, DeleteTokens(h) \/ InsertToken(h) \/ EndSessions(h)
  PROVE  TablesInv'
<1>1. AccountsTypeOK /\ ServesInv /\ RowsInv /\ Len(resets) \in Nat
      /\ Len(users) \in Nat /\ request[h] \in Request
  BY TablesType DEF TablesInv
<1>2. UNCHANGED <<users, links, mailed, resets, providers, booted, made, failures>>
  BY DEF DeleteTokens, InsertToken, EndSessions
<1>3. \A u \in Id : u \in 1..MaxUsers
  BY <1>1, AccountsAssumption DEF RowsInv, Id
<1>4. sessions' \in [1..MaxUsers -> Seq(RefreshToken)]
  <2>1. sessions \in [1..MaxUsers -> Seq(RefreshToken)]
    BY <1>1 DEF AccountsTypeOK
  <2>2. CASE DeleteTokens(h) \/ InsertToken(h)
    <3>1. request[h].user \in 1..MaxUsers
      BY <1>1, <1>3, <2>2 DEF DeleteTokens, InsertToken, Waits, ServesInv, Fits, OfUser
    <3> QED BY <1>1, <2>1, <2>2, <3>1, SessionsType DEF DeleteTokens, InsertToken
  <2>3. CASE EndSessions(h)
    <3>1. \A u \in WithEmail(request[h].email) : u \in 1..MaxUsers
      BY <1>3 DEF WithEmail, Live
    <3> QED BY <1>1, <2>1, <2>3, <3>1, SessionsType DEF EndSessions
  <2> QED BY <2>2, <2>3
<1>5. PICK r \in Request : request' = [request EXCEPT ![h] = r] /\ Fits(r)
  <2>1. CASE DeleteTokens(h)
    <3>1. PICK r \in Request :
            /\ request' = [request EXCEPT ![h] = r]
            /\ r.pc = "insertToken" /\ r.user = request[h].user
      <4>1. "insertToken" \in OfUser
        BY DEF OfUser
      <4> QED BY <2>1, <4>1, GoesType DEF DeleteTokens
    <3>2. Fits(r)
      BY <1>1, <2>1, <3>1 DEF DeleteTokens, Waits, ServesInv, Fits, OfUser, OfReset
    <3> QED BY <3>1, <3>2
  <2>2. CASE InsertToken(h)
    BY <2>2, EndsType DEF InsertToken
  <2>3. CASE EndSessions(h)
    <3>1. PICK r \in Request :
            /\ request' = [request EXCEPT ![h] = r]
            /\ r.pc = "deleteReset" /\ r.email = request[h].email
            /\ r.reset = request[h].reset
      <4>1. "deleteReset" \in OfReset
        BY DEF OfReset
      <4> QED BY <2>3, <4>1, GoesType DEF EndSessions
    <3>2. Fits(r)
      BY <1>1, <2>3, <3>1 DEF EndSessions, Waits, ServesInv, Fits, OfUser, OfReset
    <3> QED BY <3>1, <3>2
  <2> QED BY <2>1, <2>2, <2>3
<1>6. ServesInv' /\ request' \in [Handler -> Request]
  <2>1. Len(resets') \in Nat /\ Len(resets') >= Len(resets)
    BY <1>1, <1>2
  <2> QED BY <1>2, <1>5, <2>1, RequestKept
<1> QED BY <1>1, <1>2, <1>4, <1>6, OtherTables DEF AccountsTypeOK, RowsInv

LEMMA ExpiryTables ==
  ASSUME TablesInv, NEW u \in Id, RefreshExpired(u) \/ ExpireSession(u) \/ Logout(u)
  PROVE  TablesInv'
<1>1. AccountsTypeOK /\ ServesInv /\ RowsInv /\ Len(resets) \in Nat /\ Len(users) \in Nat
  BY TablesType DEF TablesInv
<1>2. UNCHANGED <<users, links, mailed, resets, providers, request, booted, made, failures>>
  BY DEF RefreshExpired, ExpireSession, Logout
<1>3. u \in 1..MaxUsers
  BY <1>1, AccountsAssumption DEF RowsInv, Id
<1>4. sessions' \in [1..MaxUsers -> Seq(RefreshToken)]
  <2>1. sessions \in [1..MaxUsers -> Seq(RefreshToken)]
    BY <1>1 DEF AccountsTypeOK
  <2>2. CASE RefreshExpired(u) \/ Logout(u)
    BY <1>1, <1>3, <2>1, <2>2, SessionsType DEF RefreshExpired, Logout
  <2>3. CASE ExpireSession(u)
    <3>1. PICK i \in 1..Len(sessions[u]) : sessions' = [sessions EXCEPT ![u][i] = "expired"]
      BY <2>3 DEF ExpireSession
    <3>2. [sessions[u] EXCEPT ![i] = "expired"] \in Seq(RefreshToken)
      <4>1. sessions[u] \in Seq(RefreshToken) /\ "expired" \in RefreshToken
        BY <1>3, <2>1 DEF RefreshToken
      <4> QED BY <4>1, ExceptSeq
    <3>3. sessions' = [sessions EXCEPT ![u] = [sessions[u] EXCEPT ![i] = "expired"]]
      BY <1>3, <2>1, <3>1
    <3> QED BY <2>1, <3>2, <3>3
  <2> QED BY <2>2, <2>3
<1>5. ServesInv' /\ request' \in [Handler -> Request]
  <2>1. /\ Len(users') = Len(users)
        /\ Len(resets') \in Nat /\ Len(resets') >= Len(resets)
    BY <1>1, <1>2
  <2> QED BY <1>2, <2>1, RequestsIdle
<1> QED BY <1>1, <1>2, <1>4, <1>5, OtherTables DEF AccountsTypeOK, RowsInv


\* What becomes of a reset token, and of a table of them.
LEMMA ResetType ==
  ASSUME NEW reset \in Reset
  PROVE  /\ Removed(reset) \in Reset
         /\ \A b \in BOOLEAN : [reset EXCEPT !.mailed = b] \in Reset
         /\ \A a \in Age : [reset EXCEPT !.age = a] \in Reset
  BY DEF Removed, Reset, Age

LEMMA ResetsTables ==
  ASSUME TablesInv, NEW h \in Handler,
         DeleteResets(h) \/ InsertReset(h) \/ MailReset(h) \/ DeleteReset(h)
  PROVE  TablesInv'
<1>1. AccountsTypeOK /\ ServesInv /\ RowsInv /\ Len(resets) \in Nat
      /\ request[h] \in Request /\ resets \in Seq(Reset)
      /\ \A t \in 1..Len(resets) : resets[t] \in Reset
  BY TablesType DEF TablesInv, AccountsTypeOK
<1>2. UNCHANGED <<users, links, mailed, sessions, providers, booted, made, failures>>
  BY DEF DeleteResets, InsertReset, MailReset, DeleteReset
<1>3. request[h].email \in Email
  BY <1>1 DEF DeleteResets, InsertReset, MailReset, DeleteReset, Waits, ServesInv, Fits,
              OfReset
<1>4. /\ resets' \in Seq(Reset)
      /\ Len(resets') = IF InsertReset(h) THEN Len(resets) + 1 ELSE Len(resets)
  <2>1. CASE DeleteResets(h)
    <3>1. ~InsertReset(h)
      BY <2>1 DEF DeleteResets, InsertReset, Waits
    <3>2. resets' = [t \in 1..Len(resets) |->
                       IF t \in Dropped(request[h].email) THEN Removed(resets[t])
                                                          ELSE resets[t]]
      BY <2>1 DEF DeleteResets
    <3>3. \A t \in 1..Len(resets) : resets'[t] \in Reset
      BY <1>1, <3>2, ResetType
    <3> QED BY <1>1, <3>1, <3>2, <3>3, SeqDef
  <2>2. CASE InsertReset(h)
    <3>1. [email |-> request[h].email, age |-> "new", mailed |-> FALSE, live |-> TRUE]
            \in Reset
      BY <1>3 DEF Reset, Age
    <3> QED BY <1>1, <2>2, <3>1, AppendProperties DEF InsertReset
  <2>3. CASE MailReset(h) \/ DeleteReset(h)
    <3>1. ~InsertReset(h)
      BY <2>3 DEF MailReset, DeleteReset, InsertReset, Waits
    <3>2. request[h].reset \in 1..Len(resets)
      BY <1>1, <2>3 DEF MailReset, DeleteReset, Waits, ServesInv, Fits, OfReset
    <3>3. PICK x \in Reset : resets' = [resets EXCEPT ![request[h].reset] = x]
      <4>1. CASE MailReset(h)
        <5> DEFINE b == resets[request[h].reset].live /\ ~EmailFree(request[h].email)
                   x == [resets[request[h].reset] EXCEPT !.mailed = b]
        <5>1. b \in BOOLEAN
          OBVIOUS
        <5>2. resets' = [resets EXCEPT ![request[h].reset] = x]
          BY <4>1 DEF MailReset
        <5> HIDE DEF b
        <5>3. x \in Reset
          BY <1>1, <3>2, <5>1, ResetType
        <5> HIDE DEF x
        <5> QED BY <5>2, <5>3
      <4>2. CASE DeleteReset(h)
        <5>1. resets' = [resets EXCEPT ![request[h].reset] =
                           Removed(resets[request[h].reset])]
          BY <4>2 DEF DeleteReset
        <5>2. Removed(resets[request[h].reset]) \in Reset
          BY <1>1, <3>2, ResetType
        <5> QED BY <5>1, <5>2
      <4> QED BY <2>3, <4>1, <4>2
    <3> QED BY <1>1, <3>1, <3>2, <3>3, ExceptSeq
  <2> QED BY <2>1, <2>2, <2>3
<1>5. Len(resets') \in Nat /\ Len(resets') >= Len(resets)
  BY <1>1, <1>4
<1>6. ServesInv' /\ request' \in [Handler -> Request]
  <2>1. CASE DeleteResets(h)
    <3>1. PICK r \in Request : /\ request' = [request EXCEPT ![h] = r]
                              /\ r.pc = "insertReset" /\ r.email = request[h].email
      BY <2>1, GoesType DEF DeleteResets
    <3>2. Fits(r)
      BY <1>3, <3>1 DEF Fits, OfUser, OfReset
    <3> QED BY <1>2, <1>5, <3>1, <3>2, RequestKept
  <2>2. CASE InsertReset(h)
    <3>0. PICK n \in Nat : n = Len(resets) + 1
      BY <1>1
    <3>1. PICK q \in Request : q = request[h]
      BY <1>1
    <3>2. PICK r : r = [q EXCEPT !.pc = "mailReset", !.reset = n]
      OBVIOUS
    <3>3. r \in Request /\ r.pc = "mailReset" /\ r.email = q.email /\ r.reset = n
      BY <3>2 DEF Request
    <3>4. request' = [request EXCEPT ![h] = r]
      <4>1. request' = [request EXCEPT ![h] = [request[h] EXCEPT !.pc = "mailReset",
                                                                 !.reset = n]]
        BY <1>1, <2>2, <3>0 DEF InsertReset, AccountsTypeOK, Request
      <4> QED BY <3>1, <3>2, <4>1
    <3>5. n \in 1..Len(resets') /\ r.email \in Email
      BY <1>1, <1>3, <1>4, <2>2, <3>0, <3>1, <3>3
    <3>6. Fits(r)'
      BY <3>3, <3>5 DEF Fits, OfUser, OfReset
    <3>7. Len(users') \in Nat /\ Len(users') >= Len(users)
      BY <1>2, TablesType DEF TablesInv
    <3> QED BY <1>5, <3>3, <3>4, <3>6, <3>7, ServesKept
  <2>3. CASE MailReset(h) \/ DeleteReset(h)
    BY <1>2, <1>5, <2>3, EndsType, RequestKept DEF MailReset, DeleteReset
  <2> QED BY <2>1, <2>2, <2>3
<1> QED BY <1>1, <1>2, <1>4, <1>6, OtherTables DEF AccountsTypeOK, RowsInv

LEMMA AgeResetTables ==
  ASSUME TablesInv, NEW t \in 1..MaxResets, AgeReset(t)
  PROVE  TablesInv'
<1>1. AccountsTypeOK /\ ServesInv /\ RowsInv /\ Len(resets) \in Nat
      /\ resets \in Seq(Reset) /\ Len(users) \in Nat
      /\ \A s \in 1..Len(resets) : resets[s] \in Reset
  BY TablesType DEF TablesInv, AccountsTypeOK
<1>2. /\ UNCHANGED <<users, links, mailed, sessions, providers, request, booted, made,
                     failures>>
      /\ t \in 1..Len(resets)
  BY DEF AgeReset
<1>3. PICK a \in Age : resets' = [resets EXCEPT ![t] = [resets[t] EXCEPT !.age = a]]
  <2>1. resets' = [resets EXCEPT ![t] = [resets[t] EXCEPT !.age =
                     IF resets[t].age = "new" THEN "renewable" ELSE "expired"]]
    BY DEF AgeReset
  <2>2. "renewable" \in Age /\ "expired" \in Age
    BY DEF Age
  <2> QED BY <2>1, <2>2
<1>4. resets' \in Seq(Reset) /\ Len(resets') = Len(resets)
  BY <1>1, <1>2, <1>3, ResetType, ExceptSeq
<1>5. ServesInv' /\ request' \in [Handler -> Request]
  <2>1. /\ Len(users') = Len(users)
        /\ Len(resets') \in Nat /\ Len(resets') >= Len(resets)
    BY <1>1, <1>2, <1>4
  <2> QED BY <1>2, <2>1, RequestsIdle
<1> QED BY <1>1, <1>2, <1>4, <1>5, OtherTables DEF AccountsTypeOK, RowsInv

LEMMA DeleteUserTables ==
  ASSUME TablesInv, NEW u \in Id, DeleteUser(u)
  PROVE  TablesInv'
<1>1. AccountsTypeOK /\ ServesInv /\ RowsInv /\ Len(resets) \in Nat
      /\ users \in Seq(User) /\ Len(users) \in Nat /\ Id = 1..Len(users)
  BY TablesType DEF TablesInv, AccountsTypeOK
<1>2. /\ UNCHANGED <<mailed, resets, sessions, request, booted, made, failures>>
      /\ links' = links \ {u} /\ providers' \subseteq providers
      /\ users' = [users EXCEPT ![u] = Deleted]
  BY DEF DeleteUser
<1>3. /\ users' \in Seq(User) /\ Len(users') = Len(users)
      /\ \A v \in Id : users'[v] = IF v = u THEN Deleted ELSE users[v]
  BY <1>1, <1>2, DeletedType, ExceptSeq
<1>4. Id' = Id
  BY <1>3 DEF Id
<1>5. ServesInv' /\ request' \in [Handler -> Request]
  <2>1. /\ Len(users') = Len(users)
        /\ Len(resets') \in Nat /\ Len(resets') >= Len(resets)
    BY <1>1, <1>2, <1>3
  <2> QED BY <1>2, <2>1, RequestsIdle
<1>6. RowsInv'
  <2>1. \A v \in Id : ~users'[v].live => users'[v].email = NoEmail
    BY <1>1, <1>3, DeletedType DEF RowsInv
  <2>2. \A v \in links' : v \in Live'
    BY <1>1, <1>2, <1>3, <1>4 DEF RowsInv, Live
  <2> QED BY <1>1, <1>3, <1>4, <2>1, <2>2 DEF RowsInv
<1>7. AccountsTypeOK'
  BY <1>1, <1>2, <1>3, <1>4, <1>5 DEF AccountsTypeOK, VerifyToken, AuthProvider
<1> QED BY <1>5, <1>6, <1>7 DEF TablesInv

LEMMA FailTables ==
  ASSUME TablesInv, (\E h \in Handler : Fail(h)) \/ Crash
  PROVE  TablesInv'
<1>1. AccountsTypeOK /\ ServesInv /\ RowsInv /\ Len(resets) \in Nat /\ Len(users) \in Nat
  BY TablesType DEF TablesInv
<1>2. UNCHANGED <<users, links, mailed, resets, sessions, providers>> /\ UNCHANGED made
  BY DEF Fail, Crash, tables
<1>3. booted' \in BOOLEAN /\ failures' \in 0..MaxFailures
  <2>1. booted \in BOOLEAN /\ failures \in 0..MaxFailures
    BY <1>1 DEF AccountsTypeOK
  <2>2. booted' \in BOOLEAN
    BY <2>1 DEF Fail, Crash
  <2>3. failures < MaxFailures /\ failures' = failures + 1
    BY DEF Fail, Crash
  <2> QED BY <2>1, <2>2, <2>3, AccountsAssumption
<1>4. ServesInv' /\ request' \in [Handler -> Request]
  <2>1. CASE \E h \in Handler : Fail(h)
    <3>1. Len(resets') \in Nat /\ Len(resets') >= Len(resets)
      BY <1>1, <1>2
    <3> QED BY <1>2, <2>1, <3>1, EndsType, RequestKept DEF Fail
  <2>2. CASE Crash
    <3>1. request' = [h \in Handler |-> NoRequest]
      BY <2>2 DEF Crash
    <3>2. \A g \in Handler : Fits(request[g])'
      BY <3>1, NoRequestType DEF Fits, OfUser, OfReset
    <3> QED BY <3>1, <3>2, NoRequestType DEF ServesInv
  <2> QED BY <2>1, <2>2
<1> QED BY <1>1, <1>2, <1>3, <1>4, OtherTables DEF AccountsTypeOK, RowsInv

LEMMA TablesStep == TablesInv /\ [AccountsNext]_vars => TablesInv'
<1> SUFFICES ASSUME TablesInv, [AccountsNext]_vars PROVE TablesInv'
  OBVIOUS
<1>1. ASSUME NEW h \in Handler, Registration(h) PROVE TablesInv'
  BY <1>1, RegisterTables, BootTables, InsertUserTables, LinkTables, ForUserTables,
     SaveUserTables, DeleteLinkTables DEF Registration
<1>2. ASSUME NEW h \in Handler, Session(h) PROVE TablesInv'
  BY <1>2, ForUserTables, VkLoginTables, InsertUserTables, InsertKeyTables, TokensTables
     DEF Session
<1>3. ASSUME NEW h \in Handler, Administration(h) PROVE TablesInv'
  BY <1>3, ForUserTables, SaveUserTables DEF Administration
<1>4. ASSUME NEW h \in Handler, PasswordReset(h) PROVE TablesInv'
  BY <1>4, ResetPasswordTables, ResetsTables, ConfirmResetTables, SetPasswordTables,
     TokensTables DEF PasswordReset
<1>5. ASSUME NEW u \in Id, RefreshExpired(u) \/ ExpireSession(u) \/ Logout(u) \/ DeleteUser(u)
      PROVE  TablesInv'
  BY <1>5, ExpiryTables, DeleteUserTables
<1>6. CASE UNCHANGED vars
  <2>1. UNCHANGED <<users, links, mailed, resets, sessions, providers, request, booted,
                    made, failures>>
    BY <1>6 DEF vars, tables
  <2>2. AccountsTypeOK /\ RowsInv /\ Len(users') = Len(users)
        /\ Len(resets') \in Nat /\ Len(resets') >= Len(resets)
    BY <2>1, TablesType DEF TablesInv
  <2>3. ServesInv' /\ request' \in [Handler -> Request]
    BY <2>1, <2>2, RequestsIdle
  <2> QED BY <2>1, <2>2, <2>3, OtherTables DEF AccountsTypeOK, RowsInv
<1> QED BY <1>1, <1>2, <1>3, <1>4, <1>5, <1>6, AgeResetTables, FailTables DEF AccountsNext

LEMMA TablesInvAlways == AccountsSpec => []TablesInv
  BY TablesInit, TablesStep, PTL DEF AccountsSpec

\* Every table and every request of UsersService, AuthService and VkAuthService
\* is well formed in every state: the links are of stored users, the requests
\* wait for queries the code makes, and no row names a user who never was.
THEOREM AccountsTypeCorrect == AccountsSpec => []AccountsTypeOK
<1>1. TablesInv => AccountsTypeOK
  BY DEF TablesInv
<1> QED BY <1>1, TablesInvAlways, PTL


-----------------------------------------------------------------------------
(* Who may be verified.                                                     *)

Saves == {"saveVerified", "saveRole"}

Saving(u) == {h \in Handler : request[h].pc \in Saves /\ request[h].user = u}

\* The addresses with which u is stored or, when a request has read him, will be.
Addresses(u) == {users[u].email} \cup {request[h].entity.email : h \in Saving(u)}

\* Whatever is saved, u has been mailed a link or needs none.
Entitled(u) == u \in mailed \/ Addresses(u) \subseteq {NoEmail, RootEmail}

\* Queries that verify a user, or lead to a session of his.
Entering == {"insertKey", "deleteTokens", "insertToken", "saveVerified", "deleteLink"}

RowsEntitled == \A u \in Id : users[u].verified => Entitled(u)

SessionsEntitled ==
  \A u \in 1..MaxUsers : sessions[u] # <<>> => u \in Id /\ Entitled(u)

ProvidersEntitled == \A p \in providers : Entitled(p[2])

RequestsEntitled ==
  \A h \in Handler :
    /\ request[h].pc \in Entering => Entitled(request[h].user)
    /\ request[h].pc \in Saves /\ request[h].entity.verified
         => Entitled(request[h].user)
    /\ request[h].pc = "insertUser" /\ request[h].entity.verified
         => request[h].entity.email = RootEmail

EntitledInv == RowsEntitled /\ SessionsEntitled /\ ProvidersEntitled /\ RequestsEntitled

-----------------------------------------------------------------------------
(* How many there can be.                                                   *)

\* Requests about to insert a token of u, or a reset token of an e-mail.
TokenInserters(u) ==
  {h \in Handler : request[h].pc = "insertToken" /\ request[h].user = u}

ResetInserters(email) ==
  {h \in Handler : request[h].pc = "insertReset" /\ request[h].email = email}

SessionsCount ==
  \A u \in 1..MaxUsers :
    Len(sessions[u]) + Cardinality(TokenInserters(u)) <= Cardinality(Handler)

ResetsCount ==
  \A email \in Email :
    Cardinality(ResetsOf(email)) + Cardinality(ResetInserters(email))
      <= Cardinality(Handler)

\* Users who have an e-mail, or will have it again when a request saves them.
Owners(email) ==
  {u \in Id : \/ users[u].live /\ users[u].email = email
              \/ \E h \in Saving(u) : request[h].entity.email = email}

UserInserters(email) ==
  {h \in Handler : request[h].pc = "insertUser" /\ request[h].entity.email = email}

KeyInserters(key) ==
  {h \in Handler : request[h].pc \in {"insertKeyUser", "insertKey"} /\ request[h].key = key}

ProvidersLive == \A p \in providers : p[2] \in Live

OwnersCount ==
  \A email \in Email :
    Cardinality(Owners(email)) + Cardinality(UserInserters(email)) <= Cardinality(Handler)

KeysCount ==
  \A key \in Key :
    Cardinality(WithKey(key)) + Cardinality(KeyInserters(key)) <= Cardinality(Handler)

-----------------------------------------------------------------------------
(* The steps, by what they do to the requests.                              *)

StartsRequest(h) ==
  \/ \E email \in Email, p \in Password : Register(h, email, p)
  \/ Boot(h)
  \/ \E u \in Id : VerifyUser(h, u) \/ Login(h, u) \/ Refresh(h, u)
  \/ \E key \in Key : VkLogin(h, key)
  \/ \E u \in Id, role \in Role : SetRole(h, u, role)
  \/ \E email \in Email : ResetPassword(h, email)
  \/ \E t \in 1..MaxResets, p \in Password : ConfirmReset(h, t, p)

\* Queries after which the request is done, or has failed.
LastQuery(h) ==
  \/ SendLink(h) \/ LoseLink(h) \/ SaveRole(h) \/ InsertToken(h)
  \/ MailReset(h) \/ DeleteReset(h) \/ Fail(h)

\* Queries after which the same request waits for another.
NextQuery(h) ==
  \/ InsertUser(h) \/ SaveVerified(h) \/ DeleteLink(h)
  \/ InsertKeyUser(h) \/ InsertKey(h) \/ DeleteTokens(h)
  \/ DeleteResets(h) \/ InsertReset(h) \/ SetPassword(h) \/ EndSessions(h)

Unasked ==
  \/ \E u \in Id : RefreshExpired(u) \/ ExpireSession(u) \/ Logout(u) \/ DeleteUser(u)
  \/ \E t \in 1..MaxResets : AgeReset(t)

LEMMA NextForms ==
  AccountsNext => \/ \E h \in Handler : StartsRequest(h) \/ LastQuery(h) \/ NextQuery(h)
                  \/ Unasked \/ Crash
<1> SUFFICES ASSUME AccountsNext
             PROVE  \/ \E h \in Handler : StartsRequest(h) \/ LastQuery(h) \/ NextQuery(h)
                    \/ Unasked \/ Crash
  OBVIOUS
<1>1. ASSUME NEW h \in Handler, Registration(h)
      PROVE  StartsRequest(h) \/ LastQuery(h) \/ NextQuery(h)
  BY <1>1 DEF Registration, StartsRequest, LastQuery, NextQuery
<1>2. ASSUME NEW h \in Handler, Session(h)
      PROVE  StartsRequest(h) \/ LastQuery(h) \/ NextQuery(h)
  BY <1>2 DEF Session, StartsRequest, LastQuery, NextQuery
<1>3. ASSUME NEW h \in Handler, Administration(h)
      PROVE  StartsRequest(h) \/ LastQuery(h) \/ NextQuery(h)
  BY <1>3 DEF Administration, StartsRequest, LastQuery, NextQuery
<1>4. ASSUME NEW h \in Handler, PasswordReset(h)
      PROVE  StartsRequest(h) \/ LastQuery(h) \/ NextQuery(h)
  BY <1>4 DEF PasswordReset, StartsRequest, LastQuery, NextQuery
<1>5. ASSUME NEW h \in Handler, Fail(h) PROVE LastQuery(h)
  BY <1>5 DEF LastQuery
<1> QED BY <1>1, <1>2, <1>3, <1>4, <1>5 DEF AccountsNext, Unasked

\* What a request that starts has read, in state and in request record r.
StartOf(r) ==
  \/ /\ r.pc = "insertUser"
     /\ EmailFree(r.entity.email)
     /\ r.entity.verified => r.entity.email = RootEmail
  \/ /\ r.pc = "saveVerified"
     /\ r.user \in Live \cap links \cap mailed
     /\ r.entity = users[r.user]
  \/ /\ r.pc = "saveRole"
     /\ r.user \in Live
     /\ r.entity.email = users[r.user].email
     /\ r.entity.verified = users[r.user].verified
  \/ /\ r.pc = "deleteTokens"
     /\ r.user \in Id
     /\ \/ users[r.user].verified
        \/ sessions[r.user] # <<>>
        \/ \E p \in providers : p[2] = r.user
  \/ r.pc = "insertKeyUser" /\ WithKey(r.key) = {}
  \/ r.pc \in {"none", "deleteResets", "setPassword"}

LEMMA StartForms ==
  ASSUME TablesInv, NEW h \in Handler, StartsRequest(h)
  PROVE  /\ UNCHANGED tables /\ request[h].pc = "none"
         /\ \E r \in Request : request' = [request EXCEPT ![h] = r] /\ StartOf(r)
<1>1. AccountsTypeOK /\ RowsInv /\ request \in [Handler -> Request]
      /\ request[h] \in Request /\ \A u \in Id : users[u] \in User /\ u \in Nat
  <2>1. AccountsTypeOK /\ RowsInv /\ Len(users) \in Nat
    BY TablesType DEF TablesInv
  <2> QED BY <2>1, TablesType DEF AccountsTypeOK, Id
<1>2. UNCHANGED tables /\ request[h].pc = "none"
  BY DEF StartsRequest, Register, Boot, VerifyUser, Login, Refresh, VkLogin, SetRole,
         ResetPassword, ConfirmReset, Starts, Waits
<1>3. ASSUME NEW email \in Email, NEW p \in Password, Register(h, email, p)
      PROVE  \E r \in Request : request' = [request EXCEPT ![h] = r] /\ StartOf(r)
  <2> DEFINE r == [NoRequest EXCEPT !.pc = "insertUser", !.entity = NewUser(email, p)]
  <2>1. r \in Request /\ r.pc = "insertUser" /\ r.entity = NewUser(email, p)
    BY DeletedType, NewUserType DEF NoRequest, Request
  <2>2. request' = [request EXCEPT ![h] = r] /\ EmailFree(email)
    BY <1>3 DEF Register, Starts
  <2> HIDE DEF r
  <2>3. StartOf(r)
    BY <2>1, <2>2, NewUserType DEF StartOf
  <2> QED BY <2>1, <2>2, <2>3
<1>4. CASE Boot(h)
  <2>1. CASE EmailFree(RootEmail)
    <3>1. PICK p \in Password :
            request' = [request EXCEPT ![h] = [NoRequest EXCEPT !.pc = "insertUser",
                                                                !.entity = Root(p)]]
      BY <1>4, <2>1 DEF Boot
    <3> DEFINE r == [NoRequest EXCEPT !.pc = "insertUser", !.entity = Root(p)]
    <3>2. r \in Request /\ r.pc = "insertUser" /\ r.entity = Root(p)
      BY DeletedType, RootType DEF NoRequest, Request
    <3>3. request' = [request EXCEPT ![h] = r]
      BY <3>1
    <3> HIDE DEF r
    <3>4. StartOf(r)
      BY <2>1, <3>2, RootType DEF StartOf
    <3> QED BY <1>2, <3>2, <3>3, <3>4
  <2>2. CASE ~EmailFree(RootEmail)
    <3>1. request' = request
      BY <1>4, <2>2 DEF Boot
    <3>2. request' = [request EXCEPT ![h] = request[h]]
      BY <1>1, <3>1
    <3>3. StartOf(request[h])
      BY <1>2 DEF StartOf
    <3> QED BY <1>1, <1>2, <3>2, <3>3
  <2> QED BY <2>1, <2>2
<1>5. ASSUME NEW u \in Id, VerifyUser(h, u)
      PROVE  \E r \in Request : request' = [request EXCEPT ![h] = r] /\ StartOf(r)
  <2> DEFINE r == [NoRequest EXCEPT !.pc = "saveVerified", !.user = u, !.entity = users[u]]
  <2>1. r \in Request /\ r.pc = "saveVerified" /\ r.user = u /\ r.entity = users[u]
    BY <1>1, DeletedType DEF NoRequest, Request
  <2>2. request' = [request EXCEPT ![h] = r] /\ u \in links \cap mailed
    BY <1>5 DEF VerifyUser, Starts
  <2> HIDE DEF r
  <2>3. u \in Live
    BY <1>1, <2>2 DEF RowsInv
  <2>4. StartOf(r)
    BY <2>1, <2>2, <2>3 DEF StartOf
  <2> QED BY <2>1, <2>2, <2>4
<1>6. ASSUME NEW u \in Id, Starts(h, [NoRequest EXCEPT !.pc = "deleteTokens", !.user = u]),
             \/ users[u].verified
             \/ sessions[u] # <<>>
             \/ \E p \in providers : p[2] = u
      PROVE  \E r \in Request : request' = [request EXCEPT ![h] = r] /\ StartOf(r)
  <2> DEFINE r == [NoRequest EXCEPT !.pc = "deleteTokens", !.user = u]
  <2>1. r \in Request /\ r.pc = "deleteTokens" /\ r.user = u
    BY <1>1, DeletedType DEF NoRequest, Request
  <2>2. request' = [request EXCEPT ![h] = r]
    BY <1>6 DEF Starts
  <2> HIDE DEF r
  <2>3. StartOf(r)
    BY <1>6, <2>1 DEF StartOf
  <2> QED BY <2>1, <2>2, <2>3
<1>7. ASSUME NEW u \in Id, Login(h, u) \/ Refresh(h, u)
      PROVE  \E r \in Request : request' = [request EXCEPT ![h] = r] /\ StartOf(r)
  <2>1. Starts(h, [NoRequest EXCEPT !.pc = "deleteTokens", !.user = u])
    BY <1>7 DEF Login, Refresh
  <2>2. CASE Login(h, u)
    BY <1>6, <2>1, <2>2 DEF Login, MayLogin
  <2>3. CASE Refresh(h, u)
    <3>1. Len(sessions[u]) # 0
      BY <2>3 DEF Refresh
    <3>2. sessions[u] # <<>>
      BY <3>1
    <3> QED BY <1>6, <2>1, <3>2
  <2> QED BY <1>7, <2>2, <2>3
<1>8. ASSUME NEW key \in Key, VkLogin(h, key)
      PROVE  \E r \in Request : request' = [request EXCEPT ![h] = r] /\ StartOf(r)
  <2>1. CASE \E u \in WithKey(key) :
               Starts(h, [NoRequest EXCEPT !.pc = "deleteTokens", !.user = u])
    <3>1. PICK u \in WithKey(key) :
            Starts(h, [NoRequest EXCEPT !.pc = "deleteTokens", !.user = u])
      BY <2>1
    <3>2. u \in Id /\ <<key, u>> \in providers
      BY DEF WithKey, Live
    <3>3. \E p \in providers : p[2] = u
      BY <3>2
    <3> QED BY <1>6, <3>1, <3>2, <3>3
  <2>2. CASE /\ WithKey(key) = {}
             /\ Starts(h, [NoRequest EXCEPT !.pc = "insertKeyUser", !.key = key])
    <3> DEFINE r == [NoRequest EXCEPT !.pc = "insertKeyUser", !.key = key]
    <3>1. r \in Request /\ r.pc = "insertKeyUser" /\ r.key = key
      BY DeletedType DEF NoRequest, Request
    <3>2. request' = [request EXCEPT ![h] = r]
      BY <2>2 DEF Starts
    <3> HIDE DEF r
    <3>3. StartOf(r)
      BY <2>2, <3>1 DEF StartOf
    <3> QED BY <3>1, <3>2, <3>3
  <2> QED BY <1>8, <2>1, <2>2 DEF VkLogin
<1>9. ASSUME NEW u \in Id, NEW role \in Role, SetRole(h, u, role)
      PROVE  \E r \in Request : request' = [request EXCEPT ![h] = r] /\ StartOf(r)
  <2> DEFINE e == [users[u] EXCEPT !.role = role]
             r == [NoRequest EXCEPT !.pc = "saveRole", !.user = u, !.entity = e]
  <2>1. u \in Live /\ request' = [request EXCEPT ![h] = r]
    BY <1>9 DEF SetRole, Starts
  <2>2. e \in User /\ e.email = users[u].email /\ e.verified = users[u].verified
    BY <1>1 DEF User
  <2> HIDE DEF e
  <2>3. r \in Request /\ r.pc = "saveRole" /\ r.user = u /\ r.entity = e
    BY <1>1, <2>2, DeletedType DEF NoRequest, Request
  <2> HIDE DEF r
  <2>4. StartOf(r)
    BY <2>1, <2>2, <2>3 DEF StartOf
  <2> QED BY <2>1, <2>3, <2>4
<1>10. ASSUME NEW email \in Email, ResetPassword(h, email)
       PROVE  \E r \in Request : request' = [request EXCEPT ![h] = r] /\ StartOf(r)
  <2> DEFINE r == [NoRequest EXCEPT !.pc = "deleteResets", !.email = email]
  <2>1. r \in Request /\ r.pc = "deleteResets"
    BY DeletedType DEF NoRequest, Request
  <2>2. request' = [request EXCEPT ![h] = r]
    BY <1>10 DEF ResetPassword, Starts
  <2> HIDE DEF r
  <2>3. StartOf(r)
    BY <2>1 DEF StartOf
  <2> QED BY <2>1, <2>2, <2>3
<1>11. ASSUME NEW t \in 1..MaxResets, NEW p \in Password, ConfirmReset(h, t, p)
       PROVE  \E r \in Request : request' = [request EXCEPT ![h] = r] /\ StartOf(r)
  <2>1. t \in 1..Len(resets) /\ t \in Nat
    BY <1>11 DEF ConfirmReset
  <2>2. resets[t].email \in Email
    BY <1>1, <2>1, TablesType DEF Reset
  <2> DEFINE r == [NoRequest EXCEPT !.pc = "setPassword", !.reset = t,
                                    !.email = resets[t].email, !.password = p]
  <2>3. r \in Request /\ r.pc = "setPassword"
    BY <2>1, <2>2, DeletedType DEF NoRequest, Request
  <2>4. request' = [request EXCEPT ![h] = r]
    BY <1>11 DEF ConfirmReset, Starts
  <2> HIDE DEF r
  <2>5. StartOf(r)
    BY <2>3 DEF StartOf
  <2> QED BY <2>3, <2>4, <2>5
<1> QED BY <1>2, <1>3, <1>4, <1>5, <1>7, <1>8, <1>9, <1>10, <1>11 DEF StartsRequest


\* What a query leaves of the requests: the others, and what it read for its own.
Continues(h) ==
  \A g \in Handler :
    /\ g # h => request'[g] = request[g]
    /\ request'[g].pc \in Saves \cup {"insertUser", "insertKeyUser"}
         => request'[g] = request[g]
    /\ request'[g].pc \in Entering /\ ~InsertKeyUser(h)
         => request[g].pc \in Entering /\ request'[g].user = request[g].user
    /\ request'[g].pc = "insertKey" /\ ~InsertKeyUser(h) => request'[g] = request[g]
    /\ request'[g].pc = "insertToken" /\ ~DeleteTokens(h) => request'[g] = request[g]
    /\ request'[g].pc = "insertReset" /\ ~DeleteResets(h) => request'[g] = request[g]
    /\ request'[g].pc = "sendLink" /\ ~InsertUser(h) => request'[g] = request[g]

LEMMA LastQueryContinues ==
  ASSUME TablesInv, NEW h \in Handler, LastQuery(h)
  PROVE  Continues(h)
<1>1. request \in [Handler -> Request]
  BY DEF TablesInv, AccountsTypeOK
<1>2. request' = [request EXCEPT ![h] = NoRequest]
  BY DEF LastQuery, SendLink, LoseLink, SaveRole, InsertToken, MailReset, DeleteReset, Fail,
         Ends
<1>3. NoRequest.pc = "none"
  BY NoRequestType
<1>4. \A g \in Handler : request'[g] = IF g = h THEN NoRequest ELSE request[g]
  BY <1>1, <1>2
<1> QED BY <1>3, <1>4 DEF Continues, Saves, Entering

LEMMA UnaskedContinues ==
  ASSUME Unasked, NEW h \in Handler
  PROVE  UNCHANGED request /\ Continues(h)
<1>1. UNCHANGED request
  BY DEF Unasked, RefreshExpired, ExpireSession, Logout, DeleteUser, AgeReset
<1> QED BY <1>1 DEF Continues

LEMMA NextQueryContinues ==
  ASSUME TablesInv, NEW h \in Handler, NextQuery(h)
  PROVE  Continues(h)
<1>1. request \in [Handler -> Request] /\ request[h] \in Request
  BY TablesType DEF TablesInv, AccountsTypeOK
<1>2. \A g \in Handler : g # h => request'[g] = request[g]
  BY <1>1 DEF NextQuery, InsertUser, SaveVerified, DeleteLink, InsertKeyUser, InsertKey,
     DeleteTokens, DeleteResets, InsertReset, SetPassword, EndSessions, Goes, Ends
<1>3. SUFFICES /\ request'[h].pc \notin Saves \cup {"insertUser", "insertKeyUser"}
               /\ request'[h].pc \in Entering /\ ~InsertKeyUser(h)
                    => request[h].pc \in Entering /\ request'[h].user = request[h].user
               /\ request'[h].pc = "insertKey" => InsertKeyUser(h)
               /\ request'[h].pc = "insertToken" => DeleteTokens(h)
               /\ request'[h].pc = "insertReset" => DeleteResets(h)
               /\ request'[h].pc = "sendLink" => InsertUser(h)
  BY <1>2 DEF Continues
<1>4. CASE InsertUser(h)
  BY ZenonT(60), <1>1, <1>4, NoRequestType DEF InsertUser, Ends, NoRequest, Saves, Entering
<1>5. CASE SaveVerified(h)
  BY <1>1, <1>5 DEF SaveVerified, Waits, Request, Saves, Entering
<1>6. CASE DeleteLink(h)
  BY <1>1, <1>6, NoRequestType DEF DeleteLink, Goes, Ends, Waits, Request, Saves, Entering
<1>7. CASE InsertKeyUser(h)
  BY <1>1, <1>7 DEF InsertKeyUser, Waits, Request, Saves, Entering
<1>8. CASE InsertKey(h)
  BY <1>1, <1>8, NoRequestType DEF InsertKey, Ends, Waits, Request, Saves, Entering
<1>9. CASE DeleteTokens(h)
  BY <1>1, <1>9 DEF DeleteTokens, Goes, Waits, Request, Saves, Entering
<1>10. CASE DeleteResets(h)
  BY <1>1, <1>10 DEF DeleteResets, Goes, Waits, Request, Saves, Entering
<1>11. CASE InsertReset(h)
  BY <1>1, <1>11 DEF InsertReset, Waits, Request, Saves, Entering
<1>12. CASE SetPassword(h)
  BY <1>1, <1>12 DEF SetPassword, Waits, Request, Saves, Entering
<1>13. CASE EndSessions(h)
  BY <1>1, <1>13 DEF EndSessions, Goes, Waits, Request, Saves, Entering
<1> QED BY <1>4, <1>5, <1>6, <1>7, <1>8, <1>9, <1>10, <1>11, <1>12, <1>13 DEF NextQuery


-----------------------------------------------------------------------------
(* Who is entitled stays so.                                                *)

\* Requests that save u, and the row of u, hold addresses he had before.
LEMMA EntitledFrame ==
  ASSUME NEW u, Entitled(u), u \in mailed => u \in mailed',
         users'[u].email \in Addresses(u) \cup {NoEmail, RootEmail},
         \A g \in Handler : request'[g].pc \in Saves /\ request'[g].user = u
           => request'[g].entity.email \in Addresses(u)
  PROVE  Entitled(u)'
<1>1. CASE u \in mailed
  BY <1>1 DEF Entitled
<1>2. CASE Addresses(u) \subseteq {NoEmail, RootEmail}
  <2>1. \A a \in Addresses(u) : a \in {NoEmail, RootEmail}
    BY <1>2
  <2>2. users'[u].email \in {NoEmail, RootEmail}
    BY <2>1
  <2>3. \A g \in Handler : request'[g].pc \in Saves /\ request'[g].user = u
          => request'[g].entity.email \in {NoEmail, RootEmail}
    BY <2>1
  <2> QED BY <2>2, <2>3 DEF Entitled, Addresses, Saving
<1> QED BY <1>1, <1>2 DEF Entitled

LEMMA AddressesOf ==
  /\ \A u : users[u].email \in Addresses(u)
  /\ \A g \in Handler : request[g].pc \in Saves
       => request[g].entity.email \in Addresses(request[g].user)
  BY DEF Addresses, Saving

\* What no request does to the rows: it deletes one, or none.
LEMMA RowsUnasked ==
  ASSUME TablesInv, Unasked \/ Crash
  PROVE  /\ Id' = Id
         /\ \A u \in Id : users'[u] = users[u] \/ (users'[u] = Deleted /\ DeleteUser(u))
<1>1. users \in Seq(User) /\ Id = 1..Len(users)
  BY TablesType DEF TablesInv, AccountsTypeOK
<1>2. UNCHANGED users \/ \E v \in Id : DeleteUser(v)
  BY DEF Unasked, Crash, RefreshExpired, ExpireSession, Logout, AgeReset, tables
<1>3. ASSUME NEW v \in Id, DeleteUser(v)
      PROVE  /\ Len(users') = Len(users)
             /\ \A u \in Id : users'[u] = IF u = v THEN Deleted ELSE users[u]
  BY <1>1, <1>3, DeletedType, ExceptSeq DEF DeleteUser
<1> QED BY <1>2, <1>3 DEF Id

\* One query at most writes a row, and what it writes was read from one.
LEMMA RowsAfter ==
  ASSUME TablesInv, NEW h \in Handler, LastQuery(h) \/ NextQuery(h)
  PROVE  /\ \A u \in Id : u \in Id'
         /\ \A u \in Id : \/ users'[u].email = users[u].email
                         \/ /\ request[h].pc \in Saves /\ request[h].user = u
                            /\ users'[u].email = request[h].entity.email
         /\ \A u \in Id : users'[u].verified
              => \/ users[u].verified
                 \/ SaveVerified(h) /\ request[h].user = u
                 \/ SaveRole(h) /\ request[h].user = u /\ request[h].entity.verified
<1>1. AccountsTypeOK /\ ServesInv /\ Len(users) \in Nat /\ users \in Seq(User)
      /\ Id = 1..Len(users) /\ request[h] \in Request
      /\ \A u \in Id : users[u] \in User
  BY TablesType DEF TablesInv, AccountsTypeOK
<1>2. CASE UNCHANGED users
  BY <1>2 DEF Id
<1>3. CASE InsertUser(h) \/ InsertKeyUser(h)
  <2>1. PICK e : users' = Append(users, e)
    BY <1>3 DEF InsertUser, InsertKeyUser
  <2>2. \A u \in 1..Len(users) : users'[u] = users[u]
    BY <1>1, <2>1
  <2>3. Len(users') = Len(users) + 1
    BY <1>1, <2>1
  <2> QED BY <1>1, <2>2, <2>3 DEF Id
<1>4. CASE SaveVerified(h) \/ SaveRole(h)
  <2>1. /\ request[h].pc \in Saves /\ request[h].user \in Id
        /\ request[h].entity \in User /\ request[h].entity.live
    BY <1>1, <1>4 DEF SaveVerified, SaveRole, Waits, Saves, ServesInv, Fits, OfUser, Request
  <2>2. CASE SaveVerified(h)
    <3> DEFINE e == [request[h].entity EXCEPT !.verified = TRUE]
    <3>1. e \in User /\ e.live /\ e.email = request[h].entity.email
      BY <2>1 DEF User
    <3>2. SaveUser(request[h].user, e)
      BY <2>2 DEF SaveVerified
    <3> HIDE DEF e
    <3>3. /\ Len(users') = Len(users)
          /\ \A v \in Id : users'[v] = IF v = request[h].user THEN e ELSE users[v]
      BY <2>1, <3>1, <3>2, SaveUserRows
    <3> QED BY <2>1, <2>2, <3>1, <3>3 DEF Id
  <2>3. CASE SaveRole(h)
    <3>1. /\ Len(users') = Len(users)
          /\ \A v \in Id : users'[v] = IF v = request[h].user THEN request[h].entity
                                                               ELSE users[v]
      BY <2>1, <2>3, SaveUserRows DEF SaveRole
    <3> QED BY <2>1, <2>3, <3>1 DEF Id
  <2> QED BY <1>4, <2>2, <2>3
<1>5. CASE SetPassword(h)
  <2> DEFINE p == request[h].password
  <2>1. users' = [u \in Id |-> IF u \in WithEmail(request[h].email)
                                 THEN [users[u] EXCEPT !.password = p] ELSE users[u]]
    BY <1>5 DEF SetPassword
  <2> HIDE DEF p
  <2>2. \A u \in Id : /\ users'[u].verified = users[u].verified
                      /\ users'[u].email = users[u].email
    BY <1>1, <2>1 DEF User
  <2>3. Len(users') = Len(users)
    BY <1>1, <2>1
  <2> QED BY <2>2, <2>3 DEF Id
<1>6. \/ UNCHANGED users
      \/ InsertUser(h) \/ InsertKeyUser(h) \/ SaveVerified(h) \/ SaveRole(h) \/ SetPassword(h)
  BY DEF LastQuery, NextQuery, SendLink, LoseLink, InsertToken, MailReset, DeleteReset, Fail,
     DeleteLink, InsertKey, DeleteTokens, DeleteResets, InsertReset, EndSessions, tables
<1> QED BY <1>2, <1>3, <1>4, <1>5, <1>6

LEMMA EntitledStays ==
  ASSUME TablesInv, AccountsNext, NEW u \in Id, Entitled(u)
  PROVE  u \in Id' /\ Entitled(u)'
<1>1. u \in mailed => u \in mailed'
  <2>1. mailed' = mailed \/ \E h \in Handler : SendLink(h) \/ LoseLink(h)
    <3>1. ASSUME NEW h \in Handler, StartsRequest(h) PROVE mailed' = mailed
      BY <3>1, StartForms DEF tables
    <3>2. ASSUME NEW h \in Handler, LastQuery(h)
          PROVE  mailed' = mailed \/ SendLink(h) \/ LoseLink(h)
      BY <3>2 DEF LastQuery, SaveRole, InsertToken, MailReset, DeleteReset, Fail, tables
    <3>3. ASSUME NEW h \in Handler, NextQuery(h) PROVE mailed' = mailed
      BY <3>3 DEF NextQuery, InsertUser, SaveVerified, DeleteLink, InsertKeyUser, InsertKey,
        DeleteTokens, DeleteResets, InsertReset, SetPassword, EndSessions
    <3>4. Unasked \/ Crash => mailed' = mailed
      BY DEF Unasked, Crash, RefreshExpired, ExpireSession, Logout, DeleteUser, AgeReset, tables
    <3> QED BY <3>1, <3>2, <3>3, <3>4, NextForms
  <2> QED BY <2>1 DEF SendLink, LoseLink
<1>2. ASSUME NEW h \in Handler, StartsRequest(h) PROVE u \in Id' /\ Entitled(u)'
  <2>1. PICK r \in Request : request' = [request EXCEPT ![h] = r] /\ StartOf(r)
    BY <1>2, StartForms
  <2>2. users' = users
    BY <1>2, StartForms DEF tables
  <2>3. \A g \in Handler : request'[g] = IF g = h THEN r ELSE request[g]
    BY <2>1 DEF TablesInv, AccountsTypeOK
  <2>4. r.pc \in Saves => r.entity.email = users[r.user].email
    BY <2>1 DEF StartOf, Saves
  <2>5. \A g \in Handler : request'[g].pc \in Saves /\ request'[g].user = u
           => request'[g].entity.email \in Addresses(u)
    BY <2>3, <2>4, AddressesOf
  <2>6. users'[u].email \in Addresses(u)
    BY <2>2, AddressesOf
  <2> QED BY <1>1, <2>2, <2>5, <2>6, EntitledFrame DEF Id
<1>3. ASSUME NEW h \in Handler, LastQuery(h) \/ NextQuery(h) PROVE u \in Id' /\ Entitled(u)'
  <2>1. Continues(h)
    BY <1>3, LastQueryContinues, NextQueryContinues
  <2>2. \A g \in Handler : request'[g].pc \in Saves /\ request'[g].user = u
           => request'[g].entity.email \in Addresses(u)
    BY <2>1, AddressesOf DEF Continues
  <2>3. u \in Id' /\ users'[u].email \in Addresses(u)
    BY <1>3, RowsAfter, AddressesOf
  <2> QED BY <1>1, <2>2, <2>3, EntitledFrame
<1>4. CASE Unasked \/ Crash
  <2>1. \A g \in Handler : request'[g].pc \in Saves => request'[g] = request[g]
    BY <1>4, NoRequestType, UnaskedContinues DEF Crash, Saves
  <2>2. \A g \in Handler : request'[g].pc \in Saves /\ request'[g].user = u
           => request'[g].entity.email \in Addresses(u)
    BY <2>1, AddressesOf
  <2>3. u \in Id' /\ users'[u].email \in Addresses(u) \cup {NoEmail}
    BY <1>4, RowsUnasked, DeletedType, AddressesOf
  <2> QED BY <1>1, <2>2, <2>3, EntitledFrame
<1> QED BY <1>2, <1>3, <1>4, NextForms

-----------------------------------------------------------------------------
(* Which queries add rows.                                                  *)

LEMMA IdsGrow ==
  ASSUME TablesInv, AccountsNext, NEW u \in Id'
  PROVE  u \in Id \/ \E h \in Handler : InsertUser(h) \/ InsertKeyUser(h)
<1>1. AccountsTypeOK /\ ServesInv /\ users \in Seq(User) /\ Id = 1..Len(users)
      /\ \A h \in Handler : request[h] \in Request
  BY TablesType DEF TablesInv, AccountsTypeOK
<1>2. ASSUME NEW h \in Handler, SaveVerified(h) \/ SaveRole(h) PROVE Id' = Id
  <2>1. users' = [users EXCEPT ![request[h].user] = users'[request[h].user]]
        /\ request[h].user \in Id
    BY <1>1, <1>2, ExceptSeq DEF SaveVerified, SaveRole, SaveUser, Waits, ServesInv, Fits,
       OfUser
  <2>2. Len(users') = Len(users)
    BY <1>1, <1>2, <2>1 DEF SaveVerified, SaveRole, SaveUser
  <2> QED BY <2>2 DEF Id
<1>3. ASSUME NEW h \in Handler, StartsRequest(h) PROVE Id' = Id
  BY <1>3, StartForms DEF tables, Id
<1>4. ASSUME NEW h \in Handler, LastQuery(h)
      PROVE  Id' = Id
  <2>1. CASE SaveRole(h)
    BY <1>2, <2>1
  <2>2. CASE ~SaveRole(h)
    BY <1>4, <2>2 DEF LastQuery, SendLink, LoseLink, InsertToken, MailReset, DeleteReset, Fail,
       tables, Id
  <2> QED BY <2>1, <2>2
<1>5. ASSUME NEW h \in Handler, SetPassword(h) PROVE Id' = Id
  <2>1. Len(users') = Len(users)
    BY <1>1, <1>5 DEF SetPassword
  <2> QED BY <2>1 DEF Id
<1>6. ASSUME NEW h \in Handler, NextQuery(h)
      PROVE  Id' = Id \/ InsertUser(h) \/ InsertKeyUser(h)
  <2>1. \/ UNCHANGED users \/ InsertUser(h) \/ InsertKeyUser(h)
        \/ SaveVerified(h) \/ SetPassword(h)
    BY <1>6 DEF NextQuery, DeleteLink, InsertKey, DeleteTokens, DeleteResets, InsertReset,
       EndSessions
  <2> QED BY <1>2, <1>5, <2>1 DEF Id
<1>7. Unasked \/ Crash => Id' = Id
  <2>1. Unasked \/ Crash
          => UNCHANGED users \/ \E v \in Id : users' = [users EXCEPT ![v] = Deleted]
    BY DEF Unasked, Crash, RefreshExpired, ExpireSession, Logout, DeleteUser, AgeReset, tables
  <2> QED BY <1>1, <2>1 DEF Id
<1> QED BY <1>3, <1>4, <1>6, <1>7, NextForms

LEMMA SessionsGrow ==
  ASSUME TablesInv, AccountsNext, NEW u \in 1..MaxUsers, sessions'[u] # <<>>
  PROVE  sessions[u] # <<>> \/ \E h \in Handler : InsertToken(h) /\ request[h].user = u
<1>1. sessions \in [1..MaxUsers -> Seq(RefreshToken)]
  BY DEF TablesInv, AccountsTypeOK
<1>2. ASSUME NEW h \in Handler, StartsRequest(h) PROVE sessions[u] # <<>>
  BY <1>2, StartForms DEF tables
<1>3. ASSUME NEW h \in Handler, LastQuery(h)
      PROVE  sessions[u] # <<>> \/ (InsertToken(h) /\ request[h].user = u)
  BY <1>1, <1>3 DEF LastQuery, SendLink, LoseLink, SaveRole, InsertToken, MailReset,
     DeleteReset, Fail, tables
<1>4. ASSUME NEW h \in Handler, NextQuery(h) PROVE sessions[u] # <<>>
  <2>1. CASE DeleteTokens(h)
    BY <1>1, <2>1 DEF DeleteTokens, Cleared
  <2>2. CASE EndSessions(h)
    BY <1>1, <2>2 DEF EndSessions, Cleared
  <2>3. CASE UNCHANGED sessions
    BY <2>3
  <2> QED BY <1>4, <2>1, <2>2, <2>3 DEF NextQuery, InsertUser, SaveVerified, DeleteLink,
        InsertKeyUser, InsertKey, DeleteResets, InsertReset, SetPassword
<1>5. ASSUME Unasked PROVE sessions[u] # <<>>
  <2>1. ASSUME NEW v \in Id, RefreshExpired(v) \/ Logout(v) PROVE sessions[u] # <<>>
    BY <1>1, <2>1 DEF RefreshExpired, Logout, Cleared
  <2>2. ASSUME NEW v \in Id, ExpireSession(v) PROVE sessions[u] # <<>>
    <3>1. PICK i \in 1..Len(sessions[v]) : sessions' = [sessions EXCEPT ![v][i] = "expired"]
      BY <2>2 DEF ExpireSession
    <3>2. CASE u = v
      <4>1. Len(sessions[u]) # 0
        BY <3>1, <3>2
      <4> QED BY <4>1
    <3>3. CASE u # v
      BY <1>1, <3>1, <3>3
    <3> QED BY <3>2, <3>3
  <2>3. CASE UNCHANGED sessions
    BY <2>3
  <2> QED BY <1>5, <2>1, <2>2, <2>3 DEF Unasked, DeleteUser, AgeReset
<1>6. Crash => sessions[u] # <<>>
  BY DEF Crash, tables
<1> QED BY <1>2, <1>3, <1>4, <1>5, <1>6, NextForms

LEMMA ProvidersGrow ==
  ASSUME TablesInv, AccountsNext, NEW p \in providers'
  PROVE  \/ p \in providers
         \/ \E h \in Handler : InsertKey(h) /\ p = <<request[h].key, request[h].user>>
<1>1. ASSUME NEW h \in Handler, StartsRequest(h) PROVE p \in providers
  BY <1>1, StartForms DEF tables
<1>2. ASSUME NEW h \in Handler, LastQuery(h) PROVE p \in providers
  BY <1>2 DEF LastQuery, SendLink, LoseLink, SaveRole, InsertToken, MailReset, DeleteReset,
     Fail, tables
<1>3. ASSUME NEW h \in Handler, NextQuery(h)
      PROVE  p \in providers \/ (InsertKey(h) /\ p = <<request[h].key, request[h].user>>)
  BY <1>3 DEF NextQuery, InsertUser, SaveVerified, DeleteLink, InsertKeyUser, InsertKey,
     DeleteTokens, DeleteResets, InsertReset, SetPassword, EndSessions
<1>4. Unasked \/ Crash => p \in providers
  BY DEF Unasked, Crash, RefreshExpired, ExpireSession, Logout, DeleteUser, AgeReset, tables
<1> QED BY <1>1, <1>2, <1>3, <1>4, NextForms


\* A user no request can have read needs no link if his row says so.
LEMMA NewUserEntitled ==
  ASSUME TablesInv, NEW h \in Handler, NextQuery(h), NEW u, u \notin Id,
         users'[u].email \in {NoEmail, RootEmail}
  PROVE  Entitled(u)'
<1>1. \A g \in Handler : request'[g].pc \in Saves => request'[g] = request[g]
  BY NextQueryContinues DEF Continues
<1>2. \A g \in Handler : request[g].pc \in Saves => request[g].user \in Id
  BY DEF TablesInv, ServesInv, Fits, Saves, OfUser
<1>3. Saving(u)' = {}
  BY <1>1, <1>2 DEF Saving
<1> QED BY <1>3 DEF Entitled, Addresses

\* The user whom a query adds.
LEMMA UserAdded ==
  ASSUME TablesInv, NEW h \in Handler, InsertUser(h) \/ InsertKeyUser(h)
  PROVE  /\ Len(users) + 1 \notin Id /\ Len(users) + 1 \in Id'
         /\ Len(users) + 1 \in 1..MaxUsers
         /\ \A u \in Id' : u \in Id \/ u = Len(users) + 1
         /\ \A u \in Id : u \in Id' /\ users'[u] = users[u]
         /\ users'[Len(users) + 1] = IF InsertUser(h) THEN request[h].entity ELSE KeyUser
<1>1. AccountsTypeOK /\ Len(users) \in Nat /\ users \in Seq(User) /\ Id = 1..Len(users)
  BY TablesType DEF TablesInv, AccountsTypeOK
<1>2. Len(users) < MaxUsers
  BY DEF InsertUser, InsertKeyUser
<1>3. PICK e : users' = Append(users, e) /\ e = IF InsertUser(h) THEN request[h].entity
                                                                 ELSE KeyUser
  <2>1. ~(InsertUser(h) /\ InsertKeyUser(h))
    BY DEF InsertUser, InsertKeyUser, Waits
  <2>2. CASE InsertUser(h)
    BY <2>2 DEF InsertUser
  <2>3. CASE InsertKeyUser(h)
    BY <2>1, <2>3 DEF InsertKeyUser
  <2> QED BY <2>2, <2>3
<1>4. /\ Len(users') = Len(users) + 1 /\ users'[Len(users) + 1] = e
      /\ \A u \in 1..Len(users) : users'[u] = users[u]
  BY <1>1, <1>3
<1>5. Len(users) + 1 \in 1..MaxUsers
  BY <1>1, <1>2, AccountsAssumption
<1> QED BY <1>1, <1>3, <1>4, <1>5 DEF Id

\* The four parts, one after the other, in the state after a step.
LEMMA RowsEntitledStep ==
  ASSUME TablesInv, EntitledInv, AccountsNext
  PROVE  RowsEntitled'
<1> SUFFICES ASSUME NEW u \in Id', users'[u].verified PROVE Entitled(u)'
  BY DEF RowsEntitled
<1>1. ASSUME u \in Id, Entitled(u) PROVE Entitled(u)'
  BY <1>1, EntitledStays
<1>2. \A v \in Id : users[v].verified => Entitled(v)
  BY DEF EntitledInv, RowsEntitled
<1>3. ASSUME NEW h \in Handler, StartsRequest(h) PROVE Entitled(u)'
  <2>1. u \in Id /\ users[u].verified
    BY <1>3, StartForms DEF tables, Id
  <2> QED BY <1>1, <1>2, <2>1
<1>4. ASSUME NEW h \in Handler, LastQuery(h) \/ NextQuery(h), u \in Id
      PROVE  Entitled(u)'
  <2>1. \/ users[u].verified
        \/ SaveVerified(h) /\ request[h].user = u
        \/ SaveRole(h) /\ request[h].user = u /\ request[h].entity.verified
    BY <1>4, RowsAfter
  <2>2. Entitled(u)
    BY <1>2, <1>4, <2>1 DEF EntitledInv, RequestsEntitled, SaveVerified, SaveRole, Waits, Saves,
       Entering
  <2> QED BY <1>1, <1>4, <2>2
<1>5. ASSUME NEW h \in Handler, InsertUser(h) \/ InsertKeyUser(h), u \notin Id
      PROVE  Entitled(u)'
  <2>1. u = Len(users) + 1
        /\ users'[u] = IF InsertUser(h) THEN request[h].entity ELSE KeyUser
    BY <1>5, UserAdded
  <2>2. users'[u].email \in {NoEmail, RootEmail}
    BY <1>5, <2>1, KeyUserType DEF EntitledInv, RequestsEntitled, InsertUser, Waits
  <2>3. NextQuery(h)
    BY <1>5 DEF NextQuery
  <2> QED BY <1>5, <2>2, <2>3, NewUserEntitled
<1>6. u \in Id \/ \E h \in Handler : InsertUser(h) \/ InsertKeyUser(h)
  BY IdsGrow
<1>7. CASE Unasked \/ Crash
  <2>1. u \in Id /\ (users'[u] = users[u] \/ users'[u] = Deleted)
    BY <1>7, RowsUnasked
  <2>2. ~Deleted.verified
    BY DEF Deleted
  <2> QED BY <1>1, <1>2, <2>1, <2>2
<1> QED BY <1>3, <1>4, <1>5, <1>6, <1>7, NextForms

LEMMA SessionsEntitledStep ==
  ASSUME TablesInv, EntitledInv, AccountsNext
  PROVE  SessionsEntitled'
<1> SUFFICES ASSUME NEW u \in 1..MaxUsers, sessions'[u] # <<>>
             PROVE  u \in Id' /\ Entitled(u)'
  BY DEF SessionsEntitled
<1>1. sessions[u] # <<>> => u \in Id /\ Entitled(u)
  BY DEF EntitledInv, SessionsEntitled
<1>2. sessions[u] # <<>> \/ \E h \in Handler : InsertToken(h) /\ request[h].user = u
  BY SessionsGrow
<1>3. ASSUME NEW h \in Handler, InsertToken(h), request[h].user = u
      PROVE  u \in Id /\ Entitled(u)
  BY <1>3 DEF InsertToken, Waits, EntitledInv, RequestsEntitled, Entering, TablesInv, ServesInv,
     Fits, OfUser
<1> QED BY <1>1, <1>2, <1>3, EntitledStays

LEMMA ProvidersEntitledStep ==
  ASSUME TablesInv, EntitledInv, AccountsNext
  PROVE  ProvidersEntitled'
<1> SUFFICES ASSUME NEW p \in providers' PROVE Entitled(p[2])'
  BY DEF ProvidersEntitled
<1>1. p \in providers
        \/ \E h \in Handler : InsertKey(h) /\ p = <<request[h].key, request[h].user>>
  BY ProvidersGrow
<1>2. CASE p \in providers
  <2>1. p[2] \in Id /\ Entitled(p[2])
    BY <1>2 DEF EntitledInv, ProvidersEntitled, TablesInv, AccountsTypeOK, AuthProvider
  <2> QED BY <2>1, EntitledStays
<1>3. ASSUME NEW h \in Handler, InsertKey(h), p = <<request[h].key, request[h].user>>
      PROVE  Entitled(p[2])'
  <2>1. p[2] = request[h].user
    BY <1>3
  <2>2. p[2] \in Id /\ Entitled(p[2])
    BY <1>3, <2>1 DEF InsertKey, Waits, EntitledInv, RequestsEntitled, Entering, TablesInv,
       ServesInv, Fits, OfUser
  <2> QED BY <2>2, EntitledStays
<1> QED BY <1>1, <1>2, <1>3

LEMMA RequestsEntitledStep ==
  ASSUME TablesInv, EntitledInv, AccountsNext
  PROVE  RequestsEntitled'
<1>0. /\ \A g \in Handler :
           request[g].pc \in OfUser => request[g].user \in Id
      /\ \A v \in Id : users[v].verified => Entitled(v)
      /\ request \in [Handler -> Request]
  BY DEF TablesInv, ServesInv, Fits, EntitledInv, RowsEntitled, AccountsTypeOK
<1>1. ASSUME NEW h \in Handler, StartsRequest(h) PROVE RequestsEntitled'
  <2>1. PICK r \in Request : request' = [request EXCEPT ![h] = r] /\ StartOf(r)
    BY <1>1, StartForms
  <2>2. \A g \in Handler : request'[g] = IF g = h THEN r ELSE request[g]
    BY <1>0, <2>1
  <2>3. ASSUME NEW g \in Handler, g # h, request[g].pc \in OfUser, Entitled(request[g].user)
        PROVE  Entitled(request[g].user)'
    <3>1. PICK u \in Id : u = request[g].user
      BY <1>0, <2>3
    <3>2. Entitled(u)'
      BY <2>3, <3>1, EntitledStays
    <3> QED BY <2>2, <2>3, <3>1, <3>2
  <2>4. r.pc \in Entering => Entitled(r.user)'
    <3>1. CASE r.pc = "saveVerified"
      <4>1. r.user \in mailed'
        BY <1>1, <2>1, <3>1, StartForms DEF StartOf, tables
      <4> QED BY <4>1 DEF Entitled
    <3>2. CASE r.pc = "deleteTokens"
      <4>1. /\ r.user \in Id
            /\ \/ users[r.user].verified
               \/ sessions[r.user] # <<>>
               \/ \E p \in providers : p[2] = r.user
        BY <2>1, <3>2 DEF StartOf
      <4>2. \A v \in Id : v \in 1..MaxUsers
        BY TablesType, AccountsAssumption DEF TablesInv, RowsInv, Id
      <4>3. PICK v \in Id : v = r.user
        BY <4>1
      <4>4. Entitled(v)
        <5>1. CASE users[v].verified
          BY <1>0, <5>1
        <5>2. CASE sessions[v] # <<>>
          BY <4>2, <5>2 DEF EntitledInv, SessionsEntitled
        <5>3. CASE \E p \in providers : p[2] = v
          BY <5>3 DEF EntitledInv, ProvidersEntitled
        <5> QED BY <4>1, <4>3, <5>1, <5>2, <5>3
      <4>5. Entitled(v)'
        BY <4>4, EntitledStays
      <4> QED BY <4>3, <4>5
    <3> QED BY <2>1, <3>1, <3>2 DEF StartOf, Entering
  <2>5. r.pc \in Saves /\ r.entity.verified => Entitled(r.user)'
    <3>1. CASE r.pc = "saveRole" /\ r.entity.verified
      <4>1. r.user \in Id /\ users[r.user].verified
        BY <2>1, <3>1 DEF StartOf, Live
      <4> QED BY <1>0, <4>1, EntitledStays
    <3> QED BY <2>4, <3>1 DEF Saves, Entering
  <2>6. r.pc = "insertUser" /\ r.entity.verified => r.entity.email = RootEmail
    BY <2>1 DEF StartOf
  <2>7. \A v : v = r.user => (Entitled(r.user)' <=> Entitled(v)')
    OBVIOUS
  <2> SUFFICES ASSUME NEW g \in Handler
               PROVE  /\ request'[g].pc \in Entering => Entitled(request[g].user)'
                      /\ request'[g].pc \in Saves /\ request'[g].entity.verified
                           => Entitled(request[g].user)'
                      /\ request'[g].pc = "insertUser" /\ request'[g].entity.verified
                           => request'[g].entity.email = RootEmail
    BY DEF RequestsEntitled
  <2>8. CASE g = h
    BY <2>2, <2>4, <2>5, <2>6, <2>8
  <2>9. CASE g # h
    <3>1. request'[g] = request[g]
      BY <2>2, <2>9
    <3>2. /\ request[g].pc \in Entering => Entitled(request[g].user)
          /\ request[g].pc \in Saves /\ request[g].entity.verified
               => Entitled(request[g].user)
          /\ request[g].pc = "insertUser" /\ request[g].entity.verified
               => request[g].entity.email = RootEmail
      BY DEF EntitledInv, RequestsEntitled
    <3>3. request[g].pc \in Entering \/ request[g].pc \in Saves => request[g].pc \in OfUser
      BY DEF Entering, Saves, OfUser
    <3> QED BY <2>3, <2>9, <3>1, <3>2, <3>3
  <2> QED BY <2>8, <2>9
<1>2. ASSUME NEW h \in Handler, LastQuery(h) \/ NextQuery(h) \/ Unasked
      PROVE  RequestsEntitled'
  <2>1. Continues(h)
    BY <1>2, LastQueryContinues, NextQueryContinues, UnaskedContinues
  <2> SUFFICES ASSUME NEW g \in Handler
               PROVE  /\ request'[g].pc \in Entering => Entitled(request[g].user)'
                      /\ request'[g].pc \in Saves /\ request'[g].entity.verified
                           => Entitled(request[g].user)'
                      /\ request'[g].pc = "insertUser" /\ request'[g].entity.verified
                           => request'[g].entity.email = RootEmail
    BY DEF RequestsEntitled
  <2>2. PICK v : v = request'[g].user
    OBVIOUS
  <2>3. request'[g].pc \in Saves \cup {"insertUser"} => request'[g] = request[g]
    BY <2>1 DEF Continues
  <2>4. ASSUME request'[g].pc \in Entering, ~InsertKeyUser(h) PROVE Entitled(v)'
    <3>1. request[g].pc \in Entering /\ request[g].user = v
      BY <2>1, <2>2, <2>4 DEF Continues
    <3>2. v \in Id /\ Entitled(v)
      BY <1>0, <3>1 DEF EntitledInv, RequestsEntitled, Entering, OfUser
    <3> QED BY <3>2, EntitledStays
  <2>5. ASSUME request'[g].pc \in Entering, InsertKeyUser(h) PROVE Entitled(v)'
    <3>1. CASE g = h
      <4>1. request'[h].user = Len(users) + 1
        BY <1>0, <2>5 DEF InsertKeyUser, Request
      <4>2. v = Len(users) + 1
        BY <2>2, <3>1, <4>1
      <4>3. v \notin Id /\ users'[v] = KeyUser
        <5>1. ~InsertUser(h)
          BY <2>5 DEF InsertKeyUser, InsertUser, Waits
        <5> QED BY <2>5, <4>2, <5>1, UserAdded
      <4>4. NextQuery(h)
        BY <2>5 DEF NextQuery
      <4> QED BY <4>3, <4>4, KeyUserType, NewUserEntitled
    <3>2. CASE g # h
      <4>1. request[g].pc \in Entering /\ request[g].user = v
        BY <2>1, <2>2, <2>5, <3>2 DEF Continues
      <4>2. v \in Id /\ Entitled(v)
        BY <1>0, <4>1 DEF EntitledInv, RequestsEntitled, Entering, OfUser
      <4> QED BY <4>2, EntitledStays
    <3> QED BY <3>1, <3>2
  <2>6. ASSUME request'[g].pc \in Saves, request'[g].entity.verified PROVE Entitled(v)'
    <3>1. v \in Id /\ Entitled(v)
      BY <1>0, <2>2, <2>3, <2>6 DEF EntitledInv, RequestsEntitled, Saves, OfUser
    <3> QED BY <3>1, EntitledStays
  <2>7. request'[g].pc = "insertUser" /\ request'[g].entity.verified
          => request'[g].entity.email = RootEmail
    BY <2>3 DEF EntitledInv, RequestsEntitled
  <2>8. Entitled(request[g].user)' <=> Entitled(v)'
    BY <2>2
  <2> QED BY <2>4, <2>5, <2>6, <2>7, <2>8
<1>3. CASE Crash
  <2>1. \A g \in Handler : request'[g].pc = "none"
    BY <1>3, NoRequestType DEF Crash
  <2> QED BY <2>1 DEF RequestsEntitled, Entering, Saves
<1>4. CASE Handler = {}
  BY <1>4 DEF RequestsEntitled
<1> QED BY <1>1, <1>2, <1>3, <1>4, NextForms


LEMMA EntitledInit == AccountsInit => EntitledInv
<1> SUFFICES ASSUME AccountsInit PROVE EntitledInv
  OBVIOUS
<1>1. Len(users) = 0 /\ Id = {}
  BY DEF AccountsInit, Id
<1>2. \A h \in Handler : request[h].pc = "none"
  BY NoRequestType DEF AccountsInit
<1>3. RowsEntitled
  BY <1>1 DEF RowsEntitled
<1>4. SessionsEntitled
  BY DEF AccountsInit, SessionsEntitled
<1>5. ProvidersEntitled
  BY DEF AccountsInit, ProvidersEntitled
<1>6. RequestsEntitled
  BY <1>2 DEF RequestsEntitled, Entering, Saves
<1> QED BY <1>3, <1>4, <1>5, <1>6 DEF EntitledInv

LEMMA EntitledStep == TablesInv /\ EntitledInv /\ [AccountsNext]_vars => EntitledInv'
<1> SUFFICES ASSUME TablesInv, EntitledInv, [AccountsNext]_vars PROVE EntitledInv'
  OBVIOUS
<1>1. CASE AccountsNext
  BY <1>1, RowsEntitledStep, SessionsEntitledStep, ProvidersEntitledStep, RequestsEntitledStep
     DEF EntitledInv
<1>2. CASE UNCHANGED vars
  <2>1. UNCHANGED <<users, mailed, sessions, providers, request>>
    BY <1>2 DEF vars, tables
  <2>2. \A u : Entitled(u) => Entitled(u)'
    BY <2>1 DEF Entitled, Addresses, Saving
  <2>3. RowsEntitled' /\ SessionsEntitled' /\ ProvidersEntitled'
    BY <2>1, <2>2 DEF EntitledInv, RowsEntitled, SessionsEntitled, ProvidersEntitled, Id
  <2>4. ASSUME NEW h \in Handler, Entitled(request[h].user) PROVE Entitled(request[h].user)'
    <3>1. PICK u : u = request[h].user
      OBVIOUS
    <3> QED BY <2>1, <2>2, <2>4, <3>1
  <2>5. RequestsEntitled'
    BY <2>1, <2>4 DEF EntitledInv, RequestsEntitled
  <2> QED BY <2>3, <2>5 DEF EntitledInv
<1> QED BY <1>1, <1>2

LEMMA EntitledInvAlways == AccountsSpec => []EntitledInv
  BY TablesInvAlways, EntitledInit, EntitledStep, PTL DEF AccountsSpec

\* However the saves of users read earlier race with each other, with role
\* changes and with deletions, a stored user who is verified or has a session
\* was mailed a link, came from VK or is the root administrator (login, lines
\* 117-121; verifyUser, lines 289-306).
THEOREM AccountsConfirmed == AccountsSpec => []ConfirmedInv
<1>1. TablesInv /\ EntitledInv => ConfirmedInv
  <2> SUFFICES ASSUME TablesInv, EntitledInv, NEW u \in Live,
                      users[u].verified \/ sessions[u] # <<>>
               PROVE  u \in mailed \/ users[u].email \in {NoEmail, RootEmail}
    BY DEF ConfirmedInv
  <2>1. u \in Id /\ u \in 1..MaxUsers
    BY TablesType, AccountsAssumption DEF Live, TablesInv, RowsInv, Id
  <2>2. Entitled(u)
    BY <2>1 DEF EntitledInv, RowsEntitled, SessionsEntitled
  <2> QED BY <2>2, AddressesOf DEF Entitled
<1> QED BY <1>1, TablesInvAlways, EntitledInvAlways, PTL

-----------------------------------------------------------------------------
(* Only a failure, or a stale role, strands an account.                     *)

\* A user whose row and link are as they were is stranded by nobody who still
\* is about to send the link.
LEMMA StrandedKept ==
  ASSUME NEW u \in Stranded', u \in Id,
         users'[u].email = users[u].email, users'[u].verified <=> users[u].verified,
         users[u].live, u \in links => u \in links',
         \A h \in Handler : request[h].pc = "sendLink" /\ request[h].user = u
           => request'[h].pc = "sendLink" /\ request'[h].user = u
  PROVE  u \in Stranded
  BY DEF Stranded, Live, Waits

LEMMA StrandedStep ==
  ASSUME TablesInv, AccountsNext, failures' = failures, NEW u \in Stranded', u \notin Stranded
  PROVE  \E h \in Handler : /\ Waits(h, "saveRole") \/ Waits(h, "deleteLink")
                            /\ request[h].user = u
<1>1. AccountsTypeOK /\ ServesInv /\ users \in Seq(User) /\ Id = 1..Len(users)
      /\ failures \in Nat /\ \A h \in Handler : request[h] \in Request
      /\ request \in [Handler -> Request] /\ \A v \in Id : users[v] \in User
  BY TablesType, AccountsAssumption DEF TablesInv, AccountsTypeOK
<1>2. /\ u \in Id' /\ users'[u].live
      /\ users'[u].email # NoEmail /\ ~users'[u].verified /\ u \notin links'
      /\ \A h \in Handler : ~(request'[h].pc = "sendLink" /\ request'[h].user = u)
  BY DEF Stranded, Live, Waits
<1>3. CASE \E h \in Handler : StartsRequest(h)
  <2>1. PICK h \in Handler : StartsRequest(h)
    BY <1>3
  <2>2. UNCHANGED <<users, links>> /\ request[h].pc = "none"
        /\ \A g \in Handler : g # h => request'[g] = request[g]
    BY <1>1, <2>1, StartForms DEF tables
  <2>3. u \in Id /\ users[u].live
    BY <1>2, <2>2 DEF Id
  <2> QED BY <2>2, <2>3, StrandedKept
<1>4. CASE \E h \in Handler : InsertUser(h) \/ InsertKeyUser(h)
  <2>1. PICK h \in Handler : InsertUser(h) \/ InsertKeyUser(h)
    BY <1>4
  <2>2. links' = links /\ \A g \in Handler : g # h => request'[g] = request[g]
    BY <1>1, <2>1 DEF InsertUser, InsertKeyUser, Ends
  <2>3. request[h].pc # "sendLink"
    BY <2>1 DEF InsertUser, InsertKeyUser, Waits
  <2>4. CASE u \in Id
    BY <1>2, <2>1, <2>2, <2>3, <2>4, UserAdded, StrandedKept
  <2>5. CASE u \notin Id
    <3>1. u = Len(users) + 1
          /\ users'[u] = IF InsertUser(h) THEN request[h].entity ELSE KeyUser
      BY <1>2, <2>1, <2>5, UserAdded
    <3>2. InsertUser(h) /\ ~request[h].entity.verified
      BY <1>2, <3>1, KeyUserType
    <3>3. request' = [request EXCEPT ![h] = [NoRequest EXCEPT !.pc = "sendLink", !.user = u]]
      BY <3>1, <3>2 DEF InsertUser
    <3>4. request'[h].pc = "sendLink" /\ request'[h].user = u
      BY <1>1, <3>3 DEF NoRequest
    <3> QED BY <1>2, <3>4
  <2> QED BY <2>4, <2>5
<1>5. CASE \E h \in Handler : SaveVerified(h) \/ SaveRole(h)
  <2>1. PICK h \in Handler : SaveVerified(h) \/ SaveRole(h)
    BY <1>5
  <2>2. /\ request[h].user \in Id /\ request[h].entity \in User /\ request[h].entity.live
        /\ links' = links /\ request[h].pc # "sendLink"
    BY <1>1, <2>1 DEF SaveVerified, SaveRole, Waits, ServesInv, Fits, OfUser, Request
  <2>3. \A g \in Handler : g # h => request'[g] = request[g]
    BY <1>1, <2>1 DEF SaveVerified, SaveRole, Ends
  <2>4. CASE u = request[h].user
    <3>1. CASE SaveVerified(h)
      <4>1. users'[u].verified
        BY <1>1, <2>2, <2>4, <3>1 DEF SaveVerified, SaveUser, User
      <4> QED BY <1>2, <4>1
    <3>2. CASE SaveRole(h)
      BY <2>4, <3>2 DEF SaveRole
    <3> QED BY <2>1, <3>1, <3>2
  <2>5. CASE u # request[h].user
    <3>1. users'[u] = users[u] /\ u \in Id
      BY <1>1, <1>2, <2>1, <2>2, <2>5, IdsGrow, ExceptSeq
         DEF SaveVerified, SaveRole, SaveUser, Id
    <3> QED BY <1>2, <2>2, <2>3, <3>1, StrandedKept
  <2> QED BY <2>4, <2>5
<1>6. CASE \E h \in Handler : SetPassword(h)
  <2>1. PICK h \in Handler : SetPassword(h)
    BY <1>6
  <2>2. /\ links' = links /\ request[h].pc # "sendLink"
        /\ \A g \in Handler : g # h => request'[g] = request[g]
    BY <1>1, <2>1 DEF SetPassword, Waits
  <2>3. Len(users') = Len(users) /\ u \in Id
    BY <1>1, <1>2, <2>1 DEF SetPassword, Id
  <2>4. /\ users'[u].email = users[u].email /\ users'[u].verified = users[u].verified
        /\ users'[u].live = users[u].live
    <3> DEFINE p == request[h].password
    <3>1. users'[u] = IF u \in WithEmail(request[h].email)
                        THEN [users[u] EXCEPT !.password = p] ELSE users[u]
      BY <2>1, <2>3 DEF SetPassword
    <3> HIDE DEF p
    <3> QED BY <1>1, <2>3, <3>1 DEF User
  <2> QED BY <1>2, <2>2, <2>3, <2>4, StrandedKept
<1>7. CASE \E h \in Handler : DeleteLink(h)
  <2>1. PICK h \in Handler : DeleteLink(h)
    BY <1>7
  <2>2. /\ users' = users /\ links' = links \ {request[h].user}
        /\ request[h].pc = "deleteLink"
        /\ \A g \in Handler : g # h => request'[g] = request[g]
    BY <1>1, <2>1 DEF DeleteLink, Waits, Goes, Ends
  <2>3. CASE u = request[h].user
    BY <2>2, <2>3 DEF Waits
  <2>4. CASE u # request[h].user
    <3>1. u \in Id /\ users[u].live /\ (u \in links => u \in links')
      BY <1>2, <2>2, <2>4 DEF Id
    <3> QED BY <2>2, <3>1, StrandedKept
  <2> QED BY <2>3, <2>4
<1>8. CASE \E h \in Handler : SendLink(h)
  <2>1. PICK h \in Handler : SendLink(h)
    BY <1>8
  <2>2. /\ users' = users
        /\ \A g \in Handler : g # h => request'[g] = request[g]
    BY <1>1, <2>1 DEF SendLink, Ends
  <2>3. u \in Id /\ u \in Live
    BY <1>2, <2>2 DEF Id, Live
  <2>4. u \in links => u \in links'
    BY <2>1 DEF SendLink
  <2>5. request[h].user # u
    BY <1>2, <2>1, <2>3 DEF SendLink, Stored
  <2> QED BY <2>2, <2>3, <2>4, <2>5, StrandedKept DEF Live
<1>9. CASE \E h \in Handler : InsertToken(h) \/ MailReset(h) \/ DeleteReset(h)
                              \/ InsertKey(h) \/ DeleteTokens(h) \/ DeleteResets(h)
                              \/ InsertReset(h) \/ EndSessions(h)
  <2>1. PICK h \in Handler : InsertToken(h) \/ MailReset(h) \/ DeleteReset(h)
                             \/ InsertKey(h) \/ DeleteTokens(h) \/ DeleteResets(h)
                             \/ InsertReset(h) \/ EndSessions(h)
    BY <1>9
  <2>2. UNCHANGED <<users, links>> /\ request[h].pc # "sendLink"
    BY <2>1 DEF InsertToken, MailReset, DeleteReset, InsertKey, DeleteTokens, DeleteResets,
       InsertReset, EndSessions, Waits
  <2>3. \A g \in Handler : g # h => request'[g] = request[g]
    BY <1>1, <2>1 DEF InsertToken, MailReset, DeleteReset, InsertKey, DeleteTokens,
       DeleteResets, InsertReset, EndSessions, Goes, Ends
  <2>4. u \in Id /\ users[u].live
    BY <1>2, <2>2 DEF Id
  <2> QED BY <2>2, <2>3, <2>4, StrandedKept
<1>10. CASE Unasked
  <2>1. request' = request
    BY <1>10 DEF Unasked, RefreshExpired, ExpireSession, Logout, DeleteUser, AgeReset
  <2>2. CASE \E v \in Id : DeleteUser(v)
    <3>1. PICK v \in Id : DeleteUser(v)
      BY <2>2
    <3>2. /\ Len(users') = Len(users) /\ links' = links \ {v}
          /\ \A w \in Id : users'[w] = IF w = v THEN Deleted ELSE users[w]
      BY <1>1, <3>1, DeletedType, ExceptSeq DEF DeleteUser
    <3>3. u \in Id /\ u # v
      BY <1>1, <1>2, <3>2, DeletedType DEF Id
    <3> QED BY <1>2, <2>1, <3>2, <3>3, StrandedKept
  <2>3. CASE UNCHANGED <<users, links>>
    <3>1. u \in Id /\ users[u].live
      BY <1>2, <2>3 DEF Id
    <3> QED BY <2>1, <2>3, <3>1, StrandedKept
  <2> QED BY <1>10, <2>2, <2>3 DEF Unasked, RefreshExpired, ExpireSession, Logout, AgeReset
<1>11. ASSUME (\E h \in Handler : LoseLink(h) \/ Fail(h)) \/ Crash PROVE FALSE
  BY <1>1, <1>11 DEF LoseLink, Fail, Crash
<1> QED BY <1>3, <1>4, <1>5, <1>6, <1>7, <1>8, <1>9, <1>10, <1>11, NextForms
        DEF LastQuery, NextQuery

\* createUser saves the user and then his link, verifyUser the user and then the
\* end of his link: while no query, mail or process fails, nobody is left whose
\* e-mail is taken and whom no link confirms, except where a role is saved with
\* the user as he was before he was confirmed or deleted (createUser, lines
\* 235-238; verifyUser, lines 302-303; setRole, line 187).
THEOREM StrandedOnlyByFailure == AccountsSpec => StrandedByFailure
<1> DEFINE A == failures' = failures
                  => \A u \in Stranded' \ Stranded :
                       \E h \in Handler : /\ Waits(h, "saveRole") \/ Waits(h, "deleteLink")
                                         /\ request[h].user = u
<1>1. TablesInv /\ [AccountsNext]_vars => [A]_vars
  BY StrandedStep
<1> QED BY <1>1, TablesInvAlways, PTL DEF AccountsSpec, StrandedByFailure


-----------------------------------------------------------------------------
(* How many tokens a user, and how many reset tokens an e-mail, can have.   *)

LEMMA HandlerSets ==
  ASSUME NEW S, \A x \in S : x \in Handler
  PROVE  /\ IsFiniteSet(S) /\ Cardinality(S) \in Nat
         /\ Cardinality(Handler) \in Nat /\ Cardinality(S) <= Cardinality(Handler)
<1>1. S \subseteq Handler
  OBVIOUS
<1> QED BY <1>1, AccountsAssumption, FS_Subset, FS_CardinalityType

LEMMA SmallerSet ==
  ASSUME NEW S, NEW T, IsFiniteSet(T), \A x \in S : x \in T
  PROVE  /\ Cardinality(S) \in Nat /\ Cardinality(T) \in Nat
         /\ Cardinality(S) <= Cardinality(T)
<1>1. S \subseteq T
  OBVIOUS
<1> QED BY <1>1, FS_Subset, FS_CardinalityType

LEMMA SetWithout ==
  ASSUME NEW S, NEW T, IsFiniteSet(T), NEW h \in T, \A x \in S : x \in T /\ x # h
  PROVE  /\ Cardinality(S) \in Nat /\ Cardinality(T) \in Nat
         /\ Cardinality(S) + 1 <= Cardinality(T)
<1>1. S \subseteq T \ {h}
  OBVIOUS
<1>2. IsFiniteSet(T \ {h}) /\ Cardinality(T \ {h}) = Cardinality(T) - 1
  BY FS_RemoveElement
<1>3. Cardinality(S) <= Cardinality(T \ {h}) /\ IsFiniteSet(S)
  BY <1>1, <1>2, FS_Subset
<1> QED BY <1>2, <1>3, FS_CardinalityType

LEMMA SetWith ==
  ASSUME NEW S, NEW T, IsFiniteSet(T), NEW y, \A x \in S : x \in T \/ x = y
  PROVE  /\ Cardinality(S) \in Nat /\ Cardinality(T) \in Nat
         /\ Cardinality(S) <= Cardinality(T) + 1
<1>1. S \subseteq T \cup {y}
  OBVIOUS
<1>2. IsFiniteSet(T \cup {y}) /\ Cardinality(T \cup {y}) <= Cardinality(T) + 1
      /\ Cardinality(T) \in Nat
  <2>1. Cardinality(T) \in Nat
    BY FS_CardinalityType
  <2>2. /\ IsFiniteSet(T \cup {y})
        /\ Cardinality(T \cup {y}) = IF y \in T THEN Cardinality(T) ELSE Cardinality(T) + 1
    BY FS_AddElement
  <2> QED BY <2>1, <2>2
<1>3. Cardinality(S) <= Cardinality(T \cup {y}) /\ IsFiniteSet(S)
  BY <1>1, <1>2, FS_Subset
<1> QED BY <1>2, <1>3, FS_CardinalityType

\* The requests that are about to insert a token: a step adds none but the one
\* that has just deleted the old tokens.
LEMMA TokenInsertersAfter ==
  ASSUME TablesInv, AccountsNext, NEW u,
         ~\E h \in Handler : DeleteTokens(h) /\ request[h].user = u
  PROVE  \A g \in TokenInserters(u)' : g \in TokenInserters(u)
<1> SUFFICES ASSUME NEW g \in Handler, request'[g].pc = "insertToken", request'[g].user = u
             PROVE  request[g].pc = "insertToken" /\ request[g].user = u
  BY DEF TokenInserters
<1>1. ASSUME NEW h \in Handler, StartsRequest(h) PROVE request'[g] = request[g]
  <2>1. PICK r \in Request : request' = [request EXCEPT ![h] = r] /\ StartOf(r)
    BY <1>1, StartForms
  <2>2. \A f \in Handler : request'[f] = IF f = h THEN r ELSE request[f]
    BY <2>1 DEF TablesInv, AccountsTypeOK
  <2>3. r.pc # "insertToken"
    BY <2>1 DEF StartOf
  <2> QED BY <2>2, <2>3
<1>2. ASSUME NEW h \in Handler, LastQuery(h) \/ NextQuery(h) \/ Unasked
      PROVE  request'[g] = request[g]
  <2>1. Continues(h)
    BY <1>2, LastQueryContinues, NextQueryContinues, UnaskedContinues
  <2>2. CASE ~DeleteTokens(h)
    BY <2>1, <2>2 DEF Continues
  <2>3. CASE DeleteTokens(h)
    <3>1. ~InsertKeyUser(h)
      BY <2>3 DEF DeleteTokens, InsertKeyUser, Waits
    <3>2. request[g].user = u
      BY <2>1, <3>1 DEF Continues, Entering
    <3>3. g # h
      BY <2>3, <3>2
    <3> QED BY <2>1, <3>3 DEF Continues
  <2> QED BY <2>2, <2>3
<1>3. CASE Crash
  <2>1. request'[g].pc = "none"
    BY <1>3, NoRequestType DEF Crash
  <2> QED BY <2>1
<1> QED BY <1>1, <1>2, <1>3, NextForms

LEMMA SessionsAfter ==
  ASSUME TablesInv, AccountsNext, NEW u \in 1..MaxUsers,
         ~\E h \in Handler : InsertToken(h) /\ request[h].user = u
  PROVE  Len(sessions'[u]) <= Len(sessions[u])
<1>1. sessions \in [1..MaxUsers -> Seq(RefreshToken)] /\ sessions[u] \in Seq(RefreshToken)
      /\ Len(sessions[u]) \in Nat
  BY DEF TablesInv, AccountsTypeOK
<1>2. Len(Cleared(sessions[u])) <= Len(sessions[u])
  BY <1>1, EmptySeq DEF Cleared
<1>3. CASE sessions' = sessions
  BY <1>1, <1>3
<1>4. CASE \E h \in Handler : InsertToken(h)
  <2>1. PICK h \in Handler : InsertToken(h)
    BY <1>4
  <2>2. request[h].user # u
    BY <2>1
  <2>3. sessions'[u] = sessions[u]
    BY <1>1, <2>1, <2>2 DEF InsertToken
  <2> QED BY <1>1, <2>3
<1>5. CASE \E v : sessions' = [sessions EXCEPT ![v] = Cleared(@)]
  <2>1. PICK v : sessions' = [sessions EXCEPT ![v] = Cleared(sessions[v])]
    BY <1>5
  <2>2. sessions'[u] = sessions[u] \/ sessions'[u] = Cleared(sessions[u])
    BY <1>1, <2>1
  <2> QED BY <1>1, <1>2, <2>2
<1>6. CASE \E v \in Id : RefreshExpired(v)
  <2>1. PICK v \in Id : RefreshExpired(v)
    BY <1>6
  <2>2. CASE u = v
    <3>1. sessions[u] # <<>> /\ sessions'[u] = Tail(sessions[u])
      BY <1>1, <2>1, <2>2 DEF RefreshExpired
    <3>2. Len(Tail(sessions[u])) = Len(sessions[u]) - 1
      BY <1>1, <3>1, HeadTailProperties
    <3> QED BY <1>1, <3>1, <3>2
  <2>3. CASE u # v
    BY <1>1, <2>1, <2>3 DEF RefreshExpired
  <2> QED BY <2>2, <2>3
<1>7. CASE \E v \in Id : ExpireSession(v)
  <2>1. PICK v \in Id : ExpireSession(v)
    BY <1>7
  <2>2. PICK i \in 1..Len(sessions[v]) : sessions' = [sessions EXCEPT ![v][i] = "expired"]
    BY <2>1 DEF ExpireSession
  <2>3. CASE u = v
    <3>1. sessions'[u] = [sessions[u] EXCEPT ![i] = "expired"]
      BY <1>1, <2>2, <2>3
    <3>2. Len([sessions[u] EXCEPT ![i] = "expired"]) = Len(sessions[u])
      BY <1>1
    <3> QED BY <1>1, <3>1, <3>2
  <2>4. CASE u # v
    BY <1>1, <2>2, <2>4
  <2> QED BY <2>3, <2>4
<1>8. \/ sessions' = sessions
      \/ \E h \in Handler : InsertToken(h)
      \/ \E v : sessions' = [sessions EXCEPT ![v] = Cleared(@)]
      \/ \E v \in Id : RefreshExpired(v) \/ ExpireSession(v)
  <2>1. ASSUME NEW h \in Handler, StartsRequest(h) PROVE sessions' = sessions
    BY <2>1, StartForms DEF tables
  <2>2. ASSUME NEW h \in Handler, LastQuery(h) PROVE sessions' = sessions \/ InsertToken(h)
    BY <2>2 DEF LastQuery, SendLink, LoseLink, SaveRole, MailReset, DeleteReset, Fail, tables
  <2>3. ASSUME NEW h \in Handler, NextQuery(h)
        PROVE  sessions' = sessions \/ \E v : sessions' = [sessions EXCEPT ![v] = Cleared(@)]
    BY <2>3 DEF NextQuery, InsertUser, SaveVerified, DeleteLink, InsertKeyUser, InsertKey,
       DeleteTokens, DeleteResets, InsertReset, SetPassword, EndSessions
  <2>4. ASSUME Unasked
        PROVE  \/ sessions' = sessions
               \/ \E v : sessions' = [sessions EXCEPT ![v] = Cleared(@)]
               \/ \E v \in Id : RefreshExpired(v) \/ ExpireSession(v)
    BY <2>4 DEF Unasked, Logout, DeleteUser, AgeReset
  <2>5. Crash => sessions' = sessions
    BY DEF Crash, tables
  <2> QED BY <2>1, <2>2, <2>3, <2>4, <2>5, NextForms
<1> QED BY <1>3, <1>4, <1>5, <1>6, <1>7, <1>8

LEMMA SessionsCountStep ==
  ASSUME TablesInv, SessionsCount, AccountsNext, TablesInv'
  PROVE  SessionsCount'
<1> SUFFICES ASSUME NEW u \in 1..MaxUsers
             PROVE  Len(sessions'[u]) + Cardinality(TokenInserters(u)')
                      <= Cardinality(Handler)
  BY DEF SessionsCount
<1>1. /\ sessions[u] \in Seq(RefreshToken) /\ Len(sessions[u]) \in Nat
      /\ sessions'[u] \in Seq(RefreshToken) /\ Len(sessions'[u]) \in Nat
      /\ sessions \in [1..MaxUsers -> Seq(RefreshToken)]
      /\ request \in [Handler -> Request]
  <2>1. /\ sessions \in [1..MaxUsers -> Seq(RefreshToken)]
        /\ request \in [Handler -> Request]
    BY Zenon DEF TablesInv, AccountsTypeOK
  <2>2. sessions' \in [1..MaxUsers -> Seq(RefreshToken)]
    BY Zenon DEF TablesInv, AccountsTypeOK
  <2>3. sessions[u] \in Seq(RefreshToken) /\ sessions'[u] \in Seq(RefreshToken)
    BY <2>1, <2>2
  <2> QED BY <2>1, <2>3, LenProperties
<1> DEFINE Before == TokenInserters(u)
           After == TokenInserters(u)'
<1>2. /\ \A g \in Before : g \in Handler /\ request[g].pc = "insertToken"
                                         /\ request[g].user = u
      /\ \A g \in After : g \in Handler /\ request'[g].pc = "insertToken"
      /\ \A g \in Handler : request[g].pc = "insertToken" /\ request[g].user = u
                              => g \in Before
  BY DEF TokenInserters
<1>3. Len(sessions[u]) + Cardinality(Before) <= Cardinality(Handler)
  BY DEF SessionsCount
<1>4. (~\E h \in Handler : DeleteTokens(h) /\ request[h].user = u)
        => \A g \in After : g \in Before
  BY TokenInsertersAfter
<1> HIDE DEF Before, After
<1>5. /\ IsFiniteSet(Before) /\ Cardinality(Before) \in Nat /\ Cardinality(Handler) \in Nat
      /\ IsFiniteSet(After) /\ Cardinality(After) \in Nat
      /\ Cardinality(After) <= Cardinality(Handler)
  BY <1>2, HandlerSets
<1>6. CASE \E h \in Handler : DeleteTokens(h) /\ request[h].user = u
  <2>1. sessions'[u] = <<>>
    BY <1>1, <1>6 DEF DeleteTokens, Cleared
  <2>2. Len(<<>>) = 0
    OBVIOUS
  <2> QED BY <1>5, <2>1, <2>2 DEF After
<1>7. CASE \E h \in Handler : InsertToken(h) /\ request[h].user = u
  <2>1. PICK h \in Handler : InsertToken(h) /\ request[h].user = u
    BY <1>7
  <2>2. request[h].pc = "insertToken" /\ h \in Before
    BY <1>2, <2>1 DEF InsertToken, Waits
  <2>3. request'[h].pc = "none"
    BY <1>1, <2>1, NoRequestType DEF InsertToken, Ends
  <2>4. ~\E g \in Handler : DeleteTokens(g) /\ request[g].user = u
    <3>1. ASSUME NEW g \in Handler, DeleteTokens(g) PROVE FALSE
      <4>1. request'[g].pc = "insertToken" /\ request[g].pc = "deleteTokens"
        BY <1>1, <3>1, TablesType DEF DeleteTokens, Goes, Waits, Request, TablesInv
      <4>2. g # h /\ request'[g] = request[g]
        BY <1>1, <2>1, <2>2, <4>1 DEF InsertToken, Ends
      <4> QED BY <4>1, <4>2
    <3> QED BY <3>1
  <2>5. \A g \in After : g \in Before /\ g # h
    BY <1>2, <1>4, <2>3, <2>4
  <2>6. Cardinality(After) + 1 <= Cardinality(Before)
    BY <1>5, <2>2, <2>5, SetWithout
  <2>7. Len(sessions'[u]) <= Len(sessions[u]) + 1
    <3>1. CASE sessions' = sessions
      BY <1>1, <3>1
    <3>2. CASE sessions' = [sessions EXCEPT ![u] = Append(@, "good")]
      <4>1. sessions'[u] = Append(sessions[u], "good")
        BY <1>1, <3>2
      <4> QED BY <1>1, <4>1
    <3> QED BY <2>1, <3>1, <3>2 DEF InsertToken
  <2> QED BY <1>1, <1>3, <1>5, <2>6, <2>7 DEF After
<1>8. CASE /\ ~\E h \in Handler : DeleteTokens(h) /\ request[h].user = u
           /\ ~\E h \in Handler : InsertToken(h) /\ request[h].user = u
  <2>1. Cardinality(After) <= Cardinality(Before)
    BY <1>4, <1>5, <1>8, SmallerSet
  <2>2. Len(sessions'[u]) <= Len(sessions[u])
    BY <1>8, SessionsAfter
  <2> QED BY <1>1, <1>3, <1>5, <2>1, <2>2 DEF After
<1> QED BY <1>6, <1>7, <1>8


\* The requests that are about to insert a reset token of an e-mail.
LEMMA ResetInsertersAfter ==
  ASSUME TablesInv, AccountsNext, NEW email,
         ~\E h \in Handler : DeleteResets(h) /\ request[h].email = email
  PROVE  \A g \in ResetInserters(email)' : g \in ResetInserters(email)
<1> SUFFICES ASSUME NEW g \in Handler, request'[g].pc = "insertReset",
                    request'[g].email = email
             PROVE  request[g].pc = "insertReset" /\ request[g].email = email
  BY DEF ResetInserters
<1>0. request \in [Handler -> Request] /\ \A h \in Handler : request[h] \in Request
  BY TablesType DEF TablesInv, AccountsTypeOK
<1>1. ASSUME NEW h \in Handler, StartsRequest(h) PROVE request'[g] = request[g]
  <2>1. PICK r \in Request : request' = [request EXCEPT ![h] = r] /\ StartOf(r)
    BY <1>1, StartForms
  <2>2. \A f \in Handler : request'[f] = IF f = h THEN r ELSE request[f]
    BY <1>0, <2>1
  <2>3. r.pc # "insertReset"
    BY <2>1 DEF StartOf
  <2> QED BY <2>2, <2>3
<1>2. ASSUME NEW h \in Handler, LastQuery(h) \/ NextQuery(h) \/ Unasked
      PROVE  request'[g] = request[g]
  <2>1. Continues(h)
    BY <1>2, LastQueryContinues, NextQueryContinues, UnaskedContinues
  <2>2. CASE ~DeleteResets(h)
    BY <2>1, <2>2 DEF Continues
  <2>3. CASE DeleteResets(h)
    <3>1. request'[h].email = request[h].email
      BY <1>0, <2>3 DEF DeleteResets, Goes, Request
    <3>2. g # h
      BY <2>3, <3>1
    <3> QED BY <2>1, <3>2 DEF Continues
  <2> QED BY <2>2, <2>3
<1>3. CASE Crash
  <2>1. request'[g].pc = "none"
    BY <1>3, NoRequestType DEF Crash
  <2> QED BY <2>1
<1> QED BY <1>1, <1>2, <1>3, NextForms

\* A row written in place: it is dead, or what it was and of the same e-mail.
LEMMA ResetWritten ==
  ASSUME NEW t \in 1..Len(resets), NEW x, resets \in Seq(Reset),
         resets' = [resets EXCEPT ![t] = x],
         ~x.live \/ (resets[t].live /\ x.email = resets[t].email), NEW email
  PROVE  \A s \in ResetsOf(email)' : s \in ResetsOf(email)
<1>1. Len(resets') = Len(resets) /\ \A s \in 1..Len(resets) :
        resets'[s] = IF s = t THEN x ELSE resets[s]
  OBVIOUS
<1> QED BY <1>1 DEF ResetsOf

LEMMA ResetsAfter ==
  ASSUME TablesInv, AccountsNext, NEW email,
         ~\E h \in Handler : InsertReset(h) /\ request[h].email = email
  PROVE  \A s \in ResetsOf(email)' : s \in ResetsOf(email)
<1>1. resets \in Seq(Reset) /\ ServesInv /\ Len(resets) \in Nat
      /\ \A s \in 1..Len(resets) : resets[s] \in Reset
  BY TablesType DEF TablesInv, AccountsTypeOK
<1>2. CASE resets' = resets
  BY <1>2 DEF ResetsOf
<1>3. ASSUME NEW h \in Handler, DeleteResets(h)
      PROVE  \A s \in ResetsOf(email)' : s \in ResetsOf(email)
  <2>1. /\ Len(resets') = Len(resets)
        /\ \A s \in 1..Len(resets) :
             resets'[s] = IF s \in Dropped(request[h].email) THEN Removed(resets[s])
                                                             ELSE resets[s]
    BY <1>1, <1>3 DEF DeleteResets
  <2>2. \A s \in 1..Len(resets) : ~Removed(resets[s]).live
    BY <1>1 DEF Removed, Reset
  <2> QED BY <1>1, <2>1, <2>2 DEF ResetsOf
<1>4. ASSUME NEW h \in Handler, InsertReset(h), request[h].email # email
      PROVE  \A s \in ResetsOf(email)' : s \in ResetsOf(email)
  <2>0. PICK x : x = [email |-> request[h].email, age |-> "new", mailed |-> FALSE,
                      live |-> TRUE]
    OBVIOUS
  <2>1. resets' = Append(resets, x) /\ x.email # email
    BY <1>4, <2>0 DEF InsertReset
  <2>2. /\ Len(resets') = Len(resets) + 1 /\ resets'[Len(resets) + 1] = x
        /\ \A s \in 1..Len(resets) : resets'[s] = resets[s]
    BY <1>1, <2>1
  <2> QED BY <1>1, <2>1, <2>2 DEF ResetsOf
<1>5. ASSUME NEW h \in Handler, MailReset(h) \/ DeleteReset(h)
      PROVE  \A s \in ResetsOf(email)' : s \in ResetsOf(email)
  <2>1. PICK t \in 1..Len(resets) : t = request[h].reset
    BY <1>1, <1>5 DEF MailReset, DeleteReset, Waits, ServesInv, Fits, OfReset
  <2>2. resets[t] \in Reset
    BY <1>1
  <2>3. CASE MailReset(h)
    <3> DEFINE b == resets[t].live /\ ~EmailFree(request[h].email)
               x == [resets[t] EXCEPT !.mailed = b]
    <3>1. resets' = [resets EXCEPT ![t] = x]
      BY <2>1, <2>3 DEF MailReset
    <3> HIDE DEF b
    <3>2. x.live = resets[t].live /\ x.email = resets[t].email
      BY <2>2 DEF Reset
    <3> HIDE DEF x
    <3>3. ~x.live \/ (resets[t].live /\ x.email = resets[t].email)
      BY <3>2
    <3> QED BY <1>1, <3>1, <3>3, ResetWritten
  <2>4. CASE DeleteReset(h)
    <3>1. resets' = [resets EXCEPT ![t] = Removed(resets[t])]
      BY <2>1, <2>4 DEF DeleteReset
    <3>2. ~Removed(resets[t]).live
      BY <2>2 DEF Removed, Reset
    <3> QED BY <1>1, <3>1, <3>2, ResetWritten
  <2> QED BY <1>5, <2>3, <2>4
<1>6. ASSUME NEW t \in 1..MaxResets, AgeReset(t)
      PROVE  \A s \in ResetsOf(email)' : s \in ResetsOf(email)
  <2>1. t \in 1..Len(resets) /\ resets[t].live /\ resets[t] \in Reset
    BY <1>1, <1>6 DEF AgeReset
  <2> DEFINE x == [resets[t] EXCEPT !.age = IF resets[t].age = "new" THEN "renewable"
                                                                    ELSE "expired"]
  <2>2. resets' = [resets EXCEPT ![t] = x]
    BY <1>6 DEF AgeReset
  <2>3. x.email = resets[t].email
    BY <2>1 DEF Reset
  <2> HIDE DEF x
  <2> QED BY <1>1, <2>1, <2>2, <2>3, ResetWritten
<1>7. \/ resets' = resets
      \/ \E h \in Handler : InsertReset(h) \/ DeleteResets(h) \/ MailReset(h) \/ DeleteReset(h)
      \/ \E t \in 1..MaxResets : AgeReset(t)
  <2>1. ASSUME NEW h \in Handler, StartsRequest(h) PROVE resets' = resets
    BY <2>1, StartForms DEF tables
  <2>2. ASSUME NEW h \in Handler, LastQuery(h)
        PROVE  resets' = resets \/ MailReset(h) \/ DeleteReset(h)
    BY <2>2 DEF LastQuery, SendLink, LoseLink, SaveRole, InsertToken, Fail, tables
  <2>3. ASSUME NEW h \in Handler, NextQuery(h)
        PROVE  resets' = resets \/ InsertReset(h) \/ DeleteResets(h)
    BY <2>3 DEF NextQuery, InsertUser, SaveVerified, DeleteLink, InsertKeyUser, InsertKey,
       DeleteTokens, SetPassword, EndSessions
  <2>4. Unasked => resets' = resets \/ \E t \in 1..MaxResets : AgeReset(t)
    BY DEF Unasked, RefreshExpired, ExpireSession, Logout, DeleteUser
  <2>5. Crash => resets' = resets
    BY DEF Crash, tables
  <2> QED BY <2>1, <2>2, <2>3, <2>4, <2>5, NextForms
<1> QED BY <1>2, <1>3, <1>4, <1>5, <1>6, <1>7

LEMMA ResetsCountStep ==
  ASSUME TablesInv, ResetsCount, AccountsNext, TablesInv'
  PROVE  ResetsCount'
<1> SUFFICES ASSUME NEW email \in Email
             PROVE  Cardinality(ResetsOf(email)') + Cardinality(ResetInserters(email)')
                      <= Cardinality(Handler)
  BY DEF ResetsCount
<1>1. /\ resets \in Seq(Reset) /\ Len(resets) \in Nat
      /\ resets' \in Seq(Reset) /\ Len(resets') \in Nat
      /\ request \in [Handler -> Request] /\ \A h \in Handler : request[h] \in Request
  BY TablesType DEF TablesInv, AccountsTypeOK
<1> DEFINE Before == ResetInserters(email)
           After == ResetInserters(email)'
           Old == ResetsOf(email)
           New == ResetsOf(email)'
<1>2. /\ \A g \in Before : g \in Handler
      /\ \A g \in After : g \in Handler /\ request'[g].pc = "insertReset"
      /\ \A g \in Handler : request[g].pc = "insertReset" /\ request[g].email = email
                              => g \in Before
      /\ \A s \in Old : s \in 1..Len(resets)
      /\ \A s \in New : s \in 1..Len(resets') /\ resets'[s].live /\ resets'[s].email = email
      /\ \A s \in 1..Len(resets) : resets[s].live /\ resets[s].email = email => s \in Old
  BY DEF ResetInserters, ResetsOf
<1>3. Cardinality(Old) + Cardinality(Before) <= Cardinality(Handler)
  BY DEF ResetsCount
<1>4. (~\E h \in Handler : DeleteResets(h) /\ request[h].email = email)
        => \A g \in After : g \in Before
  BY ResetInsertersAfter
<1>5. (~\E h \in Handler : InsertReset(h) /\ request[h].email = email)
        => \A s \in New : s \in Old
  BY ResetsAfter
<1> HIDE DEF Before, After, Old, New
<1>6. /\ IsFiniteSet(Before) /\ Cardinality(Before) \in Nat /\ Cardinality(Handler) \in Nat
      /\ IsFiniteSet(After) /\ Cardinality(After) \in Nat
      /\ Cardinality(After) <= Cardinality(Handler)
  BY <1>2, HandlerSets
<1>7. IsFiniteSet(Old) /\ Cardinality(Old) \in Nat
  <2>1. Old \subseteq 1..Len(resets)
    BY <1>2
  <2>2. IsFiniteSet(1..Len(resets))
    BY <1>1, FS_Interval
  <2> QED BY <2>1, <2>2, FS_Subset, FS_CardinalityType
<1>8. CASE \E h \in Handler : DeleteResets(h) /\ request[h].email = email
  <2>1. PICK h \in Handler : DeleteResets(h) /\ request[h].email = email
    BY <1>8
  <2>2. /\ Len(resets') = Len(resets)
        /\ \A s \in 1..Len(resets) :
             resets'[s] = IF s \in ResetsOf(email) THEN Removed(resets[s]) ELSE resets[s]
    BY <1>1, <2>1 DEF DeleteResets, Dropped
  <2>3. \A s \in 1..Len(resets) : ~Removed(resets[s]).live
    BY <1>1 DEF Removed, Reset
  <2>4. New = {}
    BY <1>2, <2>2, <2>3 DEF ResetsOf
  <2>5. Cardinality(New) = 0
    BY <2>4, FS_EmptySet
  <2> QED BY <1>6, <2>5 DEF New, After
<1>9. CASE \E h \in Handler : InsertReset(h) /\ request[h].email = email
  <2>1. PICK h \in Handler : InsertReset(h) /\ request[h].email = email
    BY <1>9
  <2>2. request[h].pc = "insertReset" /\ h \in Before
    BY <1>2, <2>1 DEF InsertReset, Waits
  <2>3. request'[h].pc = "mailReset"
    BY <1>1, <2>1 DEF InsertReset, Request
  <2>4. ~\E g \in Handler : DeleteResets(g) /\ request[g].email = email
    <3>1. ASSUME NEW g \in Handler, DeleteResets(g) PROVE FALSE
      <4>1. request'[g].pc = "insertReset" /\ request[g].pc = "deleteResets"
        BY <1>1, <3>1 DEF DeleteResets, Goes, Waits, Request
      <4>2. g # h /\ request'[g] = request[g]
        BY <1>1, <2>1, <2>2, <4>1 DEF InsertReset
      <4> QED BY <4>1, <4>2
    <3> QED BY <3>1
  <2>5. \A g \in After : g \in Before /\ g # h
    BY <1>2, <1>4, <2>3, <2>4
  <2>6. Cardinality(After) + 1 <= Cardinality(Before)
    BY <1>6, <2>2, <2>5, SetWithout
  <2>7. \A s \in New : s \in Old \/ s = Len(resets) + 1
    <3>1. PICK x : resets' = Append(resets, x)
      BY <2>1 DEF InsertReset
    <3>2. /\ Len(resets') = Len(resets) + 1
          /\ \A s \in 1..Len(resets) : resets'[s] = resets[s]
      BY <1>1, <3>1
    <3> QED BY <1>1, <1>2, <3>2
  <2>8. Cardinality(New) \in Nat /\ Cardinality(New) <= Cardinality(Old) + 1
    BY <1>7, <2>7, SetWith
  <2> QED BY <1>3, <1>6, <1>7, <2>6, <2>8 DEF New, After
<1>10. CASE /\ ~\E h \in Handler : DeleteResets(h) /\ request[h].email = email
            /\ ~\E h \in Handler : InsertReset(h) /\ request[h].email = email
  <2>1. Cardinality(After) <= Cardinality(Before)
    BY <1>4, <1>6, <1>10, SmallerSet
  <2>2. Cardinality(New) \in Nat /\ Cardinality(New) <= Cardinality(Old)
    BY <1>5, <1>7, <1>10, SmallerSet
  <2> QED BY <1>3, <1>6, <1>7, <2>1, <2>2 DEF New, After
<1> QED BY <1>8, <1>9, <1>10

LEMMA TokensCountInit == AccountsInit => SessionsCount /\ ResetsCount
<1> SUFFICES ASSUME AccountsInit PROVE SessionsCount /\ ResetsCount
  OBVIOUS
<1>1. \A h \in Handler : request[h].pc = "none"
  BY NoRequestType DEF AccountsInit
<1>2. Len(<<>>) = 0 /\ Cardinality({}) = 0 /\ Cardinality(Handler) \in Nat
  BY FS_EmptySet, AccountsAssumption, FS_CardinalityType
<1>3. \A u \in 1..MaxUsers : Len(sessions[u]) = 0 /\ Cardinality(TokenInserters(u)) = 0
  <2> TAKE u \in 1..MaxUsers
  <2>1. sessions[u] = <<>> /\ TokenInserters(u) = {}
    BY <1>1 DEF AccountsInit, TokenInserters
  <2> QED BY <1>2, <2>1
<1>4. \A email \in Email : ResetsOf(email) = {} /\ ResetInserters(email) = {}
  <2>1. resets = <<>> /\ 1..Len(resets) = {}
    BY DEF AccountsInit
  <2> QED BY <1>1, <2>1 DEF ResetsOf, ResetInserters
<1>5. SessionsCount
  BY <1>2, <1>3 DEF SessionsCount
<1>6. ResetsCount
  BY <1>2, <1>4 DEF ResetsCount
<1> QED BY <1>5, <1>6

LEMMA TokensCountStep ==
  TablesInv /\ TablesInv' /\ SessionsCount /\ ResetsCount /\ [AccountsNext]_vars
    => SessionsCount' /\ ResetsCount'
<1> SUFFICES ASSUME TablesInv, TablesInv', SessionsCount, ResetsCount, [AccountsNext]_vars
             PROVE  SessionsCount' /\ ResetsCount'
  OBVIOUS
<1>1. CASE AccountsNext
  BY <1>1, SessionsCountStep, ResetsCountStep
<1>2. CASE UNCHANGED vars
  <2>1. UNCHANGED <<sessions, resets, request>>
    BY <1>2 DEF vars, tables
  <2> QED BY <2>1 DEF SessionsCount, ResetsCount, TokenInserters, ResetInserters, ResetsOf
<1> QED BY <1>1, <1>2

LEMMA TokensCountAlways == AccountsSpec => [](SessionsCount /\ ResetsCount)
  BY TablesInvAlways, TokensCountInit, TokensCountStep, PTL DEF AccountsSpec

\* "Delete, then insert" leaves no more sessions of a user, and no more reset
\* tokens of an e-mail, than requests can race (auth.service lines 48-56,
\* users.service lines 356-364).
THEOREM AccountsTokensBounded == AccountsSpec => []TokensBoundInv
<1>1. TablesInv /\ SessionsCount /\ ResetsCount => TokensBoundInv
  <2> SUFFICES ASSUME TablesInv, SessionsCount, ResetsCount PROVE TokensBoundInv
    OBVIOUS
  <2>1. Cardinality(Handler) \in Nat
    BY AccountsAssumption, FS_CardinalityType
  <2>2. ASSUME NEW u \in 1..MaxUsers PROVE Len(sessions[u]) <= Cardinality(Handler)
    <3>1. Cardinality(TokenInserters(u)) \in Nat
      BY HandlerSets DEF TokenInserters
    <3>2. Len(sessions[u]) \in Nat
      BY DEF TablesInv, AccountsTypeOK
    <3> QED BY <2>1, <3>1, <3>2 DEF SessionsCount
  <2>3. ASSUME NEW email \in Email PROVE Cardinality(ResetsOf(email)) <= Cardinality(Handler)
    <3>1. Cardinality(ResetInserters(email)) \in Nat
      BY HandlerSets DEF ResetInserters
    <3>2. Cardinality(ResetsOf(email)) \in Nat
      <4>1. IsFiniteSet(1..Len(resets))
        BY TablesType, FS_Interval DEF TablesInv
      <4> QED BY <4>1, SmallerSet DEF ResetsOf
    <3> QED BY <2>1, <3>1, <3>2 DEF ResetsCount
  <2> QED BY <2>2, <2>3 DEF TokensBoundInv
<1> QED BY <1>1, TablesInvAlways, TokensCountAlways, PTL


-----------------------------------------------------------------------------
(* How many accounts an e-mail, and a VK key, can have.                     *)

\* A live user stays so until he is deleted.
LEMMA LiveStays ==
  ASSUME TablesInv, AccountsNext, NEW u \in Live, ~DeleteUser(u)
  PROVE  u \in Live'
<1>1. u \in Id /\ users[u].live /\ Id = 1..Len(users) /\ users \in Seq(User)
      /\ ServesInv /\ (\A v \in Id : users[v] \in User)
      /\ \A h \in Handler : request[h] \in Request
  BY TablesType DEF Live, TablesInv, AccountsTypeOK
<1>2. CASE UNCHANGED users
  BY <1>1, <1>2 DEF Live, Id
<1>3. ASSUME NEW h \in Handler, InsertUser(h) \/ InsertKeyUser(h) PROVE u \in Live'
  BY <1>1, <1>3, UserAdded DEF Live
<1>4. ASSUME NEW h \in Handler, SaveVerified(h) \/ SaveRole(h) PROVE u \in Live'
  <2>1. /\ request[h].user \in Id /\ request[h].entity \in User /\ request[h].entity.live
    BY <1>1, <1>4 DEF SaveVerified, SaveRole, Waits, ServesInv, Fits, OfUser, Request
  <2>2. PICK e \in User : e.live /\ SaveUser(request[h].user, e)
    <3>1. CASE SaveVerified(h)
      <4> DEFINE e == [request[h].entity EXCEPT !.verified = TRUE]
      <4>1. e \in User /\ e.live
        BY <2>1 DEF User
      <4>2. SaveUser(request[h].user, e)
        BY <3>1 DEF SaveVerified
      <4> HIDE DEF e
      <4> QED BY <4>1, <4>2
    <3>2. CASE SaveRole(h)
      BY <2>1, <3>2 DEF SaveRole
    <3> QED BY <1>4, <3>1, <3>2
  <2>3. Len(users') = Len(users) /\ users'[u].live
    BY <1>1, <2>1, <2>2, SaveUserRows
  <2> QED BY <1>1, <2>3 DEF Live, Id
<1>5. ASSUME NEW h \in Handler, SetPassword(h) PROVE u \in Live'
  <2> DEFINE p == request[h].password
  <2>1. /\ Len(users') = Len(users)
        /\ users'[u] = IF u \in WithEmail(request[h].email)
                         THEN [users[u] EXCEPT !.password = p] ELSE users[u]
    BY <1>1, <1>5 DEF SetPassword
  <2> HIDE DEF p
  <2>2. users'[u].live
    BY <1>1, <2>1 DEF User
  <2> QED BY <1>1, <2>1, <2>2 DEF Live, Id
<1>6. CASE Unasked \/ Crash
  BY <1>1, <1>6, RowsUnasked DEF Live
<1>7. \/ UNCHANGED users \/ Unasked \/ Crash
      \/ \E h \in Handler : \/ InsertUser(h) \/ InsertKeyUser(h)
                            \/ SaveVerified(h) \/ SaveRole(h) \/ SetPassword(h)
  <2>1. ASSUME NEW h \in Handler, StartsRequest(h) PROVE UNCHANGED users
    BY <2>1, StartForms DEF tables
  <2>2. ASSUME NEW h \in Handler, LastQuery(h) PROVE UNCHANGED users \/ SaveRole(h)
    BY <2>2 DEF LastQuery, SendLink, LoseLink, InsertToken, MailReset, DeleteReset, Fail, tables
  <2>3. ASSUME NEW h \in Handler, NextQuery(h)
        PROVE  UNCHANGED users \/ InsertUser(h) \/ InsertKeyUser(h) \/ SaveVerified(h)
                 \/ SetPassword(h)
    BY <2>3 DEF NextQuery, DeleteLink, InsertKey, DeleteTokens, DeleteResets, InsertReset,
       EndSessions
  <2> QED BY <2>1, <2>2, <2>3, NextForms
<1> QED BY <1>2, <1>3, <1>4, <1>5, <1>6, <1>7

LEMMA ProvidersLiveStep ==
  ASSUME TablesInv, ProvidersLive, AccountsNext
  PROVE  ProvidersLive'
<1> SUFFICES ASSUME NEW p \in providers' PROVE p[2] \in Live'
  BY DEF ProvidersLive
<1>1. \/ p \in providers
      \/ \E h \in Handler : InsertKey(h) /\ p = <<request[h].key, request[h].user>>
  BY ProvidersGrow
<1>2. p[2] \in Live
  <2>1. ASSUME NEW h \in Handler, InsertKey(h), p = <<request[h].key, request[h].user>>,
               p \notin providers
        PROVE  p[2] \in Live
    <3>1. p[2] = request[h].user
      BY <2>1
    <3>2. request[h].user \in Live
      BY <2>1 DEF InsertKey
    <3> QED BY <3>1, <3>2
  <2> QED BY <1>1, <2>1 DEF ProvidersLive
<1>3. ~DeleteUser(p[2])
  BY DEF DeleteUser
<1> QED BY <1>2, <1>3, LiveStays

\* The requests that are about to give a VK key an account.
LEMMA KeyInsertersAfter ==
  ASSUME TablesInv, AccountsNext, NEW key \in Key,
         WithKey(key) # {}
  PROVE  \A g \in KeyInserters(key)' : g \in KeyInserters(key)
<1> SUFFICES ASSUME NEW g \in Handler,
                    request'[g].pc \in {"insertKeyUser", "insertKey"}, request'[g].key = key
             PROVE  request[g].pc \in {"insertKeyUser", "insertKey"} /\ request[g].key = key
  BY DEF KeyInserters
<1>0. request \in [Handler -> Request] /\ \A h \in Handler : request[h] \in Request
  BY TablesType DEF TablesInv, AccountsTypeOK
<1>1. ASSUME NEW h \in Handler, StartsRequest(h) PROVE request'[g] = request[g]
  <2>1. PICK r \in Request : request' = [request EXCEPT ![h] = r] /\ StartOf(r)
    BY <1>1, StartForms
  <2>2. \A f \in Handler : request'[f] = IF f = h THEN r ELSE request[f]
    BY <1>0, <2>1
  <2>3. ~(r.pc \in {"insertKeyUser", "insertKey"} /\ r.key = key)
    BY <2>1 DEF StartOf
  <2> QED BY <2>2, <2>3
<1>2. ASSUME NEW h \in Handler, LastQuery(h) \/ NextQuery(h) \/ Unasked
      PROVE  request[g].pc \in {"insertKeyUser", "insertKey"} /\ request[g].key = key
  <2>1. Continues(h)
    BY <1>2, LastQueryContinues, NextQueryContinues, UnaskedContinues
  <2>2. CASE ~InsertKeyUser(h) \/ g # h
    <3>1. request'[g] = request[g]
      BY <2>1, <2>2 DEF Continues
    <3> QED BY <3>1
  <2>3. CASE InsertKeyUser(h) /\ g = h
    <3>1. request'[h].key = request[h].key /\ request[h].pc = "insertKeyUser"
      BY <1>0, <2>3 DEF InsertKeyUser, Waits, Request
    <3> QED BY <2>3, <3>1
  <2> QED BY <2>2, <2>3
<1>3. CASE Crash
  <2>1. request'[g].pc = "none"
    BY <1>3, NoRequestType DEF Crash
  <2> QED BY <2>1
<1> QED BY <1>1, <1>2, <1>3, NextForms

LEMMA KeysCountStep ==
  ASSUME TablesInv, ProvidersLive, KeysCount, AccountsNext, TablesInv'
  PROVE  KeysCount'
<1> SUFFICES ASSUME NEW key \in Key
             PROVE  Cardinality(WithKey(key)') + Cardinality(KeyInserters(key)')
                      <= Cardinality(Handler)
  BY DEF KeysCount
<1>1. /\ request \in [Handler -> Request] /\ \A h \in Handler : request[h] \in Request
      /\ Len(users) \in Nat /\ Id = 1..Len(users)
  BY TablesType DEF TablesInv, AccountsTypeOK
<1> DEFINE Before == KeyInserters(key)
           After == KeyInserters(key)'
           Old == WithKey(key)
           New == WithKey(key)'
<1>2. /\ \A g \in Before : g \in Handler
      /\ \A g \in After : g \in Handler /\ request'[g].pc \in {"insertKeyUser", "insertKey"}
      /\ \A g \in Handler : request[g].pc = "insertKey" /\ request[g].key = key => g \in Before
      /\ \A u \in Old : u \in Id
      /\ \A u \in New : <<key, u>> \in providers'
      /\ \A u : <<key, u>> \in providers => u \in Old
  BY DEF KeyInserters, WithKey, Live, ProvidersLive
<1>3. Cardinality(Old) + Cardinality(Before) <= Cardinality(Handler)
  BY DEF KeysCount
<1>4. Old # {} => \A g \in After : g \in Before
  BY KeyInsertersAfter
<1>5. \A u \in New : \/ u \in Old
                    \/ \E h \in Handler : InsertKey(h) /\ request[h].key = key
                                                       /\ request[h].user = u
  <2> TAKE u \in New
  <2>1. PICK p : p = <<key, u>>
    OBVIOUS
  <2>2. p \in providers
          \/ \E h \in Handler : InsertKey(h) /\ p = <<request[h].key, request[h].user>>
    BY <1>2, <2>1, ProvidersGrow
  <2> QED BY <1>2, <2>1, <2>2
<1> HIDE DEF Before, After, Old, New
<1>6. /\ IsFiniteSet(Before) /\ Cardinality(Before) \in Nat /\ Cardinality(Handler) \in Nat
      /\ IsFiniteSet(After) /\ Cardinality(After) \in Nat
      /\ Cardinality(After) <= Cardinality(Handler)
  BY <1>2, HandlerSets
<1>7. IsFiniteSet(Old) /\ Cardinality(Old) \in Nat
  <2>1. Old \subseteq 1..Len(users)
    BY <1>1, <1>2
  <2>2. IsFiniteSet(1..Len(users))
    BY <1>1, FS_Interval
  <2> QED BY <2>1, <2>2, FS_Subset, FS_CardinalityType
<1>8. CASE \E h \in Handler : InsertKey(h) /\ request[h].key = key
  <2>1. PICK h \in Handler : InsertKey(h) /\ request[h].key = key
    BY <1>8
  <2>2. request[h].pc = "insertKey" /\ h \in Before
    BY <1>2, <2>1 DEF InsertKey, Waits
  <2>3. request'[h].pc \notin {"insertKeyUser", "insertKey"}
    BY <1>1, <2>1, NoRequestType DEF InsertKey, Ends, Request
  <2>4. \A g \in Handler : g # h => request'[g] = request[g]
    BY <1>1, <2>1 DEF InsertKey, Ends
  <2>5. \A g \in After : g \in Before /\ g # h
    <3>1. \A g \in After : g # h
      BY <1>2, <2>3
    <3>2. \A g \in After : g \in Before
      BY <2>4, <3>1 DEF After, Before, KeyInserters
    <3> QED BY <3>1, <3>2
  <2>6. Cardinality(After) + 1 <= Cardinality(Before)
    BY <1>6, <2>2, <2>5, SetWithout
  <2>7. \A u \in New : u \in Old \/ u = request[h].user
    <3> TAKE u \in New
    <3>1. PICK p : p = <<key, u>>
      OBVIOUS
    <3>2. p \in providers \/ p = <<request[h].key, request[h].user>>
      BY <1>2, <2>1, <3>1 DEF InsertKey
    <3> QED BY <1>2, <3>1, <3>2
  <2>8. Cardinality(New) \in Nat /\ Cardinality(New) <= Cardinality(Old) + 1
    BY <1>7, <2>7, SetWith
  <2> QED BY <1>3, <1>6, <1>7, <2>6, <2>8 DEF New, After
<1>9. CASE ~\E h \in Handler : InsertKey(h) /\ request[h].key = key
  <2>1. \A u \in New : u \in Old
    BY <1>5, <1>9
  <2>2. Cardinality(New) \in Nat /\ Cardinality(New) <= Cardinality(Old)
    BY <1>7, <2>1, SmallerSet
  <2>3. CASE Old = {}
    <3>1. Cardinality(Old) = 0
      BY <2>3, FS_EmptySet
    <3> QED BY <1>6, <2>2, <3>1 DEF New, After
  <2>4. CASE Old # {}
    <3>1. Cardinality(After) <= Cardinality(Before)
      BY <1>4, <1>6, <2>4, SmallerSet
    <3> QED BY <1>3, <1>6, <1>7, <2>2, <3>1 DEF New, After
  <2> QED BY <2>3, <2>4
<1> QED BY <1>8, <1>9


\* The requests that are about to insert an account with an e-mail: a step adds
\* one only while no stored account has it.
LEMMA UserInsertersAfter ==
  ASSUME TablesInv, AccountsNext, NEW email
  PROVE  \/ \A g \in UserInserters(email)' : g \in UserInserters(email)
         \/ \E h \in Handler : /\ request[h].pc = "none" /\ UNCHANGED tables
                              /\ EmailFree(email)
                              /\ \A g \in Handler : g # h => request'[g] = request[g]
<1>0. request \in [Handler -> Request]
  BY DEF TablesInv, AccountsTypeOK
<1>1. ASSUME NEW h \in Handler, StartsRequest(h)
      PROVE  \/ \A g \in UserInserters(email)' : g \in UserInserters(email)
             \/ /\ request[h].pc = "none" /\ UNCHANGED tables
                /\ EmailFree(email)
                /\ \A g \in Handler : g # h => request'[g] = request[g]
  <2>1. PICK r \in Request : request' = [request EXCEPT ![h] = r] /\ StartOf(r)
    BY <1>1, StartForms
  <2>2. \A f \in Handler : request'[f] = IF f = h THEN r ELSE request[f]
    BY <1>0, <2>1
  <2>3. CASE r.pc = "insertUser" /\ r.entity.email = email
    <3>1. EmailFree(email)
      BY <2>1, <2>3 DEF StartOf
    <3>2. \A g \in Handler : g # h => request'[g] = request[g]
      BY <2>2
    <3> QED BY <1>1, <3>1, <3>2, StartForms
  <2>4. CASE ~(r.pc = "insertUser" /\ r.entity.email = email)
    BY <2>2, <2>4 DEF UserInserters
  <2> QED BY <2>3, <2>4
<1>2. ASSUME NEW h \in Handler, LastQuery(h) \/ NextQuery(h) \/ Unasked
      PROVE  \A g \in UserInserters(email)' : g \in UserInserters(email)
  <2>1. Continues(h)
    BY <1>2, LastQueryContinues, NextQueryContinues, UnaskedContinues
  <2> QED BY <2>1 DEF Continues, UserInserters
<1>3. CASE Crash
  <2>1. \A g \in Handler : request'[g].pc = "none"
    BY <1>3, NoRequestType DEF Crash
  <2> QED BY <2>1 DEF UserInserters
<1>4. CASE Handler = {}
  BY <1>4 DEF UserInserters
<1> QED BY <1>1, <1>2, <1>3, <1>4, NextForms

\* The owners of an e-mail: a step adds none but the account it inserts.
LEMMA OwnersAfter ==
  ASSUME TablesInv, AccountsNext, NEW email \in Email
  PROVE  \A u \in Owners(email)' :
           \/ u \in Owners(email)
           \/ \E h \in Handler : /\ InsertUser(h) /\ request[h].entity.email = email
                                /\ u = Len(users) + 1
<1>1. /\ request \in [Handler -> Request] /\ ServesInv /\ RowsInv /\ email # NoEmail
      /\ \A g \in Handler : request[g].pc \in Saves => request[g].user \in Id
  BY AccountsAssumption DEF TablesInv, AccountsTypeOK, ServesInv, Fits, Saves, OfUser
<1>2. /\ \A u \in Id : users[u].email = email => u \in Owners(email)
      /\ \A g \in Handler : request[g].pc \in Saves /\ request[g].entity.email = email
           => request[g].user \in Owners(email)
  BY <1>1 DEF Owners, Saving, RowsInv
<1> SUFFICES ASSUME NEW u \in Id',
                    \/ users'[u].live /\ users'[u].email = email
                    \/ \E g \in Handler : /\ request'[g].pc \in Saves /\ request'[g].user = u
                                         /\ request'[g].entity.email = email,
                    u \notin Owners(email)
             PROVE  \E h \in Handler : /\ InsertUser(h) /\ request[h].entity.email = email
                                      /\ u = Len(users) + 1
  BY DEF Owners, Saving
<1>3. ASSUME NEW h \in Handler, StartsRequest(h) PROVE FALSE
  <2>1. PICK r \in Request : request' = [request EXCEPT ![h] = r] /\ StartOf(r)
    BY <1>3, StartForms
  <2>2. \A f \in Handler : request'[f] = IF f = h THEN r ELSE request[f]
    BY <1>1, <2>1
  <2>3. users' = users /\ u \in Id
    BY <1>3, StartForms DEF tables, Id
  <2>4. r.pc \in Saves => r.user \in Id /\ r.entity.email = users[r.user].email
    BY <2>1 DEF StartOf, Saves, Live
  <2> QED BY <1>2, <2>2, <2>3, <2>4
<1>4. ASSUME NEW h \in Handler, LastQuery(h) \/ NextQuery(h)
      PROVE  \E f \in Handler : /\ InsertUser(f) /\ request[f].entity.email = email
                               /\ u = Len(users) + 1
  <2>1. \A g \in Handler : request'[g].pc \in Saves => request'[g] = request[g]
    BY <1>4, LastQueryContinues, NextQueryContinues DEF Continues
  <2>2. users'[u].live /\ users'[u].email = email
    BY <1>2, <2>1
  <2>3. u \notin Id
    BY <1>1, <1>2, <1>4, <2>2, RowsAfter
  <2>4. PICK f \in Handler : InsertUser(f) \/ InsertKeyUser(f)
    BY <2>3, IdsGrow
  <2>5. /\ u = Len(users) + 1
        /\ users'[u] = IF InsertUser(f) THEN request[f].entity ELSE KeyUser
    BY <2>3, <2>4, UserAdded
  <2> QED BY <1>1, <2>2, <2>5, KeyUserType
<1>5. CASE Unasked \/ Crash
  <2>1. \A g \in Handler : request'[g].pc \in Saves => request'[g] = request[g]
    BY <1>5, NoRequestType, UnaskedContinues DEF Crash, Saves
  <2>2. u \in Id /\ (users'[u] = users[u] \/ users'[u] = Deleted)
    BY <1>5, RowsUnasked
  <2> QED BY <1>1, <1>2, <2>1, <2>2, DeletedType
<1> QED BY <1>3, <1>4, <1>5, NextForms

\* An e-mail that is free is owned by users only whom requests will save again.
LEMMA FreeOwners ==
  ASSUME TablesInv, NEW email, EmailFree(email)
  PROVE  LET S == {g \in Handler : /\ request[g].pc \in Saves
                                   /\ request[g].entity.email = email}
         IN  Cardinality(Owners(email)) \in Nat /\ Cardinality(Owners(email)) <= Cardinality(S)
<1> DEFINE S == {g \in Handler : request[g].pc \in Saves /\ request[g].entity.email = email}
           f == [g \in S |-> request[g].user]
           T == {f[g] : g \in S}
<1>1. \A u \in Owners(email) : u \in T
  <2> SUFFICES ASSUME NEW u \in Owners(email) PROVE u \in T
    OBVIOUS
  <2>1. ~(users[u].live /\ users[u].email = email)
    BY DEF EmailFree, WithEmail, Live, Owners
  <2>2. PICK g \in Handler : /\ request[g].pc \in Saves /\ request[g].user = u
                            /\ request[g].entity.email = email
    BY <2>1 DEF Owners, Saving
  <2> QED BY <2>2
<1>2. f \in Surjection(S, T)
  BY DEF Surjection
<1>3. IsFiniteSet(S) /\ Cardinality(S) \in Nat
  BY HandlerSets
<1> HIDE DEF T, f
<1>4. IsFiniteSet(T) /\ Cardinality(T) <= Cardinality(S)
  BY <1>2, <1>3, FS_Surjection
<1>5. /\ Cardinality(Owners(email)) \in Nat /\ Cardinality(T) \in Nat
      /\ Cardinality(Owners(email)) <= Cardinality(T)
  BY <1>1, <1>4, SmallerSet
<1> QED BY <1>3, <1>4, <1>5

LEMMA OwnersCountStep ==
  ASSUME TablesInv, OwnersCount, AccountsNext, TablesInv'
  PROVE  OwnersCount'
<1> SUFFICES ASSUME NEW email \in Email
             PROVE  Cardinality(Owners(email)') + Cardinality(UserInserters(email)')
                      <= Cardinality(Handler)
  BY DEF OwnersCount
<1>1. /\ request \in [Handler -> Request] /\ \A h \in Handler : request[h] \in Request
      /\ Len(users) \in Nat /\ Id = 1..Len(users)
  BY TablesType DEF TablesInv, AccountsTypeOK
<1> DEFINE Before == UserInserters(email)
           After == UserInserters(email)'
           Old == Owners(email)
           New == Owners(email)'
<1>2. /\ \A g \in Before : g \in Handler
      /\ \A g \in After : g \in Handler /\ request'[g].pc = "insertUser"
      /\ \A g \in Handler : request[g].pc = "insertUser" /\ request[g].entity.email = email
                              => g \in Before
      /\ \A u \in Old : u \in Id
  BY DEF UserInserters, Owners
<1>3. Cardinality(Old) + Cardinality(Before) <= Cardinality(Handler)
  BY DEF OwnersCount
<1>4. \/ \A g \in After : g \in Before
      \/ \E h \in Handler : /\ request[h].pc = "none" /\ UNCHANGED tables
                           /\ EmailFree(email)
                           /\ \A g \in Handler : g # h => request'[g] = request[g]
  BY UserInsertersAfter
<1>5. \A u \in New : \/ u \in Old
                    \/ \E h \in Handler : /\ InsertUser(h) /\ request[h].entity.email = email
                                         /\ u = Len(users) + 1
  BY OwnersAfter
<1> HIDE DEF Before, After, Old, New
<1>6. /\ IsFiniteSet(Before) /\ Cardinality(Before) \in Nat /\ Cardinality(Handler) \in Nat
      /\ IsFiniteSet(After) /\ Cardinality(After) \in Nat
      /\ Cardinality(After) <= Cardinality(Handler)
  BY <1>2, HandlerSets
<1>7. IsFiniteSet(Old) /\ Cardinality(Old) \in Nat
  <2>1. Old \subseteq 1..Len(users)
    BY <1>1, <1>2
  <2>2. IsFiniteSet(1..Len(users))
    BY <1>1, FS_Interval
  <2> QED BY <2>1, <2>2, FS_Subset, FS_CardinalityType
<1>8. CASE \E h \in Handler : InsertUser(h) /\ request[h].entity.email = email
  <2>1. PICK h \in Handler : InsertUser(h) /\ request[h].entity.email = email
    BY <1>8
  <2>2. request[h].pc = "insertUser" /\ h \in Before
    BY <1>2, <2>1 DEF InsertUser, Waits
  <2>3. request'[h].pc # "insertUser"
    BY <1>1, <2>1, NoRequestType DEF InsertUser, Ends, NoRequest
  <2>4. \A g \in Handler : g # h => request'[g] = request[g]
    BY <1>1, <2>1 DEF InsertUser, Ends
  <2>5. \A g \in After : g \in Before /\ g # h
    <3>1. \A g \in After : g # h
      BY <1>2, <2>3
    <3>2. \A g \in After : g \in Before
      BY <2>4, <3>1 DEF After, Before, UserInserters
    <3> QED BY <3>1, <3>2
  <2>6. Cardinality(After) + 1 <= Cardinality(Before)
    BY <1>6, <2>2, <2>5, SetWithout
  <2>7. \A u \in New : u \in Old \/ u = Len(users) + 1
    BY <1>5
  <2>8. Cardinality(New) \in Nat /\ Cardinality(New) <= Cardinality(Old) + 1
    BY <1>7, <2>7, SetWith
  <2> QED BY <1>3, <1>6, <1>7, <2>6, <2>8 DEF New, After
<1>9. CASE ~\E h \in Handler : InsertUser(h) /\ request[h].entity.email = email
  <2>1. \A u \in New : u \in Old
    BY <1>5, <1>9
  <2>2. Cardinality(New) \in Nat /\ Cardinality(New) <= Cardinality(Old)
    BY <1>7, <2>1, SmallerSet
  <2>3. CASE \A g \in After : g \in Before
    <3>1. Cardinality(After) <= Cardinality(Before)
      BY <1>6, <2>3, SmallerSet
    <3> QED BY <1>3, <1>6, <1>7, <2>2, <3>1 DEF New, After
  <2>4. ASSUME NEW h \in Handler, request[h].pc = "none", EmailFree(email),
               \A g \in Handler : g # h => request'[g] = request[g]
        PROVE  Cardinality(New) + Cardinality(After) <= Cardinality(Handler)
    <3> DEFINE S == {g \in Handler : /\ request[g].pc \in Saves
                                     /\ request[g].entity.email = email}
    <3>1. Cardinality(Old) <= Cardinality(S)
      BY <2>4, FreeOwners DEF Old
    <3>2. ASSUME NEW g \in S, g \in After PROVE FALSE
      <4>1. request'[g] = request[g] /\ request[g].pc \in Saves
        BY <2>4 DEF Saves
      <4> QED BY <1>2, <3>2, <4>1 DEF Saves
    <3>3. IsFiniteSet(S) /\ Cardinality(S) \in Nat /\ \A g \in S : g \in Handler
      BY HandlerSets
    <3> HIDE DEF S
    <3>4. S \cap After = {} /\ \A g \in S \cup After : g \in Handler
      BY <1>2, <3>2, <3>3
    <3>5. Cardinality(S \cup After) = Cardinality(S) + Cardinality(After)
      <4>1. Cardinality(S \cup After)
              = Cardinality(S) + Cardinality(After) - Cardinality(S \cap After)
        BY <1>6, <3>3, FS_Union
      <4>2. Cardinality(S \cap After) = 0
        BY <3>4, FS_EmptySet
      <4> QED BY <1>6, <3>3, <4>1, <4>2
    <3>6. Cardinality(S \cup After) <= Cardinality(Handler)
      BY <3>4, HandlerSets
    <3> QED BY <1>6, <1>7, <2>2, <3>1, <3>3, <3>5, <3>6
  <2> QED BY <1>4, <2>3, <2>4 DEF New, After
<1> QED BY <1>8, <1>9

LEMMA AccountsCountInit == AccountsInit => ProvidersLive /\ OwnersCount /\ KeysCount
<1> SUFFICES ASSUME AccountsInit PROVE ProvidersLive /\ OwnersCount /\ KeysCount
  OBVIOUS
<1>1. \A h \in Handler : request[h].pc = "none"
  BY NoRequestType DEF AccountsInit
<1>2. Cardinality({}) = 0 /\ Cardinality(Handler) \in Nat
  BY FS_EmptySet, AccountsAssumption, FS_CardinalityType
<1>3. providers = {} /\ Id = {}
  BY DEF AccountsInit, Id
<1>4. OwnersCount
  <2> SUFFICES ASSUME NEW email \in Email
               PROVE  Cardinality(Owners(email)) + Cardinality(UserInserters(email))
                        <= Cardinality(Handler)
    BY DEF OwnersCount
  <2>1. Owners(email) = {} /\ UserInserters(email) = {}
    BY <1>1, <1>3 DEF Owners, UserInserters
  <2> QED BY <1>2, <2>1
<1>5. KeysCount
  <2> SUFFICES ASSUME NEW key \in Key
               PROVE  Cardinality(WithKey(key)) + Cardinality(KeyInserters(key))
                        <= Cardinality(Handler)
    BY DEF KeysCount
  <2>1. WithKey(key) = {} /\ KeyInserters(key) = {}
    BY <1>1, <1>3 DEF WithKey, Live, KeyInserters
  <2> QED BY <1>2, <2>1
<1> QED BY <1>3, <1>4, <1>5 DEF ProvidersLive

LEMMA AccountsCountStep ==
  TablesInv /\ TablesInv' /\ ProvidersLive /\ OwnersCount /\ KeysCount /\ [AccountsNext]_vars
    => ProvidersLive' /\ OwnersCount' /\ KeysCount'
<1> SUFFICES ASSUME TablesInv, TablesInv', ProvidersLive, OwnersCount, KeysCount,
                    [AccountsNext]_vars
             PROVE  ProvidersLive' /\ OwnersCount' /\ KeysCount'
  OBVIOUS
<1>1. CASE AccountsNext
  BY <1>1, ProvidersLiveStep, OwnersCountStep, KeysCountStep
<1>2. CASE UNCHANGED vars
  <2>1. UNCHANGED <<users, providers, request>>
    BY <1>2 DEF vars, tables
  <2>2. ProvidersLive' /\ KeysCount'
    BY <2>1 DEF ProvidersLive, KeysCount, WithKey, KeyInserters, Live, Id
  <2>3. OwnersCount'
    BY <2>1 DEF OwnersCount, Owners, UserInserters, Saving, Id
  <2> QED BY <2>2, <2>3
<1> QED BY <1>1, <1>2

LEMMA AccountsCountAlways == AccountsSpec => [](OwnersCount /\ KeysCount)
<1>1. AccountsSpec => [](ProvidersLive /\ OwnersCount /\ KeysCount)
  BY TablesInvAlways, AccountsCountInit, AccountsCountStep, PTL DEF AccountsSpec
<1> QED BY <1>1, PTL

\* "Find, then insert" leaves no more accounts of an e-mail, and no more of a VK
\* key, than requests can race, although a save that races a deletion brings an
\* account back (lines 214-235 and 251-273; setRole, line 187).
THEOREM AccountsBounded == AccountsSpec => []AccountsBoundInv
<1>1. TablesInv /\ OwnersCount /\ KeysCount => AccountsBoundInv
  <2> SUFFICES ASSUME TablesInv, OwnersCount, KeysCount PROVE AccountsBoundInv
    OBVIOUS
  <2>1. Cardinality(Handler) \in Nat /\ IsFiniteSet(Id)
    <3>1. Len(users) \in Nat /\ Id = 1..Len(users)
      BY TablesType DEF TablesInv
    <3> QED BY <3>1, AccountsAssumption, FS_CardinalityType, FS_Interval
  <2>2. ASSUME NEW email \in Email
        PROVE  Cardinality(WithEmail(email)) <= Cardinality(Handler)
    <3>1. \A u \in WithEmail(email) : u \in Owners(email)
      BY DEF WithEmail, Owners, Live
    <3>2. Owners(email) \subseteq Id
      BY DEF Owners
    <3>3. IsFiniteSet(Owners(email))
      BY <2>1, <3>2, FS_Subset
    <3>4. /\ Cardinality(WithEmail(email)) \in Nat /\ Cardinality(Owners(email)) \in Nat
          /\ Cardinality(WithEmail(email)) <= Cardinality(Owners(email))
      BY <3>1, <3>3, SmallerSet
    <3>5. Cardinality(UserInserters(email)) \in Nat
      BY HandlerSets DEF UserInserters
    <3> QED BY <2>1, <3>4, <3>5 DEF OwnersCount
  <2>3. ASSUME NEW key \in Key PROVE Cardinality(WithKey(key)) <= Cardinality(Handler)
    <3>1. Cardinality(WithKey(key)) \in Nat
      BY <2>1, SmallerSet DEF WithKey, Live
    <3>2. Cardinality(KeyInserters(key)) \in Nat
      BY HandlerSets DEF KeyInserters
    <3> QED BY <2>1, <3>1, <3>2 DEF KeysCount
  <2> QED BY <2>2, <2>3 DEF AccountsBoundInv
<1> QED BY <1>1, TablesInvAlways, AccountsCountAlways, PTL


=============================================================================
