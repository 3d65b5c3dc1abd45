------------------------------ MODULE Accounts ------------------------------
(***************************************************************************)
(* POST /register and POST /login (handler/routes.go), the table users     *)
(* (db/store.go), the tokens both hand out (service/token.go), and the     *)
(* middleware that admits requests to /jobs by them                        *)
(* (middleware/jwt_auth.go), for requests that run at the same time.       *)
(*                                                                         *)
(* email and username are both UNIQUE, and a user name that is not sent is *)
(* the e-mail address.  The row is committed before the tokens are signed. *)
(* Rows are neither changed nor deleted.                                   *)
(***************************************************************************)
EXTENDS Integers

CONSTANTS
  Requests,    \* goroutines serving /register and /login
  Emails,
  Nicknames,   \* user names that are no e-mail addresses
  Passwords,   \* of at most 72 bytes
  LongOnes,    \* longer passwords, ...
  Beginning,   \* ... and of each its first 72 bytes
  Missing,     \* a field that is empty or not sent
  Ids,
  NoRow, NoBody, NoId, NoPair, NoSession,
  AccessTTL,   \* 15 minutes
  RefreshTTL,  \* 7 days
  MaxClock,    \* bound: the last second
  Faults

Names  == Emails \cup Nicknames
Rows   == [email : Emails, username : Names, password : Passwords]
Bodies == [email : Emails \cup {Missing}, username : Names \cup {Missing},
           password : Passwords \cup LongOnes \cup {Missing}]
Tokens == [sub : Ids, exp : Nat]

\*   dbError        a statement fails
\*   insertUnknown  an INSERT takes effect but nobody learns that it did
\*   cut            a handler ends before it has signed both tokens
ASSUME AccountsAssumption ==
  /\ Beginning \in [LongOnes -> Passwords]
  /\ LongOnes \cap Passwords = {}
  /\ Missing \notin Emails \cup Nicknames \cup Passwords \cup LongOnes
  /\ NoRow \notin Rows
  /\ {AccessTTL, RefreshTTL} \subseteq Nat \ {0}
  /\ AccessTTL <= RefreshTTL
  /\ MaxClock \in Nat
  /\ Faults \subseteq {"dbError", "insertUnknown", "cut"}

VARIABLES
  users,     \* [Ids -> Rows \cup {NoRow}]
  clock,     \* Nat
  phase,     \* [Requests -> RequestPhase]
  body,      \* [Requests -> Bodies \cup {NoBody}]
  subject,   \* [Requests -> Ids \cup {NoId}]: whom its tokens are for
  reply,     \* [Requests -> Replies]; 500 is also no answer at all
  wallet,    \* [Emails -> the last pair of tokens its client was given]
  session,   \* the request to /jobs admitted just now, if any
  told,      \* history, SUBSET (Emails \X Ids): user ids in answers
  rightful,  \* history, SUBSET Requests: logins with the password of a
             \* registered address, none of whose steps failed
  clear      \* history, SUBSET Requests: registrations whose address and
             \* name nobody has or took meanwhile, none of whose steps failed

locals  == <<phase, body, subject>>
history == <<told, rightful, clear>>
vars    == <<users, clock, locals, reply, wallet, session, history>>

RequestPhase == {"idle", "inserting", "reading", "registered", "matched"}
Replies      == {"none", "200", "201", "400", "401", "500"}
Pairs        == [access : Tokens, refresh : Tokens, at : Nat]
Sessions     == [email : Emails, user : Ids, age : Nat]

TypeOK ==
  /\ users \in [Ids -> Rows \cup {NoRow}]
  /\ clock \in Nat
  /\ phase \in [Requests -> RequestPhase]
  /\ body \in [Requests -> Bodies \cup {NoBody}]
  /\ subject \in [Requests -> Ids \cup {NoId}]
  /\ reply \in [Requests -> Replies]
  /\ wallet \in [Emails -> Pairs \cup {NoPair}]
  /\ session \in Sessions \cup {NoSession}
  /\ told \in SUBSET (Emails \X Ids)
  /\ rightful \in SUBSET Requests
  /\ clear \in SUBSET Requests
  /\ \A r \in Requests :
       /\ phase[r] # "idle" => body[r] \in Bodies /\ body[r].email \in Emails
       /\ phase[r] \in {"registered", "matched"} => subject[r] \in Ids

Init ==
  /\ users = [i \in Ids |-> NoRow]
  /\ clock = 0
  /\ phase = [r \in Requests |-> "idle"]
  /\ body = [r \in Requests |-> NoBody]
  /\ subject = [r \in Requests |-> NoId]
  /\ reply = [r \in Requests |-> "none"]
  /\ wallet = [e \in Emails |-> NoPair]
  /\ session = NoSession
  /\ told = {}
  /\ rightful = {}
  /\ clear = {}

-----------------------------------------------------------------------------
(* Helpers *)

Registered == {i \in Ids : users[i] # NoRow}

Reply(r, status) ==
  /\ reply' = [reply EXCEPT ![r] = status]
  /\ phase' = [phase EXCEPT ![r] = "idle"]
  /\ body' = [body EXCEPT ![r] = NoBody]
  /\ subject' = [subject EXCEPT ![r] = NoId]
  /\ session' = NoSession

\* A step of r fails: it is promised nothing any more.
Unlucky(r) == rightful' = rightful \ {r} /\ clear' = clear \ {r}

\* username defaults to the e-mail address.
Username(b) == IF b.username = Missing THEN b.email ELSE b.username

\* Variant: a name must not be an address either.
OverlapsCrosswise(row, b) ==
  {row.email, row.username} \cap {b.email, Username(b)} # {}

\* A row and a request that UNIQUE does not let both in.
Overlaps(row, b) == row.email = b.email \/ row.username = Username(b)

\* bcrypt compares 72 bytes.
ComparePassword(hashed, p) ==
  hashed = IF p \in LongOnes THEN Beginning[p] ELSE p

\* The fields that either handler asks for.
Complete(b) == b.email # Missing /\ b.password # Missing

\* "email and password are required", or the body is not JSON.
Refuse(r, b) ==
  /\ phase[r] = "idle"
  /\ ~ Complete(b)
  /\ Reply(r, "400")
  /\ Unlucky(r)
  /\ UNCHANGED <<users, clock, wallet, told>>

Accept(r, b, first) ==
  /\ phase[r] = "idle"
  /\ Complete(b)
  /\ phase' = [phase EXCEPT ![r] = first]
  /\ body' = [body EXCEPT ![r] = b]
  /\ reply' = [reply EXCEPT ![r] = "none"]
  /\ session' = NoSession
  /\ UNCHANGED <<users, clock, subject, wallet, told>>

-----------------------------------------------------------------------------
(* registerHandler *)

\* HashPassword takes at most 72 bytes.
RegisterTooLong(r, b) ==
  /\ phase[r] = "idle"
  /\ Complete(b)
  /\ b.password \in LongOnes
  /\ Reply(r, "500")
  /\ Unlucky(r)
  /\ UNCHANGED <<users, clock, wallet, told>>

Register(r, b) ==
  /\ b.password \in Passwords
  /\ Accept(r, b, "inserting")
  /\ rightful' = rightful \ {r}
  /\ clear' = IF \E i \in Registered :
                   \/ users[i].email = b.email
                   \/ users[i].username = Username(b)
              THEN clear \ {r} ELSE clear \cup {r}

\* CreateUser: the row of r, under a new id.
InsertRow(r, i) ==
  LET b == body[r] IN
  /\ phase[r] = "inserting"
  /\ users[i] = NoRow
  /\ \A k \in Registered : ~ Overlaps(users[k], b)
  /\ users' = [users EXCEPT ![i] = [email |-> b.email, username |-> Username(b),
                                    password |-> b.password]]

\* The registrations that r has come before.
Beaten(r) ==
  {s \in Requests \ {r} :
     /\ phase[s] = "inserting"
     /\ \/ body[s].email = body[r].email
        \/ Username(body[s]) = Username(body[r])}

CreateUser(r) ==
  /\ \E i \in Ids :
       /\ InsertRow(r, i)
       /\ subject' = [subject EXCEPT ![r] = i]
  /\ phase' = [phase EXCEPT ![r] = "registered"]
  /\ clear' = clear \ Beaten(r)
  /\ session' = NoSession
  /\ UNCHANGED <<clock, body, reply, wallet, told, rightful>>

\* The INSERT takes effect, but the handler sees an error.
CreateUserUnknown(r) ==
  /\ "insertUnknown" \in Faults
  /\ \E i \in Ids : InsertRow(r, i)
  /\ Reply(r, "500")
  /\ rightful' = rightful \ {r}
  /\ clear' = clear \ (Beaten(r) \cup {r})
  /\ UNCHANGED <<clock, wallet, told>>

\* Variant: a registered address is answered like a new one.
ConflictFindsUser(r) ==
  /\ phase[r] = "inserting"
  /\ \E i \in Registered :
       /\ Overlaps(users[i], body[r])
       /\ subject' = [subject EXCEPT ![r] = i]
  /\ phase' = [phase EXCEPT ![r] = "registered"]
  /\ session' = NoSession
  /\ UNCHANGED <<users, clock, body, reply, wallet, history>>

\* A UNIQUE column has the value already: "failed to create user".
CreateUserConflict(r) ==
  /\ phase[r] = "inserting"
  /\ \E i \in Registered : Overlaps(users[i], body[r])
  /\ Reply(r, "500")
  /\ UNCHANGED <<users, clock, wallet, history>>

-----------------------------------------------------------------------------
(* loginHandler *)

\* username is not read; it counts as missing.
Login(r, b) ==
  /\ b.username = Missing
  /\ Accept(r, b, "reading")
  /\ clear' = clear \ {r}
  /\ rightful' = IF \E i \in Registered :
                      /\ users[i].email = b.email
                      /\ ComparePassword(users[i].password, b.password)
                 THEN rightful \cup {r} ELSE rightful \ {r}

\* Variant: WHERE username = $1.
GetUserByName(e) == {i \in Registered : users[i].username = e}

\* WHERE email = $1
GetUserByEmail(e) == {i \in Registered : users[i].email = e}

LoginMatches(r) ==
  /\ phase[r] = "reading"
  /\ \E i \in GetUserByEmail(body[r].email) :
       /\ ComparePassword(users[i].password, body[r].password)
       /\ subject' = [subject EXCEPT ![r] = i]
  /\ phase' = [phase EXCEPT ![r] = "matched"]
  /\ session' = NoSession
  /\ UNCHANGED <<users, clock, body, reply, wallet, history>>

\* No such user, or another password: "invalid credentials".
LoginRejected(r) ==
  /\ phase[r] = "reading"
  /\ \A i \in GetUserByEmail(body[r].email) :
       ~ ComparePassword(users[i].password, body[r].password)
  /\ Reply(r, "401")
  /\ UNCHANGED <<users, clock, wallet, history>>

-----------------------------------------------------------------------------
(* Both handlers *)

\* GenerateAccessToken and GenerateRefreshToken differ in ttl and in an
\* e-mail claim that nobody reads.
GenerateToken(sub, ttl) == [sub |-> sub, exp |-> clock + ttl]

\* Both tokens are signed and sent.
SendTokens(r) ==
  LET e == body[r].email
      i == subject[r]
  IN
  /\ phase[r] \in {"registered", "matched"}
  /\ Reply(r, IF phase[r] = "registered" THEN "201" ELSE "200")
  /\ wallet' = [wallet EXCEPT ![e] = [access  |-> GenerateToken(i, AccessTTL),
                                      refresh |-> GenerateToken(i, RefreshTTL),
                                      at      |-> clock]]
  /\ told' = told \cup {<<e, i>>}
  /\ UNCHANGED <<users, clock, rightful, clear>>

\* The statement fails: /register answers 500, /login 401.
StatementFails(r) ==
  /\ "dbError" \in Faults
  /\ phase[r] \in {"inserting", "reading"}
  /\ Reply(r, IF phase[r] = "inserting" THEN "500" ELSE "401")
  /\ Unlucky(r)
  /\ UNCHANGED <<users, clock, wallet, told>>

\* A token cannot be signed, or the process ends.
Cut(r) ==
  /\ "cut" \in Faults
  /\ phase[r] \in {"registered", "matched"}
  /\ Reply(r, "500")
  /\ Unlucky(r)
  /\ UNCHANGED <<users, clock, wallet, told>>

-----------------------------------------------------------------------------
(* NewJWTAuth *)

\* Variant: exp is not looked at.
ValidateSignatureOnly(t) == t \in Tokens

\* jwt.ParseWithClaims, on a token this API has signed.
ValidateAccessToken(t) == clock < t.exp

\* A request to /jobs with a token of wallet[e]; getUserID is its subject.
Admit(e, kind) ==
  /\ wallet[e] # NoPair
  /\ ValidateAccessToken(wallet[e][kind])
  /\ session' = [email |-> e, user |-> wallet[e][kind].sub,
                 age |-> clock - wallet[e].at]
  /\ UNCHANGED <<users, clock, locals, reply, wallet, history>>

\* "invalid access token", 401; also if there is none.
Unauthorized(e, kind) ==
  /\ wallet[e] # NoPair => ~ ValidateAccessToken(wallet[e][kind])
  /\ session' = NoSession
  /\ UNCHANGED <<users, clock, locals, reply, wallet, history>>

Tick ==
  /\ clock < MaxClock
  /\ clock' = clock + 1
  /\ session' = NoSession
  /\ UNCHANGED <<users, locals, reply, wallet, history>>

Next ==
  \/ Tick
  \/ \E r \in Requests, b \in Bodies :
       Refuse(r, b) \/ RegisterTooLong(r, b) \/ Register(r, b) \/ Login(r, b)
  \/ \E r \in Requests :
       \/ CreateUser(r) \/ CreateUserUnknown(r) \/ CreateUserConflict(r)
       \/ LoginMatches(r) \/ LoginRejected(r)
       \/ SendTokens(r) \/ StatementFails(r) \/ Cut(r)
  \/ \E e \in Emails, kind \in {"access", "refresh"} :
       Admit(e, kind) \/ Unauthorized(e, kind)

Spec == Init /\ [][Next]_vars

-----------------------------------------------------------------------------
(* Properties *)

\* Whatever registrations and logins run at the same time, an address has one
\* row at most, and the answers to it name the user of that row (CreateUser
\* does not look before it inserts; the two UNIQUE columns decide).
OneAccountPerEmail ==
  /\ \A e \in Emails, i \in Ids :
       <<e, i>> \in told => users[i] # NoRow /\ users[i].email = e
  /\ \A i, j \in Registered : users[i].email = users[j].email => i = j

\* Who has registered can log in, also when the registration was answered
\* 500 because its tokens could not be signed or its INSERT seemed to fail,
\* and whatever user names others have taken.
RegisteredCanLogin ==
  \A r \in rightful : phase[r] = "idle" => reply[r] = "200"

\* A registration is refused only for its own address or name: if nobody has
\* either (a missing name is the address) and none of its steps fails, it is
\* answered 201, however many others run beside it.
FreshRegistrationSucceeds ==
  \A r \in clear : phase[r] = "idle" => reply[r] = "201"

\* An admitted request acts for the user registered under the address whose
\* password its client gave, at most RefreshTTL ago (NewJWTAuth takes
\* either token of a pair).
ServedWasProved ==
  session # NoSession =>
    /\ users[session.user] # NoRow
    /\ users[session.user].email = session.email
    /\ session.age < RefreshTTL
=============================================================================
