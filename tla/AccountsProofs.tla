--------------------------- MODULE AccountsProofs ---------------------------
(***************************************************************************)
(* Proofs about registration, login and tokens, for any number of          *)
(* requests, addresses, names and passwords.                               *)
(***************************************************************************)
EXTENDS Accounts, TLAPS

\* User i is registered under address e.
Has(i, e) == users[i] # NoRow /\ users[i].email = e

UniqueEmails ==
  \A i, j \in Ids : users[i] # NoRow /\ Has(j, users[i].email) => i = j

\* A request that will send tokens sends them for the user of its address,
\* and only a password that can be hashed is on its way into the table.
SubjectsAreTrue ==
  \A r \in Requests :
    /\ phase[r] = "inserting" => body[r].password \in Passwords
    /\ phase[r] \in {"registered", "matched"} => Has(subject[r], body[r].email)

\* The tokens that clients have.
TokensAreTrue ==
  \A e \in Emails :
    wallet[e] # NoPair =>
      /\ Has(wallet[e].access.sub, e) /\ Has(wallet[e].refresh.sub, e)
      /\ wallet[e].at <= clock
      /\ wallet[e].access.exp <= wallet[e].at + RefreshTTL
      /\ wallet[e].refresh.exp <= wallet[e].at + RefreshTTL

ToldIsTrue == \A e \in Emails, i \in Ids : <<e, i>> \in told => Has(i, e)

\* A rightful login is on its way to its row, or has been answered.
LoginsSucceed ==
  \A r \in rightful :
    /\ phase[r] \in {"idle", "reading", "matched"}
    /\ phase[r] = "idle" => reply[r] = "200"
    /\ phase[r] = "reading" =>
         \E i \in Ids : /\ Has(i, body[r].email)
                        /\ ComparePassword(users[i].password, body[r].password)

\* A clear registration meets no row that is in its way.
RegistrationsSucceed ==
  \A r \in clear :
    /\ phase[r] \in {"idle", "inserting", "registered"}
    /\ phase[r] = "idle" => reply[r] = "201"
    /\ phase[r] = "inserting" =>
         \A i \in Ids : users[i] # NoRow => ~ Overlaps(users[i], body[r])

Truth ==
  /\ UniqueEmails
  /\ SubjectsAreTrue
  /\ TokensAreTrue
  /\ ToldIsTrue
  /\ ServedWasProved

Inv ==
  /\ TypeOK
  /\ Truth
  /\ LoginsSucceed
  /\ RegistrationsSucceed

-----------------------------------------------------------------------------

\* The empty table satisfies the invariant.
LEMMA InitInv == Init => Inv
<1> SUFFICES ASSUME Init PROVE Inv
  OBVIOUS
<1>1. TypeOK
  BY DEF Init, TypeOK, RequestPhase, Replies
<1>2. Truth
  BY DEF Init, Truth, UniqueEmails, Has, SubjectsAreTrue, TokensAreTrue,
         ToldIsTrue, ServedWasProved
<1>3. LoginsSucceed /\ RegistrationsSucceed
  BY DEF Init, LoginsSucceed, RegistrationsSucceed
<1> QED
  BY <1>1, <1>2, <1>3 DEF Inv

\* A handler that ends without a promise, or with its promise kept.
LEMMA EndStep ==
  ASSUME Inv, NEW r \in Requests, NEW s \in Replies, Reply(r, s),
         UNCHANGED <<users, clock, wallet, told>>,
         rightful' \in SUBSET rightful, clear' \in SUBSET clear,
         r \in rightful' => s = "200", r \in clear' => s = "201"
  PROVE  Inv'
<1>1. /\ reply' = [reply EXCEPT ![r] = s]
      /\ phase' = [phase EXCEPT ![r] = "idle"]
      /\ body' = [body EXCEPT ![r] = NoBody]
      /\ subject' = [subject EXCEPT ![r] = NoId]
      /\ session' = NoSession
  BY DEF Reply
<1> USE <1>1 DEF Inv
<1>2. TypeOK'
  BY DEF TypeOK, RequestPhase
<1>3. Truth'
  BY DEF TypeOK, Truth, UniqueEmails, Has, SubjectsAreTrue, TokensAreTrue,
         ToldIsTrue, ServedWasProved
<1>4. LoginsSucceed'
  BY DEF TypeOK, LoginsSucceed, Has
<1>5. RegistrationsSucceed'
  BY DEF TypeOK, RegistrationsSucceed
<1> QED
  BY <1>2, <1>3, <1>4, <1>5

\* A handler begins.
LEMMA AcceptStep ==
  ASSUME Inv, NEW r \in Requests, NEW b \in Bodies,
         Register(r, b) \/ Login(r, b)
  PROVE  Inv'
<1>1. PICK f \in {"inserting", "reading"} :
        /\ f = "inserting" <=> Register(r, b)
        /\ f = "reading" => Login(r, b)
        /\ phase' = [phase EXCEPT ![r] = f]
        /\ body' = [body EXCEPT ![r] = b]
        /\ reply' = [reply EXCEPT ![r] = "none"]
        /\ b.email \in Emails
        /\ session' = NoSession
        /\ UNCHANGED <<users, clock, subject, wallet, told>>
  BY DEF Register, Login, Accept, Complete, Bodies, Inv, TypeOK
<1> USE <1>1 DEF Inv
<1>2. TypeOK'
  BY DEF TypeOK, RequestPhase, Replies, Register, Login
<1>3. Truth'
  BY DEF TypeOK, Truth, UniqueEmails, Has, SubjectsAreTrue, TokensAreTrue,
         ToldIsTrue, ServedWasProved, Register
<1>4. LoginsSucceed'
  BY DEF TypeOK, LoginsSucceed, Has, Register, Login, Registered
<1>5. RegistrationsSucceed'
  BY DEF TypeOK, RegistrationsSucceed, Register, Login, Registered, Overlaps
<1> QED
  BY <1>2, <1>3, <1>4, <1>5

\* An INSERT that the UNIQUE columns let through: the new row disturbs neither
\* the truths about other rows nor, except for those it beats, anybody's way.
LEMMA InsertKeeps ==
  ASSUME Inv, NEW r \in Requests, NEW i \in Ids, InsertRow(r, i)
  PROVE  /\ users' \in [Ids -> Rows \cup {NoRow}]
         /\ users'[i] # NoRow /\ users'[i].email = body[r].email
         /\ \A k \in Ids : users[k] # NoRow => users'[k] = users[k]
         /\ \A k \in Ids : k # i => users'[k] = users[k]
         /\ UniqueEmails'
         /\ \A s \in clear \ (Beaten(r) \cup {r}) :
              phase[s] = "inserting" =>
                \A k \in Ids : users'[k] # NoRow => ~ Overlaps(users'[k], body[s])
<1> DEFINE b   == body[r]
           new == [email |-> b.email, username |-> Username(b),
                   password |-> b.password]
<1>1. b \in Bodies /\ b.email \in Emails /\ b.password \in Passwords
  BY DEF InsertRow, Inv, TypeOK, Truth, SubjectsAreTrue
<1>2. Username(b) \in Names
  BY <1>1 DEF Username, Bodies, Names
<1>3. new \in Rows /\ new # NoRow
  BY <1>1, <1>2, AccountsAssumption DEF Rows
<1>4. users' = [users EXCEPT ![i] = new] /\ users[i] = NoRow
      /\ \A k \in Ids : users[k] # NoRow => ~ Overlaps(users[k], b)
  BY DEF InsertRow, Registered
<1>5. /\ users' \in [Ids -> Rows \cup {NoRow}]
      /\ users'[i] = new
      /\ \A k \in Ids : users[k] # NoRow => users'[k] = users[k]
      /\ \A k \in Ids : k # i => users'[k] = users[k]
  BY <1>3, <1>4 DEF Inv, TypeOK
<1>6. UniqueEmails'
  BY <1>3, <1>4, <1>5 DEF Inv, Truth, UniqueEmails, Has, Overlaps
<1>7. ASSUME NEW s \in clear \ (Beaten(r) \cup {r}), phase[s] = "inserting",
             NEW k \in Ids, users'[k] # NoRow
      PROVE  ~ Overlaps(users'[k], body[s])
  <2>1. CASE k # i
    BY <1>5, <1>7, <2>1 DEF Inv, RegistrationsSucceed
  <2>2. CASE k = i
    BY <1>5, <1>7, <2>2 DEF Overlaps, Beaten, Inv, TypeOK
  <2> QED
    BY <2>1, <2>2
<1> QED
  BY <1>3, <1>5, <1>6, <1>7

\* What was true of the rows before stays true when rows are added.
LEMMA RowsAdded ==
  ASSUME Inv, \A k \in Ids : users[k] # NoRow => users'[k] = users[k],
         UNCHANGED <<clock, wallet, told>>
  PROVE  /\ \A i \in Ids, e \in Emails : Has(i, e) => Has(i, e)'
         /\ TokensAreTrue' /\ ToldIsTrue'
<1>1. \A i \in Ids, e \in Emails : Has(i, e) => Has(i, e)'
  BY DEF Has
<1>2. TokensAreTrue'
  BY <1>1 DEF Inv, TypeOK, Pairs, Tokens, Truth, TokensAreTrue
<1>3. ToldIsTrue'
  BY <1>1 DEF Inv, Truth, ToldIsTrue
<1> QED
  BY <1>1, <1>2, <1>3

\* A user is created.
LEMMA CreateStep ==
  ASSUME Inv, NEW r \in Requests, CreateUser(r) \/ CreateUserUnknown(r)
  PROVE  Inv'
<1>1. PICK i \in Ids :
        /\ InsertRow(r, i)
        /\ CreateUser(r) => subject' = [subject EXCEPT ![r] = i]
  BY DEF CreateUser, CreateUserUnknown
<1>2. /\ phase[r] = "inserting"
      /\ UNCHANGED <<clock, wallet, told>> /\ session' = NoSession
  BY <1>1 DEF InsertRow, CreateUser, CreateUserUnknown, Reply
<1>3. r \notin rightful
  BY <1>2 DEF Inv, LoginsSucceed
<1>4. /\ users' \in [Ids -> Rows \cup {NoRow}]
      /\ users'[i] # NoRow /\ users'[i].email = body[r].email
      /\ \A k \in Ids : users[k] # NoRow => users'[k] = users[k]
      /\ UniqueEmails'
      /\ \A s \in clear \ (Beaten(r) \cup {r}) :
           phase[s] = "inserting" =>
             \A k \in Ids : users'[k] # NoRow => ~ Overlaps(users'[k], body[s])
  BY <1>1, InsertKeeps
<1>5. \A j \in Ids, e \in Emails : Has(j, e) => Has(j, e)'
  BY <1>2, <1>4, RowsAdded
<1>6. TokensAreTrue' /\ ToldIsTrue' /\ ServedWasProved'
  BY <1>2, <1>4, RowsAdded DEF ServedWasProved
<1>7. CASE CreateUser(r)
  <2>1. /\ phase' = [phase EXCEPT ![r] = "registered"]
        /\ subject' = [subject EXCEPT ![r] = i]
        /\ clear' = clear \ Beaten(r)
        /\ UNCHANGED <<body, reply, rightful>>
    BY <1>1, <1>7 DEF CreateUser
  <2>2. TypeOK'
    BY <1>2, <1>4, <2>1 DEF Inv, TypeOK, RequestPhase
  <2>3. SubjectsAreTrue'
    BY <1>2, <1>4, <1>5, <2>1 DEF Inv, TypeOK, Truth, SubjectsAreTrue, Has
  <2>4. LoginsSucceed'
    BY <1>3, <1>4, <2>1 DEF Inv, TypeOK, LoginsSucceed, Has
  <2>5. RegistrationsSucceed'
    BY <1>4, <2>1 DEF Inv, TypeOK, RegistrationsSucceed
  <2> QED
    BY <1>4, <1>6, <2>2, <2>3, <2>4, <2>5 DEF Inv, Truth
<1>8. CASE CreateUserUnknown(r)
  <2>1. /\ phase' = [phase EXCEPT ![r] = "idle"]
        /\ subject' = [subject EXCEPT ![r] = NoId]
        /\ body' = [body EXCEPT ![r] = NoBody]
        /\ reply' = [reply EXCEPT ![r] = "500"]
        /\ clear' = clear \ (Beaten(r) \cup {r})
        /\ rightful' = rightful \ {r}
    BY <1>8 DEF CreateUserUnknown, Reply
  <2>2. TypeOK'
    BY <1>2, <1>4, <2>1 DEF Inv, TypeOK, RequestPhase, Replies
  <2>3. SubjectsAreTrue'
    BY <1>5, <2>1 DEF Inv, TypeOK, Truth, SubjectsAreTrue
  <2>4. LoginsSucceed'
    BY <1>4, <2>1 DEF Inv, TypeOK, LoginsSucceed, Has
  <2>5. RegistrationsSucceed'
    BY <1>4, <2>1 DEF Inv, TypeOK, RegistrationsSucceed
  <2> QED
    BY <1>4, <1>6, <2>2, <2>3, <2>4, <2>5 DEF Inv, Truth
<1> QED
  BY <1>7, <1>8

\* A login has found its row.
LEMMA MatchStep ==
  ASSUME Inv, NEW r \in Requests, LoginMatches(r)
  PROVE  Inv'
<1>1. PICK i \in Ids :
        /\ Has(i, body[r].email)
        /\ subject' = [subject EXCEPT ![r] = i]
        /\ phase[r] = "reading" /\ phase' = [phase EXCEPT ![r] = "matched"]
        /\ session' = NoSession
        /\ UNCHANGED <<users, clock, body, reply, wallet, told, rightful, clear>>
  BY DEF LoginMatches, GetUserByEmail, Registered, Has, history
<1> USE <1>1 DEF Inv
<1>2. TypeOK'
  BY DEF TypeOK, RequestPhase
<1>3. Truth'
  BY DEF TypeOK, Truth, UniqueEmails, Has, SubjectsAreTrue, TokensAreTrue,
         ToldIsTrue, ServedWasProved
<1>4. LoginsSucceed'
  BY DEF TypeOK, LoginsSucceed, Has
<1>5. RegistrationsSucceed'
  BY DEF TypeOK, RegistrationsSucceed
<1> QED
  BY <1>2, <1>3, <1>4, <1>5

\* Tokens are handed out: the client's newest pair is true, and its life is
\* counted from now.
LEMMA SendStep ==
  ASSUME Inv, NEW r \in Requests, SendTokens(r)
  PROVE  Inv'
<1> DEFINE e    == body[r].email
           i    == subject[r]
           pair == [access  |-> [sub |-> i, exp |-> clock + AccessTTL],
                    refresh |-> [sub |-> i, exp |-> clock + RefreshTTL],
                    at      |-> clock]
<1>1. /\ phase[r] \in {"registered", "matched"}
      /\ e \in Emails /\ i \in Ids /\ Has(i, e) /\ clock \in Nat
  BY DEF SendTokens, Inv, TypeOK, Truth, SubjectsAreTrue
<1>2. /\ wallet' = [wallet EXCEPT ![e] = pair]
      /\ told' = told \cup {<<e, i>>}
      /\ reply' = [reply EXCEPT ![r] = IF phase[r] = "registered" THEN "201"
                                       ELSE "200"]
      /\ phase' = [phase EXCEPT ![r] = "idle"]
      /\ body' = [body EXCEPT ![r] = NoBody]
      /\ subject' = [subject EXCEPT ![r] = NoId]
      /\ session' = NoSession
      /\ UNCHANGED <<users, clock, rightful, clear>>
  BY DEF SendTokens, Reply, GenerateToken
<1>3. pair \in Pairs /\ pair.at <= clock
      /\ pair.access.exp <= pair.at + RefreshTTL
      /\ pair.refresh.exp <= pair.at + RefreshTTL
  BY <1>1, AccountsAssumption DEF Pairs, Tokens
<1>4. TypeOK'
  <2>1. wallet' \in [Emails -> Pairs \cup {NoPair}]
        /\ told' \in SUBSET (Emails \X Ids)
    BY <1>1, <1>2, <1>3 DEF Inv, TypeOK
  <2> HIDE DEF pair, e, i
  <2> QED
    BY <1>2, <2>1 DEF Inv, TypeOK, RequestPhase, Replies
<1>5. TokensAreTrue'
  <2> SUFFICES ASSUME NEW d \in Emails, wallet'[d] # NoPair
               PROVE  /\ Has(wallet'[d].access.sub, d)
                      /\ Has(wallet'[d].refresh.sub, d)
                      /\ wallet'[d].at <= clock
                      /\ wallet'[d].access.exp <= wallet'[d].at + RefreshTTL
                      /\ wallet'[d].refresh.exp <= wallet'[d].at + RefreshTTL
    BY <1>2 DEF TokensAreTrue, Has
  <2>1. CASE d = e
    BY <1>1, <1>2, <1>3, <2>1 DEF Inv, TypeOK
  <2>2. CASE d # e
    BY <1>2, <2>2 DEF Inv, TypeOK, Truth, TokensAreTrue
  <2> QED
    BY <2>1, <2>2
<1> HIDE DEF pair
<1>6. UniqueEmails' /\ SubjectsAreTrue' /\ ToldIsTrue' /\ ServedWasProved'
  BY <1>1, <1>2 DEF Inv, TypeOK, Truth, UniqueEmails, SubjectsAreTrue,
     ToldIsTrue, ServedWasProved, Has
<1>7. LoginsSucceed'
  BY <1>1, <1>2 DEF Inv, TypeOK, LoginsSucceed, Has
<1>8. RegistrationsSucceed'
  BY <1>1, <1>2 DEF Inv, TypeOK, RegistrationsSucceed
<1> QED
  BY <1>4, <1>5, <1>6, <1>7, <1>8 DEF Inv, Truth

\* The middleware and the clock.
LEMMA OutsideStep ==
  ASSUME Inv,
         \/ Tick
         \/ \E e \in Emails, kind \in {"access", "refresh"} :
              Admit(e, kind) \/ Unauthorized(e, kind)
  PROVE  Inv'
<1>1. /\ UNCHANGED <<users, phase, body, subject, reply, wallet, told, rightful,
                     clear>>
      /\ clock' \in Nat /\ clock' >= clock
  BY DEF Tick, Admit, Unauthorized, locals, history, Inv, TypeOK
<1>2. session' \in Sessions \cup {NoSession} /\ ServedWasProved'
  <2>1. CASE Tick
    BY <2>1 DEF Tick, ServedWasProved
  <2>2. ASSUME NEW e \in Emails, NEW kind \in {"access", "refresh"},
               Unauthorized(e, kind)
        PROVE  session' = NoSession
    BY <2>2 DEF Unauthorized
  <2>3. ASSUME NEW e \in Emails, NEW kind \in {"access", "refresh"},
               Admit(e, kind)
        PROVE  session' \in Sessions /\ ServedWasProved'
    <3> DEFINE t == wallet[e][kind]
    <3>1. /\ wallet[e] \in Pairs /\ t \in Tokens /\ clock < t.exp
          /\ session' = [email |-> e, user |-> t.sub, age |-> clock - wallet[e].at]
      BY <2>3 DEF Admit, ValidateAccessToken, Inv, TypeOK, Pairs
    <3>2. /\ Has(t.sub, e) /\ wallet[e].at <= clock
          /\ t.exp <= wallet[e].at + RefreshTTL
      BY <2>3 DEF Admit, Inv, Truth, TokensAreTrue
    <3>3. /\ t.sub \in Ids /\ t.exp \in Nat /\ wallet[e].at \in Nat
          /\ clock \in Nat /\ RefreshTTL \in Nat
      BY <3>1, AccountsAssumption DEF Pairs, Tokens, Inv, TypeOK
    <3> HIDE DEF t
    <3>4. clock - wallet[e].at \in Nat /\ clock - wallet[e].at < RefreshTTL
      BY <3>1, <3>2, <3>3
    <3> QED
      BY <1>1, <3>1, <3>2, <3>3, <3>4 DEF Sessions, ServedWasProved, Has
  <2> QED
    BY <2>1, <2>2, <2>3 DEF Tick, ServedWasProved
<1>3. TypeOK'
  BY <1>1, <1>2 DEF Inv, TypeOK
<1>4. TokensAreTrue'
  BY <1>1 DEF Inv, TypeOK, Pairs, Tokens, Truth, TokensAreTrue, Has
<1>5. UniqueEmails' /\ SubjectsAreTrue' /\ ToldIsTrue'
  BY <1>1 DEF Inv, Truth, UniqueEmails, SubjectsAreTrue, ToldIsTrue, Has
<1>6. LoginsSucceed' /\ RegistrationsSucceed'
  BY <1>1 DEF Inv, LoginsSucceed, RegistrationsSucceed, Has
<1> QED
  BY <1>2, <1>3, <1>4, <1>5, <1>6 DEF Inv, Truth

\* Every step keeps the invariant.
LEMMA NextInv == Inv /\ [Next]_vars => Inv'
<1> SUFFICES ASSUME Inv, [Next]_vars PROVE Inv'
  OBVIOUS
<1>1. CASE UNCHANGED vars
  <2>1. UNCHANGED <<users, clock, phase, body, subject, reply, wallet, session,
                    told, rightful, clear>>
    BY <1>1 DEF vars, locals, history
  <2>2. TypeOK'
    BY <2>1 DEF Inv, TypeOK
  <2>3. Truth'
    BY <2>1 DEF Inv, Truth, UniqueEmails, Has, SubjectsAreTrue, TokensAreTrue,
       ToldIsTrue, ServedWasProved
  <2>4. LoginsSucceed' /\ RegistrationsSucceed'
    BY <2>1 DEF Inv, LoginsSucceed, RegistrationsSucceed, Has
  <2> QED
    BY <2>2, <2>3, <2>4 DEF Inv
<1>2. ASSUME NEW r \in Requests, NEW b \in Bodies,
             Refuse(r, b) \/ RegisterTooLong(r, b)
      PROVE  Inv'
  BY <1>2, EndStep DEF Refuse, RegisterTooLong, Unlucky, Replies
<1>3. ASSUME NEW r \in Requests, NEW b \in Bodies, Register(r, b) \/ Login(r, b)
      PROVE  Inv'
  BY <1>3, AcceptStep
<1>4. ASSUME NEW r \in Requests, CreateUserConflict(r)
      PROVE  Inv'
  <2>1. r \notin rightful /\ r \notin clear
    BY <1>4 DEF CreateUserConflict, Registered, Inv, LoginsSucceed,
       RegistrationsSucceed
  <2> QED
    BY <1>4, <2>1, EndStep DEF CreateUserConflict, history, Replies
<1>5. ASSUME NEW r \in Requests, LoginRejected(r)
      PROVE  Inv'
  <2>1. r \notin rightful /\ r \notin clear
    BY <1>5 DEF LoginRejected, GetUserByEmail, Registered, Inv, LoginsSucceed,
       RegistrationsSucceed, Has
  <2> QED
    BY <1>5, <2>1, EndStep DEF LoginRejected, history, Replies
<1>6. ASSUME NEW r \in Requests, StatementFails(r) \/ Cut(r)
      PROVE  Inv'
  BY <1>6, EndStep DEF StatementFails, Cut, Unlucky, Replies
<1>7. ASSUME NEW r \in Requests, CreateUser(r) \/ CreateUserUnknown(r)
      PROVE  Inv'
  BY <1>7, CreateStep
<1>8. ASSUME NEW r \in Requests, LoginMatches(r) \/ SendTokens(r)
      PROVE  Inv'
  BY <1>8, MatchStep, SendStep
<1>9. ASSUME \/ Tick
             \/ \E e \in Emails, kind \in {"access", "refresh"} :
                  Admit(e, kind) \/ Unauthorized(e, kind)
      PROVE  Inv'
  BY <1>9, OutsideStep
<1> QED
  BY <1>1, <1>2, <1>3, <1>4, <1>5, <1>6, <1>7, <1>8, <1>9 DEF Next

\* The inductive invariant holds in every reachable state.
LEMMA Invariance == Spec => []Inv
  BY InitInv, NextInv, PTL DEF Spec

-----------------------------------------------------------------------------

\* Every variable has its type.
THEOREM AccountsTypeCorrect == Spec => []TypeOK
<1>1. Inv => TypeOK
  BY DEF Inv
<1> QED
  BY <1>1, Invariance, PTL

\* An address has one user, whom all answers to it name.
THEOREM OneAccount == Spec => []OneAccountPerEmail
<1>1. Inv => OneAccountPerEmail
  BY DEF Inv, Truth, ToldIsTrue, UniqueEmails, Has, OneAccountPerEmail,
         Registered
<1> QED
  BY <1>1, Invariance, PTL

\* Who is registered can log in, however the registration was answered.
THEOREM CanLogin == Spec => []RegisteredCanLogin
<1>1. Inv => RegisteredCanLogin
  BY DEF Inv, LoginsSucceed, RegisteredCanLogin
<1> QED
  BY <1>1, Invariance, PTL

\* Only its own address or name stands in the way of a registration.
THEOREM FreshSucceeds == Spec => []FreshRegistrationSucceeds
<1>1. Inv => FreshRegistrationSucceeds
  BY DEF Inv, RegistrationsSucceed, FreshRegistrationSucceeds
<1> QED
  BY <1>1, Invariance, PTL

\* An admitted request acts for the user of the address whose password was
\* given at most RefreshTTL ago.
THEOREM AdmittedWasProved == Spec => []ServedWasProved
<1>1. Inv => ServedWasProved
  BY DEF Inv, Truth
<1> QED
  BY <1>1, Invariance, PTL
=============================================================================
