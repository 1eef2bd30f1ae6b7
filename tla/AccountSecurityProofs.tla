----------------------- MODULE AccountSecurityProofs -----------------------
(* One number, auth_version, stands for the whole credential row, for any  *)
(* number of accounts, browsers and tokens.  A step of the system is       *)
(* summarised by what it may do to each variable (AccountGrows, ...); the  *)
(* summaries preserve the invariant, and every action obeys them.          *)
EXTENDS AccountSecurity, FiniteSetTheorems, TLAPS

USE RootAssumption, GoogleAssumption, NoneAssumption, BoundsAssumption

(* A basis is an earlier state of the account, or the present one.         *)
Kept(u, basis) ==
    /\ basis.ver <= account[u].ver
    /\ basis.ver = account[u].ver => basis = account[u]

(* What the check before the lock has established for the transaction.     *)
RequestSound(b, r) ==
    /\ r \in Requests /\ Exists(r.user)
    /\ r.op \in {"password", "reset"} => r.new # None
    /\ r.op \in {"email", "resend", "forgot"} => r.email # None
    /\ r.op \in {"verify", "reset"} => r.token \in Issued
    /\ r.op = "connect" => cookie[b] # None

IInv ==
    /\ TypeOK
    /\ \A t \in Issued : Exists(token[t].user) /\ Kept(token[t].user, token[t].basis)
    /\ \A b \in Browsers : cookie[b] # None => Exists(Me(b)) /\ Kept(Me(b), cookie[b].basis)
    /\ \A b \in Browsers : req[b] # None => RequestSound(b, req[b])
    /\ \A u \in Users : account[u].google # None => Exists(u)

-----------------------------------------------------------------------------
(* An existing account is left as it is or gets a higher version.          *)
AccountGrows ==
    /\ account' \in [Users -> Accounts]
    /\ \A u \in Users : Exists(u) => /\ account'[u].status # "ABSENT"
                                     /\ account'[u] = account[u] \/ account'[u].ver > account[u].ver
    /\ \A u \in Users : account'[u].status = "ABSENT" => account'[u] = account[u]

(* Tokens keep user and basis; a new one is based on the present account.  *)
TokensGrow ==
    /\ \E n \in 0..MaxTokens : token' \in [1..n -> Tokens]
    /\ Issued \subseteq DOMAIN token'
    /\ \A t \in DOMAIN token' :
        \/ /\ t \in Issued
           /\ token'[t].user = token[t].user /\ token'[t].basis = token[t].basis
        \/ LET a == account'[token'[t].user]
           IN a.status # "ABSENT" /\ token'[t].basis = a

CookiesFollow ==
    /\ cookie' \in [Browsers -> Cookies \cup {None}]
    /\ \A b \in Browsers :
        \/ cookie'[b] = cookie[b]
        \/ cookie'[b] = None /\ req'[b] = None
        \/ /\ cookie'[b] # None
           /\ LET a == account'[cookie'[b].user]
              IN a.status # "ABSENT" /\ cookie'[b].basis = a

RequestsFollow ==
    /\ req' \in [Browsers -> Requests \cup {None}]
    /\ \A b \in Browsers : req'[b] # None => req'[b] = req[b] \/ RequestSound(b, req[b])'

Follows ==
    /\ AccountGrows /\ TokensGrow /\ CookiesFollow /\ RequestsFollow
    /\ intent' \in [Browsers -> Intents \cup {None}]

LEMMA FollowingPreserves == IInv /\ Follows => IInv'
<1> SUFFICES ASSUME IInv, Follows PROVE IInv'
  OBVIOUS
<1> USE DEF IInv, Follows, Issued
<1>1. TypeOK'
  BY DEF TypeOK, AccountGrows, TokensGrow, CookiesFollow, RequestsFollow
<1>2. ASSUME NEW u \in Users, NEW basis \in Accounts, Exists(u), Kept(u, basis)
      PROVE  Exists(u)' /\ Kept(u, basis)'
  <2>1. /\ account[u] \in Accounts /\ account'[u] \in Accounts
        /\ account'[u] = account[u] \/ account'[u].ver > account[u].ver
        /\ account'[u].status # "ABSENT"
    BY <1>2 DEF AccountGrows, Exists, TypeOK
  <2>2. basis.ver \in Int /\ account[u].ver \in Int /\ account'[u].ver \in Int
    BY <2>1 DEF Accounts
  <2> QED
    BY <1>2, <2>1, <2>2 DEF Kept, Exists
<1>3. ASSUME NEW u \in Users, NEW basis \in Accounts, account'[u].status # "ABSENT",
             basis = account'[u]
      PROVE  Exists(u)' /\ Kept(u, basis)'
  BY <1>3, <1>1 DEF Kept, Exists, TypeOK, Accounts
<1>4. ASSUME NEW t \in DOMAIN token'
      PROVE  (Exists(token[t].user) /\ Kept(token[t].user, token[t].basis))'
  <2>1. token'[t] \in Tokens
    BY <1>1 DEF TypeOK
  <2>2. token'[t].user \in Users /\ token'[t].basis \in Accounts
    BY <2>1 DEF Tokens
  <2>3. CASE t \in Issued /\ token'[t].user = token[t].user /\ token'[t].basis = token[t].basis
    BY <1>2, <2>2, <2>3
  <2>4. CASE account'[token'[t].user].status # "ABSENT" /\ token'[t].basis = account'[token'[t].user]
    BY <1>3, <2>2, <2>4
  <2> QED
    BY <2>3, <2>4 DEF TokensGrow
<1>5. ASSUME NEW b \in Browsers, cookie'[b] # None
      PROVE  (Exists(Me(b)) /\ Kept(Me(b), cookie[b].basis))'
  <2>1. cookie'[b] \in Cookies
    BY <1>1, <1>5 DEF TypeOK
  <2>2. cookie'[b].user \in Users /\ cookie'[b].basis \in Accounts
    BY <2>1 DEF Cookies
  <2>3. CASE cookie'[b] = cookie[b]
    BY <1>2, <1>5, <2>2, <2>3 DEF Me
  <2>4. CASE cookie'[b] # cookie[b]
    BY <1>3, <1>5, <2>2, <2>4 DEF Me, CookiesFollow
  <2> QED
    BY <2>3, <2>4
<1>6. ASSUME NEW b \in Browsers, req'[b] # None
      PROVE  RequestSound(b, req[b])'
  <2>1. CASE req'[b] = req[b]
    <3>1. RequestSound(b, req[b])
      BY <1>6, <2>1
    <3>2. req[b].user \in Users
      BY <3>1 DEF RequestSound, Requests
    <3>3. Exists(req[b].user)'
      BY <3>1, <3>2, <2>1 DEF RequestSound, Exists, AccountGrows
    <3>4. cookie[b] # None => cookie'[b] # None
      BY <1>6, <2>1 DEF CookiesFollow
    <3> QED
      BY <2>1, <3>1, <3>3, <3>4 DEF RequestSound, TokensGrow, Exists
  <2> QED
    BY <1>6, <2>1 DEF RequestsFollow
<1>7. ASSUME NEW u \in Users, account'[u].google # None PROVE Exists(u)'
  <2>1. CASE account'[u].status = "ABSENT"
    <3>1. account'[u] = account[u]
      BY <2>1 DEF AccountGrows
    <3> QED
      BY <1>7, <2>1, <3>1 DEF Exists
  <2> QED
    BY <2>1 DEF Exists
<1> QED
  BY <1>1, <1>4, <1>5, <1>6, <1>7

-----------------------------------------------------------------------------
(* The building blocks of the actions, each within the summaries.          *)

LEMMA UnchangedFollow ==
    ASSUME IInv
    PROVE  /\ UNCHANGED account => AccountGrows
           /\ UNCHANGED token => TokensGrow
           /\ UNCHANGED cookie => CookiesFollow
           /\ UNCHANGED req => RequestsFollow
  BY DEF IInv, TypeOK, AccountGrows, TokensGrow, CookiesFollow, RequestsFollow, Issued, Exists

LEMMA ChangeGrows ==
    ASSUME IInv, NEW u \in Users, NEW a \in Accounts, a.status # "ABSENT", Change(u, a)
    PROVE  AccountGrows /\ account'[u].status # "ABSENT"
<1>1. account \in [Users -> Accounts] /\ account[u].ver \in 1..MaxVersion
  BY DEF IInv, TypeOK, Accounts
<1> DEFINE new == [a EXCEPT !.ver = account[u].ver + 1]
<1>2. new \in Accounts /\ new.status = a.status /\ new.ver = account[u].ver + 1
  BY <1>1 DEF Change, Accounts
<1>3. account' = [account EXCEPT ![u] = new]
  BY DEF Change
<1> HIDE DEF new
<1> QED
  BY <1>1, <1>2, <1>3 DEF AccountGrows, Exists

LEMMA IssuedCounted ==
    ASSUME IInv
    PROVE  \E n \in 0..MaxTokens : /\ token \in [1..n -> Tokens]
                                  /\ Issued = 1..n /\ Cardinality(Issued) = n
<1>1. PICK n \in 0..MaxTokens : token \in [1..n -> Tokens]
  BY DEF IInv, TypeOK
<1>2. Issued = 1..n
  BY <1>1 DEF Issued
<1>3. Cardinality(1..n) = n
  BY <1>1, FS_Interval
<1> QED
  BY <1>1, <1>2, <1>3

LEMMA IssueGrows ==
    ASSUME IInv, NEW u \in Users, NEW e \in Emails, NEW a \in Accounts,
           NEW purpose \in {"EMAIL_VERIFICATION", "PASSWORD_RESET"},
           a = account'[u], a.status # "ABSENT", Issue(u, purpose, e, a)
    PROVE  TokensGrow
<1>1. PICK n \in 0..MaxTokens : /\ token \in [1..n -> Tokens]
                                /\ Issued = 1..n /\ Cardinality(Issued) = n
  BY IssuedCounted
<1> DEFINE new == [user |-> u, purpose |-> purpose, email |-> e, state |-> "open",
                   expired |-> FALSE, basis |-> a]
<1>2. new \in Tokens /\ new.user = u /\ new.basis = a
  BY DEF Tokens
<1>3. n + 1 \in 0..MaxTokens /\ token' = [t \in 1..(n + 1) |-> IF t \in Issued THEN token[t] ELSE new]
  BY <1>1 DEF Issue
<1> HIDE DEF new
<1>4. token' \in [1..(n + 1) -> Tokens] /\ Issued \subseteq DOMAIN token'
  BY <1>1, <1>2, <1>3
<1>5. ASSUME NEW t \in DOMAIN token'
      PROVE  token'[t] = new \/ (t \in Issued /\ token'[t] = token[t])
  BY <1>3, <1>5
<1> QED
  BY <1>2, <1>3, <1>4, <1>5 DEF TokensGrow

LEMMA UseTokenGrows ==
    ASSUME IInv, NEW u, NEW used, UseToken(u, used)
    PROVE  /\ TokensGrow
           /\ DOMAIN token' = Issued
           /\ \A t \in Issued :
                token'[t].state = IF t = used THEN "consumed"
                                  ELSE IF token[t].user = u /\ token[t].state = "open" THEN "revoked"
                                  ELSE token[t].state
<1>1. PICK n \in 0..MaxTokens : token \in [1..n -> Tokens] /\ Issued = 1..n
  BY IssuedCounted
<1>2. ASSUME NEW t \in Issued
      PROVE  /\ token'[t] \in Tokens
             /\ token'[t].user = token[t].user /\ token'[t].basis = token[t].basis
             /\ token'[t].state = IF t = used THEN "consumed"
                                  ELSE IF token[t].user = u /\ token[t].state = "open" THEN "revoked"
                                  ELSE token[t].state
  <2>1. token[t] \in Tokens
    BY <1>1, <1>2
  <2> QED
    BY <2>1, <1>2 DEF UseToken, Tokens
<1>3. DOMAIN token' = Issued /\ token' \in [1..n -> Tokens]
  BY <1>1, <1>2 DEF UseToken
<1> QED
  BY <1>2, <1>3 DEF TokensGrow

LEMMA RequestEnds ==
    ASSUME IInv, NEW b \in Browsers, req' = [req EXCEPT ![b] = None]
    PROVE  RequestsFollow
  BY DEF IInv, TypeOK, RequestsFollow

LEMMA SessionFollows ==
    ASSUME IInv, NEW b \in Browsers, NEW u \in Users, NEW proof \in Passwords \cup {None},
           account'[u].status # "ABSENT", ThenSession(b, u, proof)
    PROVE  RequestsFollow
<1> DEFINE r == [op |-> "session", user |-> u, typed |-> proof, new |-> None, email |-> None,
                 token |-> 0, subject |-> None]
<1>1. r \in Requests
  BY DEF Requests, Operations
<1>2. req' = [req EXCEPT ![b] = r]
  BY DEF ThenSession
<1>3. req'[b] = r /\ RequestSound(b, req[b])'
  BY <1>1, <1>2 DEF IInv, TypeOK, RequestSound, Exists
<1> QED
  BY <1>1, <1>2, <1>3 DEF IInv, TypeOK, RequestsFollow

LEMMA AskFollows ==
    ASSUME IInv, NEW b \in Browsers, NEW op, NEW u, NEW typed, NEW new, NEW e, NEW t, NEW s,
           Ask(b, op, u, typed, new, e, t, s),
           LET r == [op |-> op, user |-> u, typed |-> typed, new |-> new, email |-> e,
                     token |-> t, subject |-> s]
           IN RequestSound(b, r)
    PROVE  AccountGrows /\ TokensGrow /\ CookiesFollow /\ RequestsFollow
<1> DEFINE r == [op |-> op, user |-> u, typed |-> typed, new |-> new, email |-> e,
                 token |-> t, subject |-> s]
<1>1. req' = [req EXCEPT ![b] = r] /\ UNCHANGED <<account, token, cookie>> /\ RequestSound(b, r)
  BY DEF Ask
<1> HIDE DEF r
<1>2. req'[b] = r /\ RequestSound(b, req[b])'
  BY <1>1 DEF IInv, TypeOK, RequestSound, Exists, Issued
<1>3. RequestsFollow
  BY <1>1, <1>2 DEF IInv, TypeOK, RequestsFollow, RequestSound
<1> QED
  BY <1>1, <1>3, UnchangedFollow

LEMMA RefuseFollows ==
    ASSUME IInv, NEW b \in Browsers, Refuse(b)
    PROVE  Follows
  BY UnchangedFollow, RequestEnds DEF Refuse, Follows, IInv, TypeOK

-----------------------------------------------------------------------------
LEMMA BrowserStepFollows ==
    ASSUME IInv, NEW b \in Browsers,
           \/ OpenSession(b) \/ DropCookie(b) \/ Logout(b) \/ Lose(b) \/ Login(b)
           \/ BeginGoogle(b) \/ ExpireIntent(b) \/ CallbackLogin(b)
    PROVE  Follows
<1> USE DEF Follows
<1>1. /\ account \in [Users -> Accounts] /\ cookie \in [Browsers -> Cookies \cup {None}]
      /\ intent \in [Browsers -> Intents \cup {None}] /\ req \in [Browsers -> Requests \cup {None}]
  BY DEF IInv, TypeOK
<1>2. None \in Intents \cup {None} /\ LoginIntent \in Intents
  BY DEF Intents, LoginIntent
<1>3. CASE OpenSession(b)
  <2> DEFINE c == [user |-> req[b].user, proof |-> req[b].typed, basis |-> account[req[b].user]]
  <2>1. RequestSound(b, req[b])
    BY <1>3 DEF IInv, OpenSession
  <2>2. c \in Cookies /\ account[req[b].user].status # "ABSENT"
    BY <1>1, <2>1 DEF RequestSound, Requests, Cookies, Exists
  <2>3. CookiesFollow
    <3> HIDE DEF c
    <3>1. cookie' = [cookie EXCEPT ![b] = c] /\ req'[b] = None /\ UNCHANGED account
      BY <1>1, <1>3 DEF OpenSession, c
    <3>2. c.user = req[b].user /\ c.basis = account[req[b].user]
      BY DEF c
    <3> QED
      BY <1>1, <2>2, <3>1, <3>2 DEF CookiesFollow
  <2> QED
    BY <1>1, <1>2, <1>3, <2>3, UnchangedFollow, RequestEnds DEF OpenSession
<1>4. CASE DropCookie(b) \/ Logout(b)
  <2>1. CookiesFollow
    BY <1>1, <1>4 DEF DropCookie, Logout, CookiesFollow
  <2> QED
    BY <1>1, <1>2, <1>4, <2>1, UnchangedFollow DEF DropCookie, Logout
<1>5. CASE Lose(b)
  BY <1>5, RefuseFollows DEF Lose
<1>6. CASE Login(b)
  <2>1. PICK u \in Users, p \in Passwords :
            Exists(u) /\ ThenSession(b, u, p) /\ UNCHANGED <<account, token, cookie, intent>>
    BY <1>6 DEF Login
  <2>2. RequestsFollow
    BY <2>1, SessionFollows DEF Exists
  <2> QED
    BY <1>1, <2>1, <2>2, UnchangedFollow
<1>7. CASE BeginGoogle(b)
  <2>1. SignedIn(b) => [user |-> Me(b), ver |-> account[Me(b)].ver] \in Intents
    BY <1>1 DEF SignedIn, Me, Cookies, Intents, Accounts
  <2> QED
    BY <1>1, <1>2, <1>7, <2>1, UnchangedFollow DEF BeginGoogle
<1>8. CASE ExpireIntent(b)
  BY <1>1, <1>2, <1>8, UnchangedFollow DEF ExpireIntent
<1>9. CASE CallbackLogin(b)
  <2>1. PICK s \in Subjects :
        \/ \E u \in GoogleOwner(s) : ThenSession(b, u, None) /\ UNCHANGED account
        \/ \E u \in Users :
            /\ ~Exists(u)
            /\ account' = [account EXCEPT ![u] = [@ EXCEPT !.status = "PENDING_APPROVAL", !.google = s,
                                                 !.email = GoogleEmail[s], !.verified = TRUE]]
            /\ ThenSession(b, u, None)
    BY <1>9 DEF CallbackLogin
  <2>2. AccountGrows /\ RequestsFollow
    <3>1. ASSUME NEW u \in GoogleOwner(s), ThenSession(b, u, None), UNCHANGED account
          PROVE  AccountGrows /\ RequestsFollow
      <4>1. u \in Users /\ account[u].google = s
        BY <3>1 DEF GoogleOwner
      <4>2. Exists(u)
        BY <4>1 DEF IInv
      <4> QED
        BY <3>1, <4>1, <4>2, SessionFollows, UnchangedFollow DEF Exists
    <3>2. ASSUME NEW u \in Users, ~Exists(u), ThenSession(b, u, None),
                 account' = [account EXCEPT ![u] = [@ EXCEPT !.status = "PENDING_APPROVAL", !.google = s,
                                                    !.email = GoogleEmail[s], !.verified = TRUE]]
          PROVE  AccountGrows /\ RequestsFollow
      <4>1. GoogleEmail[s] \in Emails
        OBVIOUS
      <4> DEFINE a == [account[u] EXCEPT !.status = "PENDING_APPROVAL", !.google = s,
                                         !.email = GoogleEmail[s], !.verified = TRUE]
      <4>2. a \in Accounts /\ a.status = "PENDING_APPROVAL"
        <5>1. account[u] \in Accounts
          BY <1>1
        <5> QED
          BY <4>1, <5>1 DEF Accounts, Statuses
      <4>3. account' = [account EXCEPT ![u] = a]
        BY <1>1, <3>2
      <4> HIDE DEF a
      <4> QED
        BY <1>1, <3>2, <4>2, <4>3, SessionFollows DEF AccountGrows, Exists
    <3> QED
      BY <2>1, <3>1, <3>2
  <2>3. intent' = [intent EXCEPT ![b] = None] /\ UNCHANGED <<token, cookie>>
    BY <1>9 DEF CallbackLogin
  <2> QED
    BY <1>1, <1>2, <2>2, <2>3, UnchangedFollow
<1> QED
  BY <1>3, <1>4, <1>5, <1>6, <1>7, <1>8, <1>9

LEMMA OwnAccount ==
    ASSUME IInv, NEW b \in Browsers, SignedIn(b)
    PROVE  Me(b) \in Users /\ Exists(Me(b)) /\ account[Me(b)] \in Accounts /\ cookie[b] # None
  BY DEF IInv, TypeOK, SignedIn, Me, Cookies

(* The unlocked checks establish what RequestSound says.                   *)
LEMMA AskStepFollows ==
    ASSUME IInv, NEW b \in Browsers,
           \/ AskPassword(b) \/ AskEmail(b) \/ AskResend(b) \/ AskToken(b)
           \/ AskForgot(b) \/ AskDisconnect(b) \/ CallbackLink(b)
    PROVE  Follows
<1> USE DEF Follows
<1>1. account \in [Users -> Accounts] /\ intent \in [Browsers -> Intents \cup {None}]
  BY DEF IInv, TypeOK
<1>2. ASSUME NEW u \in Users PROVE account[u].pw \in Passwords \cup {None} /\ account[u].email \in Emails
  BY <1>1 DEF Accounts
<1>3. CASE AskPassword(b)
  <2>1. PICK old \in Passwords, new \in Passwords : Ask(b, "password", Me(b), old, new, None, 0, None)
    BY <1>3 DEF AskPassword
  <2>2. SignedIn(b) /\ UNCHANGED intent
    BY <1>3 DEF AskPassword
  <2> QED
    BY <1>1, <2>1, <2>2, OwnAccount, AskFollows DEF RequestSound, Requests, Operations
<1>4. CASE AskEmail(b)
  <2>1. PICK e \in Emails : Ask(b, "email", Me(b), account[Me(b)].pw, None, e, 0, None)
    BY <1>4 DEF AskEmail
  <2>2. SignedIn(b) /\ UNCHANGED intent
    BY <1>4 DEF AskEmail
  <2> QED
    BY <1>1, <1>2, <2>1, <2>2, OwnAccount, AskFollows DEF RequestSound, Requests, Operations
<1>5. CASE AskResend(b)
  <2>1. PICK u \in Users : Exists(u) /\ Ask(b, "resend", u, None, None, account[u].email, 0, None)
    BY <1>5 DEF AskResend
  <2>2. UNCHANGED intent
    BY <1>5 DEF AskResend
  <2> QED
    BY <1>1, <1>2, <2>1, <2>2, AskFollows DEF RequestSound, Requests, Operations
<1>6. CASE AskToken(b)
  <2>1. PICK t \in Issued :
            \/ Ask(b, "verify", token[t].user, None, None, None, t, None)
            \/ \E p \in Passwords : Ask(b, "reset", token[t].user, None, p, None, t, None)
    BY <1>6 DEF AskToken
  <2>2. UNCHANGED intent
    BY <1>6 DEF AskToken
  <2>3. token[t].user \in Users /\ Exists(token[t].user) /\ t \in 0..MaxTokens
    <3>1. PICK n \in 0..MaxTokens : token \in [1..n -> Tokens] /\ Issued = 1..n
      BY IssuedCounted
    <3> QED
      BY <3>1 DEF IInv, Tokens
  <2>4. CASE Ask(b, "verify", token[t].user, None, None, None, t, None)
    BY <1>1, <2>2, <2>3, <2>4, AskFollows DEF RequestSound, Requests, Operations
  <2>5. ASSUME NEW p \in Passwords, Ask(b, "reset", token[t].user, None, p, None, t, None)
        PROVE  Follows
    BY <1>1, <2>2, <2>3, <2>5, AskFollows DEF RequestSound, Requests, Operations
  <2> QED
    BY <2>1, <2>4, <2>5
<1>7. CASE AskForgot(b)
  <2>1. PICK e \in Emails, u \in Users : Exists(u) /\ Ask(b, "forgot", u, None, None, e, 0, None)
    BY <1>7 DEF AskForgot, Owner
  <2>2. UNCHANGED intent
    BY <1>7 DEF AskForgot
  <2> QED
    BY <1>1, <2>1, <2>2, AskFollows DEF RequestSound, Requests, Operations
<1>8. CASE AskDisconnect(b)
  <2>1. PICK p \in Passwords : Ask(b, "disconnect", Me(b), p, None, None, 0, None)
    BY <1>8 DEF AskDisconnect
  <2>2. SignedIn(b) /\ UNCHANGED intent
    BY <1>8 DEF AskDisconnect
  <2> QED
    BY <1>1, <2>1, <2>2, OwnAccount, AskFollows DEF RequestSound, Requests, Operations
<1>9. CASE CallbackLink(b)
  <2>1. PICK s \in Subjects : Ask(b, "connect", Me(b), account[Me(b)].pw, None, None, 0, s)
    BY <1>9 DEF CallbackLink
  <2>2. SignedIn(b) /\ intent' = [intent EXCEPT ![b] = None]
    BY <1>9 DEF CallbackLink
  <2> QED
    BY <1>1, <1>2, <2>1, <2>2, OwnAccount, AskFollows DEF RequestSound, Requests, Operations
<1> QED
  BY <1>3, <1>4, <1>5, <1>6, <1>7, <1>8, <1>9

-----------------------------------------------------------------------------
LEMMA RequestFacts ==
    ASSUME IInv, NEW b \in Browsers, req[b] # None
    PROVE  /\ req[b] \in Requests /\ RequestSound(b, req[b])
           /\ req[b].user \in Users /\ account[req[b].user] \in Accounts
           /\ account[req[b].user].status # "ABSENT"
           /\ None \in Intents \cup {None} /\ None \in Cookies \cup {None}
  BY DEF IInv, TypeOK, RequestSound, Requests, Exists

(* A token in use belongs to an existing account.                          *)
LEMMA TokenFacts ==
    ASSUME IInv, NEW t \in Issued
    PROVE  /\ token[t] \in Tokens
           /\ token[t].user \in Users /\ account[token[t].user] \in Accounts
           /\ account[token[t].user].status # "ABSENT"
           /\ token[t].email \in Emails
  BY IssuedCounted DEF IInv, TypeOK, Tokens, Exists

LEMMA CommitStepFollows ==
    ASSUME IInv, NEW b \in Browsers,
           \/ CommitPassword(b) \/ CommitIssue(b) \/ CommitForgot(b) \/ CommitVerify(b)
           \/ CommitReset(b) \/ CommitConnect(b) \/ CommitDisconnect(b)
    PROVE  Follows
<1> DEFINE u == req[b].user
           a == account[u]
<1>1. /\ account \in [Users -> Accounts] /\ cookie \in [Browsers -> Cookies \cup {None}]
      /\ intent \in [Browsers -> Intents \cup {None}]
  BY DEF IInv, TypeOK
<1>2. SUFFICES ASSUME ~Refuse(b) PROVE Follows
  BY RefuseFollows
<1>3. req[b] # None
  BY DEF CommitPassword, CommitIssue, CommitForgot, CommitVerify, CommitReset, CommitConnect,
         CommitDisconnect, Commits
<1>4. /\ u \in Users /\ a \in Accounts /\ a.status # "ABSENT"
      /\ req[b] \in Requests /\ RequestSound(b, req[b])
  BY <1>3, RequestFacts
<1>5. CASE CommitPassword(b)
  <2> DEFINE new == [a EXCEPT !.pw = req[b].new, !.managed = FALSE]
  <2>1. Change(u, new) /\ UseToken(u, 0) /\ ThenSession(b, u, req[b].new) /\ UNCHANGED <<cookie, intent>>
    BY <1>2, <1>5 DEF CommitPassword
  <2>2. new \in Accounts /\ new.status # "ABSENT" /\ req[b].new \in Passwords \cup {None}
    BY <1>4 DEF Accounts, Requests
  <2> HIDE DEF new, a, u
  <2> QED
    BY <1>1, <1>4, <2>1, <2>2, ChangeGrows, UseTokenGrows, SessionFollows, UnchangedFollow DEF Follows
<1>6. CASE CommitIssue(b)
  <2>1. /\ Issue(u, "EMAIL_VERIFICATION", req[b].email, a)
        /\ req' = [req EXCEPT ![b] = None] /\ UNCHANGED <<account, cookie, intent>>
    BY <1>2, <1>6 DEF CommitIssue
  <2>2. req[b].email \in Emails
    BY <1>4, <1>6 DEF CommitIssue, Commits, RequestSound, Requests
  <2>3. TokensGrow
    BY <1>4, <2>1, <2>2, IssueGrows
  <2> QED
    BY <1>1, <2>1, <2>3, RequestEnds, UnchangedFollow DEF Follows
<1>7. CASE CommitForgot(b)
  <2>1. /\ Issue(u, "PASSWORD_RESET", req[b].email, a)
        /\ req' = [req EXCEPT ![b] = None] /\ UNCHANGED <<account, cookie, intent>>
    BY <1>2, <1>7 DEF CommitForgot
  <2>2. req[b].email \in Emails
    BY <1>4, <1>7 DEF CommitForgot, Commits, RequestSound, Requests
  <2>3. TokensGrow
    BY <1>4, <2>1, <2>2, IssueGrows
  <2> QED
    BY <1>1, <2>1, <2>3, RequestEnds, UnchangedFollow DEF Follows
<1>8. CASE CommitVerify(b)
  <2> DEFINE t == req[b].token
             v == token[t].user
             new == [account[v] EXCEPT !.email = token[t].email, !.verified = TRUE]
  <2>1. /\ Change(v, new) /\ UseToken(v, t) /\ UNCHANGED <<cookie, intent>>
        /\ ThenSession(b, v, None) \/ req' = [req EXCEPT ![b] = None]
    BY <1>2, <1>8 DEF CommitVerify
  <2>2. t \in Issued
    BY <1>4, <1>8 DEF CommitVerify, Commits, RequestSound
  <2>3. v \in Users /\ new \in Accounts /\ new.status # "ABSENT"
    BY <2>2, TokenFacts DEF Accounts
  <2> HIDE DEF t, v, new
  <2> QED
    BY <1>1, <2>1, <2>3, ChangeGrows, UseTokenGrows, SessionFollows, RequestEnds, UnchangedFollow DEF Follows
<1>9. CASE CommitReset(b)
  <2> DEFINE t == req[b].token
             v == token[t].user
             new == [account[v] EXCEPT !.pw = req[b].new, !.managed = FALSE]
  <2>1. /\ Change(v, new) /\ UseToken(v, t)
        /\ cookie' = [cookie EXCEPT ![b] = None] /\ intent' = [intent EXCEPT ![b] = None]
        /\ req' = [req EXCEPT ![b] = None]
    BY <1>2, <1>9 DEF CommitReset
  <2>2. t \in Issued /\ req[b].new \in Passwords \cup {None}
    BY <1>4, <1>9 DEF CommitReset, Commits, RequestSound, Requests
  <2>3. v \in Users /\ new \in Accounts /\ new.status # "ABSENT"
    <3>1. v \in Users /\ account[v] \in Accounts /\ account[v].status # "ABSENT"
      BY <2>2, TokenFacts
    <3> QED
      BY <2>2, <3>1 DEF Accounts
  <2>4. CookiesFollow
    BY <1>1, <2>1 DEF CookiesFollow, IInv, TypeOK
  <2> HIDE DEF t, v, new
  <2> QED
    BY <1>1, <2>1, <2>3, <2>4, ChangeGrows, UseTokenGrows, RequestEnds DEF Follows
<1>10. CASE CommitConnect(b)
  <2> DEFINE new == [a EXCEPT !.google = req[b].subject, !.verified = TRUE]
  <2>1. /\ Change(u, new) \/ UNCHANGED account
        /\ ThenSession(b, u, cookie[b].proof) /\ UNCHANGED <<token, cookie, intent>>
    BY <1>2, <1>10 DEF CommitConnect
  <2>2. new \in Accounts /\ new.status # "ABSENT"
    BY <1>4 DEF Accounts, Requests
  <2>3. cookie[b] \in Cookies /\ cookie[b].proof \in Passwords \cup {None}
    BY <1>1, <1>4, <1>10 DEF CommitConnect, Commits, RequestSound, Cookies
  <2> HIDE DEF new
  <2>4. AccountGrows /\ account'[u].status # "ABSENT"
    BY <1>4, <2>1, <2>2, ChangeGrows, UnchangedFollow
  <2> HIDE DEF a, u
  <2> QED
    BY <1>1, <1>4, <2>1, <2>3, <2>4, SessionFollows, UnchangedFollow DEF Follows
<1>11. CASE CommitDisconnect(b)
  <2> DEFINE new == [a EXCEPT !.google = None]
  <2>1. /\ Change(u, new) \/ UNCHANGED account
        /\ ThenSession(b, u, req[b].typed) /\ UNCHANGED <<token, cookie, intent>>
    BY <1>2, <1>11 DEF CommitDisconnect
  <2>2. new \in Accounts /\ new.status # "ABSENT" /\ req[b].typed \in Passwords \cup {None}
    BY <1>4 DEF Accounts, Requests
  <2> HIDE DEF new
  <2>3. AccountGrows /\ account'[u].status # "ABSENT"
    BY <1>4, <2>1, <2>2, ChangeGrows, UnchangedFollow
  <2> HIDE DEF a, u
  <2> QED
    BY <1>1, <1>4, <2>1, <2>2, <2>3, SessionFollows, UnchangedFollow DEF Follows
<1> QED
  BY <1>5, <1>6, <1>7, <1>8, <1>9, <1>10, <1>11

LEMMA SystemStepFollows ==
    ASSUME IInv,
           \/ \E u \in Users, e \in Emails, p \in Passwords : RegisterLocal(u, e, p)
           \/ \E u \in Users, s \in Statuses : AdminChanges(u, s)
           \/ \E p \in Passwords : Restart(p)
           \/ \E t \in Issued : Expire(t)
    PROVE  Follows
<1>1. /\ account \in [Users -> Accounts] /\ intent \in [Browsers -> Intents \cup {None}]
  BY DEF IInv, TypeOK
<1>2. ASSUME NEW u \in Users, NEW e \in Emails, NEW p \in Passwords, RegisterLocal(u, e, p)
      PROVE  Follows
  <2> DEFINE a == [account[u] EXCEPT !.status = "PENDING_APPROVAL", !.email = e, !.pw = p]
  <2>1. /\ account' = [account EXCEPT ![u] = a] /\ Issue(u, "EMAIL_VERIFICATION", e, a)
        /\ UNCHANGED <<cookie, intent, req>> /\ ~Exists(u)
    BY <1>2 DEF RegisterLocal
  <2>2. a \in Accounts /\ a.status = "PENDING_APPROVAL"
    <3>1. account[u] \in Accounts
      BY <1>1
    <3> QED
      BY <3>1 DEF Accounts, Statuses
  <2> HIDE DEF a
  <2>3. AccountGrows /\ account'[u] = a
    BY <1>1, <2>1, <2>2 DEF AccountGrows, Exists
  <2>4. TokensGrow
    BY <2>1, <2>2, <2>3, IssueGrows
  <2> QED
    BY <1>1, <2>1, <2>3, <2>4, UnchangedFollow DEF Follows
<1>3. ASSUME NEW u \in Users, NEW s \in Statuses, AdminChanges(u, s) PROVE Follows
  <2> DEFINE a == [account[u] EXCEPT !.status = s]
  <2>1. Change(u, a) /\ UNCHANGED <<token, cookie, intent, req>> /\ s # "ABSENT"
    BY <1>3 DEF AdminChanges
  <2>2. a \in Accounts /\ a.status # "ABSENT"
    BY <1>1, <2>1 DEF Accounts
  <2> HIDE DEF a
  <2> QED
    BY <1>1, <2>1, <2>2, ChangeGrows, UnchangedFollow DEF Follows
<1>4. ASSUME NEW p \in Passwords, Restart(p) PROVE Follows
  <2> DEFINE a == [account[Root] EXCEPT !.pw = p]
  <2>1. Change(Root, a) /\ UNCHANGED <<token, cookie, intent, req>> /\ account[Root].status = "ACTIVE"
    BY <1>4 DEF Restart
  <2>2. a \in Accounts /\ a.status # "ABSENT"
    BY <1>1, <2>1 DEF Accounts
  <2> HIDE DEF a
  <2> QED
    BY <1>1, <2>1, <2>2, ChangeGrows, UnchangedFollow DEF Follows
<1>5. ASSUME NEW t \in Issued, Expire(t) PROVE Follows
  <2>1. token' = [token EXCEPT ![t].expired = TRUE] /\ UNCHANGED <<account, cookie, intent, req>>
    BY <1>5 DEF Expire
  <2>2. TokensGrow
    <3>1. PICK n \in 0..MaxTokens : token \in [1..n -> Tokens] /\ Issued = 1..n
      BY IssuedCounted
    <3>2. token' \in [1..n -> Tokens]
      BY <2>1, <3>1 DEF Tokens
    <3>3. ASSUME NEW i \in Issued
          PROVE  token'[i].user = token[i].user /\ token'[i].basis = token[i].basis
      BY <2>1, <3>1 DEF Tokens
    <3> QED
      BY <3>1, <3>2, <3>3 DEF TokensGrow
  <2> QED
    BY <1>1, <2>1, <2>2, UnchangedFollow DEF Follows
<1> QED
  BY <1>2, <1>3, <1>4, <1>5

-----------------------------------------------------------------------------
LEMMA InvariantHolds == Spec => []IInv
<1>1. Init => IInv
  <2> SUFFICES ASSUME Init PROVE IInv
    OBVIOUS
  <2>1. account \in [Users -> Accounts] /\ \A u \in Users : account[u].google = None
    BY DEF Init, Accounts, Statuses
  <2>2. token = <<>> /\ Issued = {} /\ token \in [1..0 -> Tokens]
    BY DEF Init, Issued
  <2> QED
    BY <2>1, <2>2 DEF Init, IInv, TypeOK
<1>2. IInv /\ [Next]_vars => IInv'
  <2> SUFFICES ASSUME IInv, [Next]_vars PROVE IInv'
    OBVIOUS
  <2>1. Follows
    <3>1. CASE Next
      BY <3>1, BrowserStepFollows, AskStepFollows, CommitStepFollows, SystemStepFollows DEF Next
    <3>2. CASE UNCHANGED vars
      BY <3>2, UnchangedFollow DEF vars, Follows, IInv, TypeOK
    <3> QED
      BY <3>1, <3>2
  <2> QED
    BY <2>1, FollowingPreserves
<1> QED
  BY <1>1, <1>2, PTL DEF Spec

(***************************************************************************)
(* Every variable keeps its type; no token or cookie names an account that *)
(* does not exist.                                                         *)
(***************************************************************************)
THEOREM CredentialTypes == Spec => []TypeOK
<1>1. IInv => TypeOK
  BY DEF IInv
<1> QED
  BY <1>1, InvariantHolds, PTL

(***************************************************************************)
(* auth_version identifies the credentials: whatever carries the current   *)
(* version was made for the account exactly as it is now.                  *)
(***************************************************************************)
THEOREM VersionSound == Spec => []VersionIdentifiesAccount
<1>1. IInv => VersionIdentifiesAccount
  BY DEF IInv, VersionIdentifiesAccount, Kept
<1> QED
  BY <1>1, InvariantHolds, PTL

(***************************************************************************)
(* A token takes effect at most once, never after it was revoked, and only *)
(* on an account in which nothing has changed since it was issued.         *)
(***************************************************************************)
THEOREM TokensSound == Spec => TokenUseSound
<1> DEFINE Sound ==
        \A t \in Issued :
            /\ token[t].state # "open" => token'[t].state = token[t].state
            /\ token'[t].state = "consumed" /\ token[t].state = "open" =>
                    token[t].basis = account[token[t].user]
<1>1. IInv /\ [Next]_vars => [Sound]_vars
  <2> SUFFICES ASSUME IInv, Next PROVE Sound
    OBVIOUS
  <2>1. ASSUME NEW t \in Issued, token'[t].state = token[t].state
        PROVE  /\ token[t].state # "open" => token'[t].state = token[t].state
               /\ token'[t].state = "consumed" /\ token[t].state = "open" =>
                        token[t].basis = account[token[t].user]
    BY <2>1
  <2>2. CASE UNCHANGED token
    BY <2>1, <2>2
  <2>3. ASSUME NEW u, NEW purpose, NEW e, NEW a, Issue(u, purpose, e, a) PROVE Sound
    <3>1. \A t \in Issued : token'[t] = token[t]
      BY <2>3, IssuedCounted DEF Issue
    <3> QED
      BY <2>1, <3>1
  <2>4. ASSUME NEW t \in Issued, Expire(t) PROVE Sound
    <3>1. \A i \in Issued : token'[i].state = token[i].state
      BY <2>4, IssuedCounted DEF Expire, Tokens
    <3> QED
      BY <2>1, <3>1
  <2>5. ASSUME NEW b \in Browsers, UseToken(req[b].user, 0) PROVE Sound
    BY <2>5, IssuedCounted, UseTokenGrows DEF Tokens
  <2>6. ASSUME NEW b \in Browsers, Commits(b, "verify") \/ Commits(b, "reset"),
               Usable(req[b].token), UseToken(token[req[b].token].user, req[b].token)
        PROVE  Sound
    <3> DEFINE t == req[b].token
    <3>1. t \in Issued
      BY <2>6 DEF Commits, IInv, RequestSound
    <3>2. token[t].state = "open" /\ token[t].basis = account[token[t].user]
      BY <2>6, <3>1 DEF Usable, IInv, Kept
    <3>3. \A i \in Issued : token'[i].state =
            IF i = t THEN "consumed"
            ELSE IF token[i].user = token[t].user /\ token[i].state = "open" THEN "revoked"
            ELSE token[i].state
      BY <2>6, UseTokenGrows
    <3> HIDE DEF t
    <3> QED
      BY <3>2, <3>3
  <2>7. ASSUME NEW b \in Browsers, CommitPassword(b) \/ CommitIssue(b) \/ CommitForgot(b)
        PROVE  Sound
    BY <2>2, <2>3, <2>5, <2>7 DEF CommitPassword, CommitIssue, CommitForgot, Refuse
  <2>8. ASSUME NEW b \in Browsers, CommitVerify(b) \/ CommitReset(b)
        PROVE  Sound
    BY <2>2, <2>6, <2>8 DEF CommitVerify, CommitReset, Refuse
  <2>9. ASSUME NEW b \in Browsers, CommitConnect(b) \/ CommitDisconnect(b)
        PROVE  Sound
    BY <2>2, <2>9 DEF CommitConnect, CommitDisconnect, Refuse
  <2>10. ASSUME NEW b \in Browsers,
                \/ OpenSession(b) \/ DropCookie(b) \/ Logout(b) \/ Lose(b) \/ Login(b)
                \/ AskPassword(b) \/ AskEmail(b) \/ AskResend(b) \/ AskToken(b) \/ AskForgot(b)
                \/ AskDisconnect(b) \/ BeginGoogle(b) \/ ExpireIntent(b) \/ CallbackLink(b)
                \/ CallbackLogin(b)
         PROVE  Sound
    BY <2>2, <2>10 DEF OpenSession, DropCookie, Logout, Lose, Refuse, Login, AskPassword, AskEmail,
            AskResend, AskToken, AskForgot, AskDisconnect, BeginGoogle, ExpireIntent, CallbackLink,
            CallbackLogin, Ask
  <2>11. ASSUME NEW u \in Users, NEW s \in Statuses, AdminChanges(u, s) PROVE Sound
    BY <2>2, <2>11 DEF AdminChanges
  <2>12. ASSUME NEW p \in Passwords, Restart(p) PROVE Sound
    BY <2>2, <2>12 DEF Restart
  <2>13. ASSUME NEW u \in Users, NEW e \in Emails, NEW p \in Passwords, RegisterLocal(u, e, p)
         PROVE  Sound
    BY <2>3, <2>13 DEF RegisterLocal
  <2> QED
    BY <2>4, <2>7, <2>8, <2>9, <2>10, <2>11, <2>12, <2>13 DEF Next
<1> QED
  BY <1>1, InvariantHolds, PTL DEF Spec, TokenUseSound

-----------------------------------------------------------------------------
(* An account has a password or Google from the day it exists, so proving  *)
(* the address, which approval asks for, is what makes a password enough.  *)
CanSignIn(a) ==
    /\ a.status # "ABSENT" => a.pw # None \/ a.google # None
    /\ a.status \in {"ACTIVE", "SUSPENDED"} => (a.pw # None /\ SignInName(a)) \/ a.google # None

AllCanSignIn == \A u \in Users : CanSignIn(account[u])

LEMMA ChangeKeepsSignIn ==
    ASSUME IInv, AllCanSignIn, NEW u \in Users, NEW a \in Accounts, CanSignIn(a),
           Change(u, a) \/ account' = [account EXCEPT ![u] = a]
    PROVE  AllCanSignIn'
<1> DEFINE new == [a EXCEPT !.ver = account[u].ver + 1]
<1>1. CanSignIn(new)
  BY DEF CanSignIn, SignInName, Accounts
<1>2. account \in [Users -> Accounts]
  BY DEF IInv, TypeOK
<1>3. account' = [account EXCEPT ![u] = new] \/ account' = [account EXCEPT ![u] = a]
  BY DEF Change
<1> HIDE DEF new
<1> QED
  BY <1>1, <1>2, <1>3 DEF AllCanSignIn

(***************************************************************************)
(* However addresses, passwords and the Google link change, an approved    *)
(* account can sign in.                                                    *)
(***************************************************************************)
THEOREM SignInRemains == Spec => []SignInPossible
<1>1. Init => AllCanSignIn
  <2> SUFFICES ASSUME Init, NEW u \in Users PROVE CanSignIn(account[u])
    BY DEF AllCanSignIn
  <2>1. PICK p \in Passwords : /\ account[u].status = IF u = Root THEN "ACTIVE" ELSE "ABSENT"
                              /\ account[u].login = (u = Root)
                              /\ account[u].pw = IF u = Root THEN p ELSE None
    BY DEF Init
  <2> QED
    BY <2>1 DEF CanSignIn, SignInName
<1>2. IInv /\ AllCanSignIn /\ [Next]_vars => AllCanSignIn'
  <2> SUFFICES ASSUME IInv, AllCanSignIn, [Next]_vars PROVE AllCanSignIn'
    OBVIOUS
  <2>1. ASSUME NEW u \in Users PROVE account[u] \in Accounts /\ CanSignIn(account[u])
    BY <2>1 DEF IInv, TypeOK, AllCanSignIn
  <2>2. CASE UNCHANGED account
    BY <2>2 DEF AllCanSignIn
  <2>3. ASSUME NEW b \in Browsers, CommitPassword(b) \/ CommitConnect(b) \/ CommitDisconnect(b)
        PROVE  AllCanSignIn'
    <3> DEFINE u == req[b].user
               a == account[u]
    <3> SUFFICES ASSUME ~UNCHANGED account PROVE AllCanSignIn'
      BY <2>2
    <3>1. req[b] # None
      BY <2>3 DEF CommitPassword, CommitConnect, CommitDisconnect, Commits
    <3>2. /\ u \in Users /\ a \in Accounts /\ CanSignIn(a) /\ req[b] \in Requests
          /\ RequestSound(b, req[b])
      BY <2>1, <3>1, RequestFacts
    <3>3. CASE CommitPassword(b)
      <4> DEFINE new == [a EXCEPT !.pw = req[b].new, !.managed = FALSE]
      <4>1. Change(u, new) /\ a.status = "ACTIVE" /\ a.pw # None /\ req[b].new # None
        BY <3>2, <3>3 DEF CommitPassword, Refuse, Commits, RequestSound
      <4>2. new \in Accounts /\ CanSignIn(new)
        BY <3>2, <4>1 DEF Accounts, Requests, CanSignIn, SignInName
      <4> QED
        BY <3>2, <4>1, <4>2, ChangeKeepsSignIn
    <3>4. CASE CommitConnect(b)
      <4> DEFINE new == [a EXCEPT !.google = req[b].subject, !.verified = TRUE]
      <4>1. Change(u, new) /\ a.pw # None
        BY <3>4 DEF CommitConnect, Refuse
      <4>2. new \in Accounts /\ CanSignIn(new)
        BY <3>2, <4>1 DEF Accounts, Requests, CanSignIn, SignInName
      <4> QED
        BY <3>2, <4>1, <4>2, ChangeKeepsSignIn
    <3>5. CASE CommitDisconnect(b)
      <4> DEFINE new == [a EXCEPT !.google = None]
      <4>1. Change(u, new) /\ a.pw # None /\ SignInName(a)
        BY <3>5 DEF CommitDisconnect, Refuse
      <4>2. new \in Accounts /\ CanSignIn(new)
        BY <3>2, <4>1 DEF Accounts, CanSignIn, SignInName
      <4> QED
        BY <3>2, <4>1, <4>2, ChangeKeepsSignIn
    <3> QED
      BY <2>3, <3>3, <3>4, <3>5
  <2>4. ASSUME NEW b \in Browsers, CommitVerify(b) \/ CommitReset(b) PROVE AllCanSignIn'
    <3> DEFINE t == req[b].token
               v == token[t].user
               a == account[v]
    <3> SUFFICES ASSUME ~UNCHANGED account PROVE AllCanSignIn'
      BY <2>2
    <3>1. t \in Issued /\ req[b] \in Requests /\ RequestSound(b, req[b])
      BY <2>4, RequestFacts DEF CommitVerify, CommitReset, Commits, RequestSound
    <3>2. v \in Users /\ a \in Accounts /\ CanSignIn(a) /\ token[t].email \in Emails
      BY <2>1, <3>1, TokenFacts
    <3>3. CASE CommitVerify(b)
      <4> DEFINE new == [a EXCEPT !.email = token[t].email, !.verified = TRUE]
      <4>1. Change(v, new)
        BY <3>3 DEF CommitVerify, Refuse
      <4>2. new \in Accounts /\ CanSignIn(new)
        BY <3>2 DEF Accounts, CanSignIn, SignInName
      <4> QED
        BY <3>2, <4>1, <4>2, ChangeKeepsSignIn
    <3>4. CASE CommitReset(b)
      <4> DEFINE new == [a EXCEPT !.pw = req[b].new, !.managed = FALSE]
      <4>1. Change(v, new) /\ req[b].new # None /\ a.verified
        BY <3>1, <3>4 DEF CommitReset, Refuse, Commits, RequestSound
      <4>2. new \in Accounts /\ CanSignIn(new)
        BY <3>1, <3>2, <4>1 DEF Accounts, Requests, CanSignIn, SignInName
      <4> QED
        BY <3>2, <4>1, <4>2, ChangeKeepsSignIn
    <3> QED
      BY <2>4, <3>3, <3>4
  <2>5. ASSUME NEW b \in Browsers, CallbackLogin(b) PROVE AllCanSignIn'
    <3> SUFFICES ASSUME ~UNCHANGED account PROVE AllCanSignIn'
      BY <2>2
    <3>1. PICK s \in Subjects, u \in Users :
            account' = [account EXCEPT ![u] = [@ EXCEPT !.status = "PENDING_APPROVAL", !.google = s,
                                                 !.email = GoogleEmail[s], !.verified = TRUE]]
      BY <2>5 DEF CallbackLogin
    <3> DEFINE new == [account[u] EXCEPT !.status = "PENDING_APPROVAL", !.google = s,
                                         !.email = GoogleEmail[s], !.verified = TRUE]
    <3>2. account[u] \in Accounts /\ GoogleEmail[s] \in Emails
      BY <2>1
    <3>3. new \in Accounts /\ CanSignIn(new)
      BY <3>2 DEF Accounts, Statuses, CanSignIn, SignInName
    <3>4. account' = [account EXCEPT ![u] = new]
      BY <3>1 DEF IInv, TypeOK
    <3> QED
      BY <3>3, <3>4, ChangeKeepsSignIn
  <2>6. ASSUME NEW u \in Users, NEW e \in Emails, NEW p \in Passwords, RegisterLocal(u, e, p)
        PROVE  AllCanSignIn'
    <3> DEFINE new == [account[u] EXCEPT !.status = "PENDING_APPROVAL", !.email = e, !.pw = p]
    <3>1. account[u] \in Accounts
      BY <2>1
    <3>2. new \in Accounts /\ CanSignIn(new)
      BY <3>1 DEF Accounts, Statuses, CanSignIn, SignInName
    <3>3. account' = [account EXCEPT ![u] = new]
      BY <2>6 DEF RegisterLocal
    <3> QED
      BY <3>2, <3>3, ChangeKeepsSignIn
  <2>7. ASSUME NEW u \in Users, NEW s \in Statuses, AdminChanges(u, s) PROVE AllCanSignIn'
    <3> DEFINE new == [account[u] EXCEPT !.status = s]
    <3>1. new \in Accounts /\ CanSignIn(new)
      BY <2>1, <2>7 DEF AdminChanges, Accounts, CanSignIn, SignInName
    <3>2. Change(u, new)
      BY <2>7 DEF AdminChanges
    <3> QED
      BY <3>1, <3>2, ChangeKeepsSignIn
  <2>8. ASSUME NEW p \in Passwords, Restart(p) PROVE AllCanSignIn'
    <3> DEFINE new == [account[Root] EXCEPT !.pw = p]
    <3>1. new \in Accounts /\ CanSignIn(new)
      <4>1. account[Root] \in Accounts /\ CanSignIn(account[Root]) /\ account[Root].status = "ACTIVE"
        BY <2>1, <2>8 DEF Restart
      <4> QED
        BY <4>1 DEF Accounts, CanSignIn, SignInName
    <3>2. Change(Root, new)
      BY <2>8 DEF Restart
    <3> QED
      BY <3>1, <3>2, ChangeKeepsSignIn
  <2>9. CASE UNCHANGED vars
    BY <2>2, <2>9 DEF vars
  <2>10. CASE Next
    <3>1. ASSUME NEW b \in Browsers,
                 \/ OpenSession(b) \/ DropCookie(b) \/ Logout(b) \/ Lose(b) \/ Login(b)
                 \/ AskPassword(b) \/ AskEmail(b) \/ AskResend(b) \/ AskToken(b) \/ AskForgot(b)
                 \/ AskDisconnect(b) \/ BeginGoogle(b) \/ ExpireIntent(b) \/ CallbackLink(b)
                 \/ CommitIssue(b) \/ CommitForgot(b)
          PROVE  UNCHANGED account
      BY <3>1 DEF OpenSession, DropCookie, Logout, Lose, Refuse, Login, AskPassword, AskEmail,
              AskResend, AskToken, AskForgot, AskDisconnect, BeginGoogle, ExpireIntent, CallbackLink,
              Ask, CommitIssue, CommitForgot
    <3>2. ASSUME NEW t \in Issued, Expire(t) PROVE UNCHANGED account
      BY <3>2 DEF Expire
    <3> QED
      BY <2>2, <2>3, <2>4, <2>5, <2>6, <2>7, <2>8, <2>10, <3>1, <3>2 DEF Next
  <2> QED
    BY <2>9, <2>10
<1>3. AllCanSignIn => SignInPossible
  BY DEF AllCanSignIn, CanSignIn, SignInPossible
<1> QED
  BY <1>1, <1>2, <1>3, InvariantHolds, PTL DEF Spec

-----------------------------------------------------------------------------
(* Whose address is proven by what.  Google proves it only for an account   *)
(* without a password, which is the kind that cannot give the link up; all  *)
(* others have used a token that was sent to the address they have.  So it  *)
(* matters that an account is never without a password again, that only an  *)
(* account with one is sent a reset, and that Google is connected to a      *)
(* verified address only.                                                   *)
Mailed(tokens, u, e) ==
    \E t \in DOMAIN tokens :
        /\ tokens[t].state = "consumed" /\ tokens[t].purpose = "EMAIL_VERIFICATION"
        /\ tokens[t].user = u /\ tokens[t].email = e

Proof(tokens, u, a) ==
    /\ a.status = "ABSENT" => ~a.verified /\ a.pw = None
    /\ a.managed => a.pw # None
    /\ a.verified => \/ Mailed(tokens, u, a.email)
                     \/ a.pw = None /\ a.google # None /\ GoogleEmail[a.google] = a.email

ProvenFor(r) ==
    /\ r.op = "verify" => token[r.token].purpose = "EMAIL_VERIFICATION"
    /\ r.op = "reset" => token[r.token].purpose = "PASSWORD_RESET"
    /\ r.op = "connect" => account[r.user].verified

Standing ==
    /\ \A u \in Users : Proof(token, u, account[u])
    /\ \A t \in Issued : token[t].purpose = "PASSWORD_RESET" => account[token[t].user].pw # None
    /\ \A b \in Browsers : intent[b] # None /\ intent[b].user # None => account[intent[b].user].verified
    /\ \A b \in Browsers : req[b] # None => ProvenFor(req[b])

(* What a step may do: passwords and verified addresses are not taken away, *)
(* and tokens do not change what they are for.                              *)
AccountsOnward ==
    \A u \in Users : /\ account[u].pw # None => account'[u].pw # None
                     /\ account[u].verified => account'[u].verified
                     /\ Proof(token', u, account'[u])

TokensOnward ==
    /\ \A t \in Issued :
        /\ t \in DOMAIN token'
        /\ token'[t].user = token[t].user /\ token'[t].email = token[t].email
        /\ token'[t].purpose = token[t].purpose
        /\ token[t].state = "consumed" => token'[t].state = "consumed"
    /\ \A t \in DOMAIN token' :
        t \in Issued \/ (token'[t].purpose = "PASSWORD_RESET" => account'[token'[t].user].pw # None)

IntentsOnward ==
    \A b \in Browsers :
        \/ intent'[b] = intent[b]
        \/ intent'[b] # None /\ intent'[b].user # None => account'[intent'[b].user].verified

RequestsOnward ==
    \A b \in Browsers : req'[b] = req[b] \/ (req'[b] # None => ProvenFor(req[b])')

Onward == AccountsOnward /\ TokensOnward /\ IntentsOnward /\ RequestsOnward

LEMMA OnwardPreserves ==
    ASSUME IInv, Standing, Onward
    PROVE  Standing'
<1>1. ASSUME NEW t \in DOMAIN token', token'[t].purpose = "PASSWORD_RESET"
      PROVE  account'[token'[t].user].pw # None
  <2>1. CASE t \in Issued
    <3>1. token[t].user \in Users
      BY <2>1, TokenFacts
    <3> QED
      BY <1>1, <2>1, <3>1 DEF Onward, TokensOnward, AccountsOnward, Standing
  <2> QED
    BY <1>1, <2>1 DEF Onward, TokensOnward
<1>2. ASSUME NEW b \in Browsers, intent'[b] # None, intent'[b].user # None
      PROVE  account'[intent'[b].user].verified
  <2>1. CASE intent'[b] = intent[b]
    <3>1. intent[b].user \in Users
      BY <1>2, <2>1 DEF IInv, TypeOK, Intents
    <3> QED
      BY <1>2, <2>1, <3>1 DEF Onward, AccountsOnward, Standing
  <2> QED
    BY <1>2, <2>1 DEF Onward, IntentsOnward
<1>3. ASSUME NEW b \in Browsers, req'[b] # None
      PROVE  ProvenFor(req[b])'
  <2>1. CASE req'[b] = req[b]
    <3>1. req[b].user \in Users /\ RequestSound(b, req[b]) /\ ProvenFor(req[b])
      BY <1>3, <2>1, RequestFacts DEF Standing
    <3>2. req[b].op \in {"verify", "reset"} => req[b].token \in Issued
      BY <3>1 DEF RequestSound
    <3> QED
      BY <2>1, <3>1, <3>2 DEF ProvenFor, Onward, TokensOnward, AccountsOnward
  <2> QED
    BY <1>3, <2>1 DEF Onward, RequestsOnward
<1> QED
  BY <1>1, <1>2, <1>3 DEF Standing, Onward, AccountsOnward, Issued

LEMMA ProofLasts ==
    ASSUME TokensOnward, NEW u, NEW a, Proof(token, u, a)
    PROVE  Proof(token', u, a)
  BY DEF TokensOnward, Proof, Mailed, Issued

LEMMA AccountsStay ==
    ASSUME Standing, TokensOnward, UNCHANGED account
    PROVE  AccountsOnward
  BY ProofLasts DEF AccountsOnward, Standing

LEMMA TokensStay ==
    ASSUME UNCHANGED token
    PROVE  TokensOnward
  BY DEF TokensOnward, Issued

LEMMA ChangeOnward ==
    ASSUME IInv, Standing, TokensOnward, NEW u \in Users, NEW a \in Accounts,
           account[u].pw # None => a.pw # None, account[u].verified => a.verified, Proof(token', u, a),
           Change(u, a) \/ account' = [account EXCEPT ![u] = a]
    PROVE  AccountsOnward
<1> DEFINE new == [a EXCEPT !.ver = account[u].ver + 1]
<1>1. /\ new.status = a.status /\ new.managed = a.managed /\ new.pw = a.pw /\ new.verified = a.verified
      /\ new.email = a.email /\ new.google = a.google
  BY DEF Accounts
<1>2. Proof(token', u, new)
  BY <1>1 DEF Proof
<1>3. account \in [Users -> Accounts]
  BY DEF IInv, TypeOK
<1>4. account' = [account EXCEPT ![u] = new] \/ account' = [account EXCEPT ![u] = a]
  BY DEF Change
<1> HIDE DEF new
<1>5. \A v \in Users : v # u => account'[v] = account[v]
  BY <1>3, <1>4
<1>6. account'[u] = new \/ account'[u] = a
  BY <1>3, <1>4
<1>7. \A v \in Users : Proof(token', v, account[v])
  BY ProofLasts DEF Standing
<1> QED
  BY <1>1, <1>2, <1>5, <1>6, <1>7 DEF AccountsOnward

LEMMA IssueOnward ==
    ASSUME IInv, NEW u, NEW purpose, NEW e, NEW a, Issue(u, purpose, e, a),
           purpose = "PASSWORD_RESET" => account'[u].pw # None
    PROVE  TokensOnward
<1>1. \A t \in Issued : t \in DOMAIN token' /\ token'[t] = token[t]
  BY IssuedCounted DEF Issue
<1>2. \A t \in DOMAIN token' : t \in Issued \/ (token'[t].user = u /\ token'[t].purpose = purpose)
  BY IssuedCounted DEF Issue
<1> QED
  BY <1>1, <1>2 DEF TokensOnward

LEMMA UseOnward ==
    ASSUME IInv, NEW u, NEW used, UseToken(u, used)
    PROVE  /\ TokensOnward
           /\ used \in Issued => /\ used \in DOMAIN token' /\ token'[used].state = "consumed"
                                 /\ token'[used].user = token[used].user
                                 /\ token'[used].email = token[used].email
                                 /\ token'[used].purpose = token[used].purpose
<1>1. DOMAIN token' = Issued
  BY UseTokenGrows
<1>2. ASSUME NEW t \in Issued
      PROVE  /\ token'[t].user = token[t].user /\ token'[t].email = token[t].email
             /\ token'[t].purpose = token[t].purpose
             /\ t = used => token'[t].state = "consumed"
             /\ token[t].state = "consumed" => token'[t].state = "consumed"
  <2>1. token[t] \in Tokens
    BY TokenFacts
  <2> QED
    BY <2>1 DEF UseToken, Tokens
<1> QED
  BY <1>1, <1>2 DEF TokensOnward

(* The request of one browser; those of the others are left.                *)
LEMMA RequestOnward ==
    ASSUME IInv, NEW b \in Browsers, NEW r, req' = [req EXCEPT ![b] = r],
           r # None => r.op \notin {"verify", "reset", "connect"}
    PROVE  RequestsOnward
  BY DEF IInv, TypeOK, RequestsOnward, ProvenFor

LEMMA SessionOnward ==
    ASSUME IInv, NEW b \in Browsers, NEW u, NEW proof, ThenSession(b, u, proof)
    PROVE  RequestsOnward
  BY RequestOnward DEF ThenSession

LEMMA IntentOnward ==
    ASSUME IInv, NEW b \in Browsers, UNCHANGED intent \/ intent' = [intent EXCEPT ![b] = None]
    PROVE  IntentsOnward
  BY DEF IInv, TypeOK, IntentsOnward

LEMMA RefuseOnward ==
    ASSUME IInv, Standing, NEW b \in Browsers, Refuse(b)
    PROVE  Onward
<1>1. UNCHANGED <<account, token, cookie, intent>> /\ req' = [req EXCEPT ![b] = None]
  BY DEF Refuse
<1> QED
  BY <1>1, TokensStay, AccountsStay, RequestOnward, IntentOnward DEF Onward

LEMMA BrowserStepOnward ==
    ASSUME IInv, Standing, NEW b \in Browsers,
           \/ OpenSession(b) \/ DropCookie(b) \/ Logout(b) \/ Lose(b) \/ Login(b)
           \/ BeginGoogle(b) \/ ExpireIntent(b) \/ CallbackLogin(b)
    PROVE  Onward
<1> USE DEF Onward
<1>1. UNCHANGED token /\ TokensOnward
  <2>1. UNCHANGED token
    BY DEF OpenSession, DropCookie, Logout, Lose, Refuse, Login, BeginGoogle, ExpireIntent, CallbackLogin
  <2> QED
    BY <2>1, TokensStay
<1>2. UNCHANGED account => AccountsOnward
  BY <1>1, AccountsStay
<1>3. UNCHANGED req => RequestsOnward
  BY DEF RequestsOnward
<1>4. CASE OpenSession(b)
  BY <1>1, <1>2, <1>4, RequestOnward, IntentOnward DEF OpenSession
<1>5. CASE DropCookie(b) \/ Logout(b) \/ ExpireIntent(b)
  BY <1>1, <1>2, <1>3, <1>5, IntentOnward DEF DropCookie, Logout, ExpireIntent
<1>6. CASE Lose(b)
  BY <1>6, RefuseOnward DEF Lose
<1>7. CASE Login(b)
  <2>1. PICK u \in Users, p \in Passwords : ThenSession(b, u, p) /\ UNCHANGED <<account, token, cookie, intent>>
    BY <1>7 DEF Login
  <2> QED
    BY <1>1, <1>2, <2>1, SessionOnward, IntentOnward
<1>8. CASE BeginGoogle(b)
  <2>1. UNCHANGED <<account, token, cookie, req>>
    BY <1>8 DEF BeginGoogle
  <2>2. \A c \in Browsers : c # b => intent'[c] = intent[c]
    BY <1>8 DEF BeginGoogle, IInv, TypeOK
  <2>3. \/ intent'[b].user = Me(b) /\ account[Me(b)].verified
        \/ intent'[b].user = None
    BY <1>8 DEF BeginGoogle, LoginIntent, IInv, TypeOK
  <2>4. IntentsOnward
    BY <2>1, <2>2, <2>3 DEF IntentsOnward
  <2> QED
    BY <1>1, <1>2, <1>3, <2>1, <2>4
<1>9. CASE CallbackLogin(b)
  <2>1. PICK s \in Subjects :
        \/ \E u \in GoogleOwner(s) : ThenSession(b, u, None) /\ UNCHANGED account
        \/ \E u \in Users :
            /\ ~Exists(u)
            /\ account' = [account EXCEPT ![u] = [@ EXCEPT !.status = "PENDING_APPROVAL", !.google = s,
                                                 !.email = GoogleEmail[s], !.verified = TRUE]]
            /\ ThenSession(b, u, None)
    BY <1>9 DEF CallbackLogin
  <2>2. IntentsOnward
    BY <1>9, IntentOnward DEF CallbackLogin
  <2>3. RequestsOnward
    BY <2>1, SessionOnward
  <2>4. ASSUME NEW u \in Users, ~Exists(u),
               account' = [account EXCEPT ![u] = [@ EXCEPT !.status = "PENDING_APPROVAL", !.google = s,
                                                    !.email = GoogleEmail[s], !.verified = TRUE]]
        PROVE  AccountsOnward
    <3> DEFINE a == [account[u] EXCEPT !.status = "PENDING_APPROVAL", !.google = s,
                                       !.email = GoogleEmail[s], !.verified = TRUE]
    <3>1. /\ account[u] \in Accounts /\ account[u].status = "ABSENT" /\ Proof(token, u, account[u])
          /\ GoogleEmail[s] \in Emails /\ s # None
      BY <2>4 DEF IInv, TypeOK, Standing, Exists
    <3>2. a \in Accounts /\ a.pw = account[u].pw /\ a.managed = account[u].managed
          /\ a.status = "PENDING_APPROVAL" /\ a.google = s /\ a.email = GoogleEmail[s] /\ a.verified
      BY <3>1 DEF Accounts, Statuses
    <3>3. account' = [account EXCEPT ![u] = a]
      BY <2>4 DEF IInv, TypeOK
    <3> HIDE DEF a
    <3>4. Proof(token', u, a)
      BY <3>1, <3>2 DEF Proof
    <3> QED
      BY <1>1, <3>1, <3>2, <3>3, <3>4, ChangeOnward DEF Proof
  <2> QED
    BY <1>1, <1>2, <2>1, <2>2, <2>3, <2>4
<1> QED
  BY <1>4, <1>5, <1>6, <1>7, <1>8, <1>9

LEMMA AskStepOnward ==
    ASSUME IInv, Standing, NEW b \in Browsers,
           \/ AskPassword(b) \/ AskEmail(b) \/ AskResend(b) \/ AskToken(b)
           \/ AskForgot(b) \/ AskDisconnect(b) \/ CallbackLink(b)
    PROVE  Onward
<1>1. UNCHANGED <<account, token>> /\ (UNCHANGED intent \/ intent' = [intent EXCEPT ![b] = None])
  BY DEF AskPassword, AskEmail, AskResend, AskToken, AskForgot, AskDisconnect, CallbackLink, Ask
<1>2. PICK op, u, typed, new, e, t, s :
        /\ Ask(b, op, u, typed, new, e, t, s)
        /\ op = "verify" => token[t].purpose = "EMAIL_VERIFICATION"
        /\ op = "reset" => token[t].purpose = "PASSWORD_RESET"
        /\ op = "connect" => account[u].verified
  <2>1. CASE AskToken(b)
    <3>1. PICK t \in Issued :
            IF token[t].purpose = "EMAIL_VERIFICATION"
            THEN Ask(b, "verify", token[t].user, None, None, None, t, None)
            ELSE \E p \in Passwords : Ask(b, "reset", token[t].user, None, p, None, t, None)
      BY <2>1 DEF AskToken
    <3>2. token[t].purpose \in {"EMAIL_VERIFICATION", "PASSWORD_RESET"}
      BY TokenFacts DEF Tokens
    <3> QED
      BY <3>1, <3>2
  <2>2. CASE CallbackLink(b)
    <3>1. PICK s \in Subjects : Ask(b, "connect", Me(b), account[Me(b)].pw, None, None, 0, s)
      BY <2>2 DEF CallbackLink
    <3>2. /\ intent[b] # None /\ intent[b].user = Me(b) /\ Me(b) # None
      <4>1. SignedIn(b) /\ intent[b] = [user |-> Me(b), ver |-> account[Me(b)].ver]
        BY <2>2 DEF CallbackLink
      <4>2. Me(b) \in Users
        BY <4>1, OwnAccount
      <4>3. [user |-> Me(b), ver |-> account[Me(b)].ver] \in Intents
        BY <4>1, OwnAccount DEF Accounts, Intents
      <4> QED
        BY <4>1, <4>2, <4>3, IntentAssumption
    <3>3. account[Me(b)].verified
      BY <3>2 DEF Standing
    <3> QED
      BY <3>1, <3>3
  <2>3. CASE AskPassword(b) \/ AskDisconnect(b)
    BY <2>3 DEF AskPassword, AskDisconnect
  <2>4. CASE AskEmail(b) \/ AskResend(b) \/ AskForgot(b)
    BY <2>4 DEF AskEmail, AskResend, AskForgot
  <2> QED
    BY <2>1, <2>2, <2>3, <2>4
<1> DEFINE r == [op |-> op, user |-> u, typed |-> typed, new |-> new, email |-> e, token |-> t, subject |-> s]
<1>3. req' = [req EXCEPT ![b] = r]
  BY <1>2 DEF Ask
<1>4. RequestsOnward
  <2>1. ProvenFor(r)'
    BY <1>1, <1>2 DEF ProvenFor
  <2> HIDE DEF r
  <2>2. req'[b] = r /\ \A c \in Browsers : c # b => req'[c] = req[c]
    BY <1>3 DEF IInv, TypeOK
  <2>3. ProvenFor(req[b])'
    BY <2>1, <2>2 DEF ProvenFor
  <2> QED
    BY <2>2, <2>3 DEF RequestsOnward
<1> QED
  BY <1>1, <1>4, TokensStay, AccountsStay, IntentOnward DEF Onward

(* The transactions.                                                        *)
LEMMA PasswordOnward ==
    ASSUME IInv, Standing, NEW b \in Browsers, CommitPassword(b)
    PROVE  Onward
<1> DEFINE u == req[b].user
           a == account[u]
           new == [a EXCEPT !.pw = req[b].new, !.managed = FALSE]
<1>1. CASE Refuse(b)
  BY <1>1, RefuseOnward
<1>2. CASE ~Refuse(b)
  <2>1. /\ req[b] # None /\ req[b].op = "password" /\ a.pw # None
        /\ Change(u, new) /\ UseToken(u, 0) /\ ThenSession(b, u, req[b].new) /\ UNCHANGED <<cookie, intent>>
    BY <1>2 DEF CommitPassword, Commits
  <2>2. u \in Users /\ a \in Accounts /\ req[b].new \in Passwords /\ Proof(token, u, a)
    BY <2>1, RequestFacts DEF RequestSound, Requests, Standing
  <2>3. /\ new \in Accounts /\ new.pw = req[b].new /\ ~new.managed /\ new.status = a.status
        /\ new.verified = a.verified /\ new.email = a.email /\ new.google = a.google
    BY <2>2 DEF Accounts
  <2>4. TokensOnward
    BY <2>1, UseOnward
  <2> HIDE DEF new, a, u
  <2>5. Proof(token', u, a)
    BY <2>2, <2>4, ProofLasts
  <2>6. Proof(token', u, new)
    BY <2>1, <2>3, <2>5 DEF Proof
  <2>7. new.pw # None
    BY <2>2, <2>3
  <2>8. AccountsOnward
    BY <2>1, <2>2, <2>3, <2>4, <2>6, <2>7, ChangeOnward DEF a
  <2> QED
    BY <2>1, <2>4, <2>8, SessionOnward, IntentOnward DEF Onward
<1> QED
  BY <1>1, <1>2

LEMMA IssuedOnward ==
    ASSUME IInv, Standing, NEW b \in Browsers, CommitIssue(b) \/ CommitForgot(b)
    PROVE  Onward
<1> DEFINE u == req[b].user
<1>1. CASE Refuse(b)
  BY <1>1, RefuseOnward
<1>2. CASE ~Refuse(b)
  <2>1. /\ req' = [req EXCEPT ![b] = None] /\ UNCHANGED <<account, cookie, intent>>
        /\ \/ Issue(u, "EMAIL_VERIFICATION", req[b].email, account[u])
           \/ Issue(u, "PASSWORD_RESET", req[b].email, account[u]) /\ account[u].pw # None
    BY <1>2 DEF CommitIssue, CommitForgot, MayReset
  <2>2. TokensOnward
    BY <2>1, IssueOnward
  <2> QED
    BY <2>1, <2>2, AccountsStay, RequestOnward, IntentOnward DEF Onward
<1> QED
  BY <1>1, <1>2

LEMMA VerifyOnward ==
    ASSUME IInv, Standing, NEW b \in Browsers, CommitVerify(b)
    PROVE  Onward
<1> DEFINE t == req[b].token
           u == token[t].user
           e == token[t].email
           a == account[u]
           new == [a EXCEPT !.email = e, !.verified = TRUE]
<1>1. CASE Refuse(b)
  BY <1>1, RefuseOnward
<1>2. CASE ~Refuse(b)
  <2>1. /\ req[b] # None /\ req[b].op = "verify"
        /\ Change(u, new) /\ UseToken(u, t) /\ UNCHANGED <<cookie, intent>>
        /\ ThenSession(b, u, None) \/ req' = [req EXCEPT ![b] = None]
    BY <1>2 DEF CommitVerify, Commits
  <2>2. t \in Issued /\ token[t].purpose = "EMAIL_VERIFICATION"
    BY <2>1, RequestFacts DEF RequestSound, Standing, ProvenFor
  <2>3. u \in Users /\ a \in Accounts /\ e \in Emails /\ Proof(token, u, a) /\ a.status # "ABSENT"
    BY <2>2, TokenFacts DEF Standing
  <2>4. /\ new \in Accounts /\ new.pw = a.pw /\ new.managed = a.managed /\ new.status = a.status
        /\ new.verified /\ new.email = e /\ new.google = a.google
    BY <2>3 DEF Accounts
  <2>5. TokensOnward
    BY <2>1, UseOnward
  <2>6. Mailed(token', u, e)
    BY <2>1, <2>2, UseOnward DEF Mailed
  <2> HIDE DEF new, a, u, e, t
  <2>7. Proof(token', u, new)
    BY <2>3, <2>4, <2>6 DEF Proof
  <2>8. AccountsOnward
    BY <2>1, <2>3, <2>4, <2>5, <2>7, ChangeOnward DEF a
  <2>9. RequestsOnward
    BY <2>1, SessionOnward, RequestOnward
  <2> QED
    BY <2>1, <2>5, <2>8, <2>9, IntentOnward DEF Onward
<1> QED
  BY <1>1, <1>2

LEMMA ResetOnward ==
    ASSUME IInv, Standing, NEW b \in Browsers, CommitReset(b)
    PROVE  Onward
<1> DEFINE t == req[b].token
           u == token[t].user
           a == account[u]
           new == [a EXCEPT !.pw = req[b].new, !.managed = FALSE]
<1>1. CASE Refuse(b)
  BY <1>1, RefuseOnward
<1>2. CASE ~Refuse(b)
  <2>1. /\ req[b] # None /\ req[b].op = "reset"
        /\ Change(u, new) /\ UseToken(u, t) /\ intent' = [intent EXCEPT ![b] = None]
        /\ req' = [req EXCEPT ![b] = None]
    BY <1>2 DEF CommitReset, Commits
  <2>2. t \in Issued /\ token[t].purpose = "PASSWORD_RESET" /\ req[b].new \in Passwords
    BY <2>1, RequestFacts DEF RequestSound, Requests, Standing, ProvenFor
  <2>3. u \in Users /\ a \in Accounts /\ Proof(token, u, a) /\ a.pw # None
    BY <2>2, TokenFacts DEF Standing
  <2>4. /\ new \in Accounts /\ new.pw = req[b].new /\ ~new.managed /\ new.status = a.status
        /\ new.verified = a.verified /\ new.email = a.email /\ new.google = a.google
    BY <2>2, <2>3 DEF Accounts
  <2>5. TokensOnward
    BY <2>1, UseOnward
  <2> HIDE DEF new, a, u, t
  <2>6. Proof(token', u, a)
    BY <2>3, <2>5, ProofLasts
  <2>7. Proof(token', u, new) /\ new.pw # None
    BY <2>2, <2>3, <2>4, <2>6 DEF Proof
  <2>8. AccountsOnward
    BY <2>1, <2>3, <2>4, <2>5, <2>7, ChangeOnward DEF a
  <2> QED
    BY <2>1, <2>5, <2>8, RequestOnward, IntentOnward DEF Onward
<1> QED
  BY <1>1, <1>2

(* Google is connected to, and taken from, accounts that have a password:   *)
(* what proves their address is a mail.                                     *)
LEMMA GoogleOnward ==
    ASSUME IInv, Standing, NEW b \in Browsers, CommitConnect(b) \/ CommitDisconnect(b)
    PROVE  Onward
<1> DEFINE u == req[b].user
           s == req[b].subject
           a == account[u]
           new(g) == [a EXCEPT !.google = g, !.verified = TRUE]
           none == [a EXCEPT !.google = None]
<1>1. CASE Refuse(b)
  BY <1>1, RefuseOnward
<1>2. CASE ~Refuse(b)
  <2>1. /\ req[b] # None /\ a.pw # None
        /\ UNCHANGED <<token, cookie, intent>>
        /\ \E proof : ThenSession(b, u, proof)
        /\ \/ UNCHANGED account
           \/ req[b].op = "connect" /\ Change(u, new(s))
           \/ req[b].op = "disconnect" /\ Change(u, none)
    BY <1>2 DEF CommitConnect, CommitDisconnect, Commits
  <2>2. TokensOnward /\ RequestsOnward /\ IntentsOnward
    BY <2>1, TokensStay, SessionOnward, IntentOnward
  <2>3. u \in Users /\ a \in Accounts /\ s \in Subjects \cup {None} /\ Proof(token, u, a)
    BY <2>1, RequestFacts DEF Requests, Standing
  <2>4. req[b].op = "connect" => a.verified
    BY <2>1 DEF Standing, ProvenFor
  <2>5. \A g \in {s, None} : LET n == [a EXCEPT !.google = g]
        IN /\ n \in Accounts /\ n.pw = a.pw /\ n.managed = a.managed /\ n.status = a.status
           /\ n.verified = a.verified /\ n.email = a.email
    BY <2>3 DEF Accounts
  <2>6. a.verified => new(s) = [a EXCEPT !.google = s]
    BY <2>3 DEF Accounts
  <2>7. CASE UNCHANGED account
    BY <2>2, <2>7, AccountsStay DEF Onward
  <2>8. CASE ~UNCHANGED account
    <3>1. PICK n \in Accounts : /\ Change(u, n)
                                /\ n.pw = a.pw /\ n.managed = a.managed /\ n.status = a.status
                                /\ n.verified = a.verified /\ n.email = a.email
      BY <2>1, <2>4, <2>5, <2>6, <2>8
    <3> HIDE DEF a, u, s, new, none
    <3>2. Proof(token', u, a)
      BY <2>2, <2>3, ProofLasts
    <3>3. Proof(token', u, n)
      BY <2>1, <3>1, <3>2 DEF Proof
    <3>4. AccountsOnward
      BY <2>1, <2>2, <2>3, <3>1, <3>3, ChangeOnward DEF a
    <3> QED
      BY <2>2, <3>4 DEF Onward
  <2> QED
    BY <2>7, <2>8
<1> QED
  BY <1>1, <1>2

LEMMA SystemStepOnward ==
    ASSUME IInv, Standing,
           \/ \E u \in Users :
                \/ \E e \in Emails \ {RootEmail}, p \in Passwords : RegisterLocal(u, e, p)
                \/ \E s \in Statuses : AdminChanges(u, s)
           \/ \E p \in Passwords : Restart(p)
           \/ \E t \in Issued : Expire(t)
    PROVE  Onward
<1> USE DEF Onward
<1>1. UNCHANGED <<intent, req>> /\ IntentsOnward /\ RequestsOnward
  <2>1. UNCHANGED <<intent, req>>
    BY DEF RegisterLocal, AdminChanges, Restart, Expire
  <2> QED
    BY <2>1 DEF IntentsOnward, RequestsOnward
<1>2. \A u \in Users : account[u] \in Accounts /\ Proof(token, u, account[u])
  BY DEF IInv, TypeOK, Standing
<1>3. ASSUME NEW u \in Users, NEW e \in Emails, NEW p \in Passwords, RegisterLocal(u, e, p)
      PROVE  Onward
  <2> DEFINE old == account[u]
             a == [old EXCEPT !.status = "PENDING_APPROVAL", !.email = e, !.pw = p]
  <2>1. old \in Accounts /\ Proof(token, u, old) /\ old.status = "ABSENT"
    BY <1>2, <1>3 DEF RegisterLocal, Exists
  <2>2. /\ a \in Accounts /\ a.status = "PENDING_APPROVAL" /\ a.pw = p /\ a.verified = old.verified
        /\ a.managed = old.managed
    BY <2>1 DEF Accounts, Statuses
  <2>3. account' = [account EXCEPT ![u] = a] /\ Issue(u, "EMAIL_VERIFICATION", e, a)
    BY <1>3 DEF RegisterLocal
  <2>4. TokensOnward
    BY <2>3, IssueOnward
  <2> HIDE DEF a, old
  <2>5. Proof(token', u, a) /\ ~old.verified /\ a.pw # None
    BY <2>1, <2>2 DEF Proof
  <2>6. AccountsOnward
    BY <2>2, <2>3, <2>4, <2>5, ChangeOnward DEF old
  <2> QED
    BY <1>1, <2>4, <2>6
<1>4. ASSUME NEW u \in Users, NEW s \in Statuses, AdminChanges(u, s)
      PROVE  Onward
  <2> DEFINE old == account[u]
             a == [old EXCEPT !.status = s]
  <2>1. /\ old \in Accounts /\ Proof(token, u, old) /\ old.status # "ABSENT" /\ s # "ABSENT"
        /\ Change(u, a) /\ UNCHANGED token
    BY <1>2, <1>4 DEF AdminChanges
  <2>2. /\ a \in Accounts /\ a.status = s /\ a.pw = old.pw /\ a.verified = old.verified
        /\ a.managed = old.managed /\ a.email = old.email /\ a.google = old.google
    BY <2>1 DEF Accounts
  <2>3. TokensOnward
    BY <2>1, TokensStay
  <2> HIDE DEF a, old
  <2>4. Proof(token', u, a)
    BY <2>1, <2>2 DEF Proof
  <2>5. AccountsOnward
    BY <2>1, <2>2, <2>3, <2>4, ChangeOnward DEF old
  <2> QED
    BY <1>1, <2>3, <2>5
<1>5. ASSUME NEW p \in Passwords, Restart(p)
      PROVE  Onward
  <2> DEFINE old == account[Root]
             a == [old EXCEPT !.pw = p]
  <2>1. /\ old \in Accounts /\ Proof(token, Root, old) /\ old.status = "ACTIVE" /\ old.managed
        /\ Change(Root, a) /\ UNCHANGED token
    BY <1>2, <1>5 DEF Restart
  <2>2. /\ a \in Accounts /\ a.status = old.status /\ a.pw = p /\ a.verified = old.verified
        /\ a.managed = old.managed /\ a.email = old.email /\ a.google = old.google
    BY <2>1 DEF Accounts
  <2>3. TokensOnward
    BY <2>1, TokensStay
  <2> HIDE DEF a, old
  <2>4. Proof(token', Root, a) /\ a.pw # None
    BY <2>1, <2>2 DEF Proof
  <2>5. AccountsOnward
    BY <2>1, <2>2, <2>3, <2>4, ChangeOnward DEF old
  <2> QED
    BY <1>1, <2>3, <2>5
<1>6. ASSUME NEW t \in Issued, Expire(t)
      PROVE  Onward
  <2>1. TokensOnward
    <3>1. \A i \in Issued : token[i] \in Tokens
      BY TokenFacts
    <3>2. token' = [token EXCEPT ![t].expired = TRUE]
      BY <1>6 DEF Expire
    <3>3. DOMAIN token' = Issued
      BY <3>2 DEF Issued
    <3>4. \A i \in Issued : /\ token'[i].user = token[i].user /\ token'[i].email = token[i].email
                            /\ token'[i].purpose = token[i].purpose /\ token'[i].state = token[i].state
      BY <3>1, <3>2 DEF Issued, Tokens
    <3> QED
      BY <3>3, <3>4 DEF TokensOnward
  <2> QED
    BY <1>1, <1>6, <2>1, AccountsStay DEF Expire
<1> QED
  BY <1>3, <1>4, <1>5, <1>6

LEMMA StepOnward ==
    ASSUME IInv, Standing, [Next]_vars
    PROVE  Onward
<1>1. CASE Next
  BY <1>1, BrowserStepOnward, AskStepOnward, PasswordOnward, IssuedOnward, VerifyOnward, ResetOnward,
     GoogleOnward, SystemStepOnward DEF Next
<1>2. CASE UNCHANGED vars
  <2>1. UNCHANGED <<account, token, intent, req>>
    BY <1>2 DEF vars
  <2> QED
    BY <2>1, TokensStay, AccountsStay DEF Onward, IntentsOnward, RequestsOnward
<1> QED
  BY <1>1, <1>2

(***************************************************************************)
(* A verified address is proven as it stands, through changes of address,  *)
(* resets, Google links made and given up, and restarts: by a mail to it,  *)
(* or by the Google account that registered with it.                       *)
(***************************************************************************)
THEOREM AddressesProven == Spec => []AddressProven
<1>1. Init => Standing
  <2> SUFFICES ASSUME Init PROVE Standing
    OBVIOUS
  <2>1. ASSUME NEW u \in Users PROVE Proof(token, u, account[u])
    <3>1. PICK p \in Passwords :
            /\ account[u].status = IF u = Root THEN "ACTIVE" ELSE "ABSENT"
            /\ account[u].verified = FALSE
            /\ account[u].pw = IF u = Root THEN p ELSE None
            /\ account[u].managed = (u = Root)
      BY DEF Init
    <3> QED
      BY <3>1 DEF Proof
  <2> QED
    BY <2>1 DEF Init, Standing, Issued
<1>2. IInv /\ Standing /\ [Next]_vars => Standing'
  BY StepOnward, OnwardPreserves
<1>3. Standing => AddressProven
  BY DEF Standing, Proof, Mailed, AddressProven, Issued
<1> QED
  BY <1>1, <1>2, <1>3, InvariantHolds, PTL DEF Spec
=============================================================================
