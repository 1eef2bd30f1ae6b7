---------------------------- MODULE AccountSecurity ----------------------------
(***************************************************************************)
(* Credentials: passwords, e-mail addresses and their one-time tokens, the *)
(* explicit Google link, and the cookies that auth_version keeps honest.   *)
(* A request first checks what it can without a lock (the view, with the   *)
(* account as session_user() read it), then commits a transaction that     *)
(* begins by locking and re-reading the account row, and the browser gets  *)
(* its new cookie in a third step, after the commit.                       *)
(*                                                                         *)
(* Demo accounts are refused by every operation and are left out.          *)
(* Operators with an underscore in their name state mistakes: runs show    *)
(* that a property would notice them.                                      *)
(***************************************************************************)
EXTENDS Integers, FiniteSets

CONSTANTS
    Users, Root,         \* account ids, and the bootstrap administrator
    Browsers,            \* cookie jars, each with one request under way
    Passwords,
    Emails, RootEmail,   \* addresses, and the undeliverable one of Root
    Subjects, GoogleEmail, \* Google accounts and the address each proves
    None,
    MaxTokens,           \* bound: tokens ever issued
    MaxVersion           \* bound: changes of one account

ASSUME RootAssumption == Root \in Users /\ RootEmail \in Emails
ASSUME GoogleAssumption == GoogleEmail \in [Subjects -> Emails \ {RootEmail}]
ASSUME NoneAssumption == None \notin Passwords \cup Emails \cup Subjects \cup Users
ASSUME BoundsAssumption == MaxTokens \in Nat /\ MaxVersion \in Nat \ {0}

VARIABLES
    account,  \* the credential columns of UserAccount and its Google identity
    token,    \* AccountAuthToken rows, in the order they were issued
    cookie,   \* the signed session of each browser
    intent,   \* the Google intent in that session
    req       \* the request of each browser

vars == <<account, token, cookie, intent, req>>

-----------------------------------------------------------------------------
Statuses == {"ABSENT", "PENDING_APPROVAL", "ACTIVE", "REJECTED", "SUSPENDED"}

(* ver is auth_version, login whether there is a login_name, managed is    *)
(* bootstrap_password_managed.                                             *)
Accounts ==
    [status : Statuses, login : BOOLEAN, email : Emails, verified : BOOLEAN,
     pw : Passwords \cup {None}, managed : BOOLEAN, google : Subjects \cup {None}, ver : 1..MaxVersion]

(* basis is the account as it was when the token or the cookie was made;   *)
(* the code stores and compares basis.ver only.                            *)
Tokens ==
    [user : Users, purpose : {"EMAIL_VERIFICATION", "PASSWORD_RESET"}, email : Emails,
     state : {"open", "consumed", "revoked"}, expired : BOOLEAN, basis : Accounts]

(* proof is the password that opened the session, None for Google or mail. *)
Cookies == [user : Users, proof : Passwords \cup {None}, basis : Accounts]

Intents == [user : Users \cup {None}, ver : 0..MaxVersion]
ASSUME IntentAssumption == None \notin Intents

Operations == {"password", "email", "resend", "verify", "forgot", "reset", "connect", "disconnect",
               "session"}

Requests ==
    [op : Operations, user : Users, typed : Passwords \cup {None}, new : Passwords \cup {None},
     email : Emails \cup {None}, token : 0..MaxTokens, subject : Subjects \cup {None}]

LoginIntent == [user |-> None, ver |-> 0]

Issued == DOMAIN token

TypeOK ==
    /\ account \in [Users -> Accounts]
    /\ \E n \in 0..MaxTokens : token \in [1..n -> Tokens]
    /\ cookie \in [Browsers -> Cookies \cup {None}]
    /\ intent \in [Browsers -> Intents \cup {None}]
    /\ req \in [Browsers -> Requests \cup {None}]

-----------------------------------------------------------------------------
Exists(u) == account[u].status # "ABSENT"
Owner(e) == {u \in Users : Exists(u) /\ account[u].email = e}
GoogleOwner(s) == {u \in Users : account[u].google = s}

(* email_verification_pending, negated.                                    *)
SignInName(a) == a.login \/ a.verified

Init ==
    /\ \E p \in Passwords : account =
        [u \in Users |->
            [status |-> IF u = Root THEN "ACTIVE" ELSE "ABSENT", login |-> u = Root, email |-> RootEmail,
             verified |-> FALSE, pw |-> IF u = Root THEN p ELSE None, managed |-> u = Root,
             google |-> None, ver |-> 1]]
    /\ token = <<>>
    /\ cookie = [b \in Browsers |-> None]
    /\ intent = [b \in Browsers |-> None]
    /\ req = [b \in Browsers |-> None]

(* Every change of the credentials counts auth_version up.                 *)
Change(u, a) ==
    /\ account[u].ver < MaxVersion
    /\ account' = [account EXCEPT ![u] = [a EXCEPT !.ver = account[u].ver + 1]]

Issue(u, purpose, e, a) ==
    /\ Cardinality(Issued) < MaxTokens
    /\ token' = [t \in 1..(Cardinality(Issued) + 1) |->
                   IF t \in Issued THEN token[t]
                   ELSE [user |-> u, purpose |-> purpose, email |-> e, state |-> "open",
                         expired |-> FALSE, basis |-> a]]

(* _revoke_open_tokens, with the token just used.                          *)
UseToken(u, used) ==
    token' = [t \in Issued |->
                IF t = used THEN [token[t] EXCEPT !.state = "consumed"]
                ELSE IF token[t].user = u /\ token[t].state = "open"
                     THEN [token[t] EXCEPT !.state = "revoked"]
                     ELSE token[t]]

-----------------------------------------------------------------------------
(* Requests.                                                               *)

SignedIn(b) == cookie[b] # None /\ cookie[b].basis.ver = account[cookie[b].user].ver
Me(b) == cookie[b].user

(* before_request has called session_user(), which drops a cookie whose    *)
(* version is not the account's.                                           *)
Free(b) == req[b] = None /\ (cookie[b] = None \/ SignedIn(b))

Ask(b, op, u, typed, new, e, t, s) ==
    /\ Free(b)
    /\ req' = [req EXCEPT ![b] = [op |-> op, user |-> u, typed |-> typed, new |-> new, email |-> e,
                                 token |-> t, subject |-> s]]
    /\ UNCHANGED <<account, token, cookie>>

(* The request ends without an effect; the transaction rolls back.         *)
Refuse(b) == req' = [req EXCEPT ![b] = None] /\ UNCHANGED <<account, token, cookie, intent>>

(* After the commit, start_user_session() will read the account again.     *)
ThenSession(b, u, proof) ==
    req' = [req EXCEPT ![b] = [op |-> "session", user |-> u, typed |-> proof, new |-> None,
                              email |-> None, token |-> 0, subject |-> None]]

OpenSession(b) ==
    /\ req[b] # None /\ req[b].op = "session"
    /\ cookie' = [cookie EXCEPT ![b] = [user |-> req[b].user, proof |-> req[b].typed,
                                       basis |-> account[req[b].user]]]
    /\ intent' = [intent EXCEPT ![b] = None]
    /\ req' = [req EXCEPT ![b] = None]
    /\ UNCHANGED <<account, token>>

DropCookie(b) ==
    /\ req[b] = None
    /\ cookie[b] # None /\ ~SignedIn(b)
    /\ cookie' = [cookie EXCEPT ![b] = None]
    /\ intent' = [intent EXCEPT ![b] = None]
    /\ UNCHANGED <<account, token, req>>

Logout(b) ==
    /\ req[b] = None
    /\ cookie[b] # None
    /\ cookie' = [cookie EXCEPT ![b] = None]
    /\ intent' = [intent EXCEPT ![b] = None]
    /\ UNCHANGED <<account, token, req>>

(* The worker is lost, or the answer is.                                   *)
Lose(b) == req[b] # None /\ Refuse(b)

-----------------------------------------------------------------------------
(* Sign-in by password: authenticate_local_member reads without a lock and *)
(* writes only last_login_at, so the commit changes nothing modelled here. *)
Login(b) ==
    \E u \in Users, p \in Passwords :
        /\ Exists(u) /\ SignInName(account[u])
        /\ account[u].pw = p
        /\ Free(b)
        /\ ThenSession(b, u, p)
        /\ UNCHANGED <<account, token, cookie, intent>>

RegisterLocal(u, e, p) ==
    /\ ~Exists(u)
    /\ Owner(e) = {}
    /\ LET a == [account[u] EXCEPT !.status = "PENDING_APPROVAL", !.email = e, !.pw = p]
       IN /\ account' = [account EXCEPT ![u] = a]
          /\ Issue(u, "EMAIL_VERIFICATION", e, a)
    /\ UNCHANGED <<cookie, intent, req>>

(* What the views look at before the transaction.                          *)
AskPassword(b) ==
    /\ SignedIn(b)
    /\ \E old, new \in Passwords : Ask(b, "password", Me(b), old, new, None, 0, None)
    /\ UNCHANGED intent

AskEmail(b) ==
    /\ SignedIn(b)
    /\ account[Me(b)].status = "ACTIVE"
    /\ account[Me(b)].pw # None
    /\ \E e \in Emails \ {RootEmail} : Ask(b, "email", Me(b), account[Me(b)].pw, None, e, 0, None)
    /\ UNCHANGED intent

AskResend(b) ==
    /\ \E u \in Users :
        /\ Exists(u) /\ ~account[u].verified
        /\ Ask(b, "resend", u, None, None, account[u].email, 0, None)
    /\ UNCHANGED intent

(* Any holder of a token may submit it, signed in or not; its expiry is    *)
(* compared with the time the request began.                               *)
AskToken(b) ==
    /\ \E t \in Issued : /\ ~token[t].expired /\ token[t].email # RootEmail
                         /\ IF token[t].purpose = "EMAIL_VERIFICATION"
                            THEN Ask(b, "verify", token[t].user, None, None, None, t, None)
                            ELSE \E p \in Passwords : Ask(b, "reset", token[t].user, None, p, None, t, None)
    /\ UNCHANGED intent

MayReset(a, e) ==
    /\ a.email = e
    /\ a.verified
    /\ a.pw # None
    /\ a.status \in {"PENDING_APPROVAL", "ACTIVE"}

AskForgot(b) ==
    /\ \E e \in Emails : \E u \in Owner(e) :
        /\ MayReset(account[u], e)
        /\ Ask(b, "forgot", u, None, None, e, 0, None)
    /\ UNCHANGED intent

AskDisconnect(b) ==
    /\ SignedIn(b)
    /\ \E p \in Passwords : Ask(b, "disconnect", Me(b), p, None, None, 0, None)
    /\ UNCHANGED intent

-----------------------------------------------------------------------------
(* Google: the intent is stored in the cookie, Google answers a callback.  *)

BeginGoogle(b) ==
    /\ Free(b)
    /\ IF SignedIn(b)
       THEN /\ account[Me(b)].status = "ACTIVE" /\ account[Me(b)].verified /\ account[Me(b)].pw # None
            /\ intent' = [intent EXCEPT ![b] = [user |-> Me(b), ver |-> account[Me(b)].ver]]
       ELSE intent' = [intent EXCEPT ![b] = LoginIntent]
    /\ UNCHANGED <<account, token, cookie, req>>

(* The intent is consumed whatever comes of it, and may be too old.        *)
ExpireIntent(b) ==
    /\ req[b] = None
    /\ intent[b] # None
    /\ intent' = [intent EXCEPT ![b] = None]
    /\ UNCHANGED <<account, token, cookie, req>>

CallbackLink(b) ==
    /\ SignedIn(b)
    /\ intent[b] = [user |-> Me(b), ver |-> account[Me(b)].ver]
    /\ \E s \in Subjects : Ask(b, "connect", Me(b), account[Me(b)].pw, None, None, 0, s)
    /\ intent' = [intent EXCEPT ![b] = None]

CallbackLogin(b) ==
    /\ Free(b)
    /\ intent[b] = LoginIntent
    /\ intent' = [intent EXCEPT ![b] = None]
    /\ \E s \in Subjects :
        \/ \E u \in GoogleOwner(s) : ThenSession(b, u, None) /\ UNCHANGED account
        \/ /\ GoogleOwner(s) = {} /\ Owner(GoogleEmail[s]) = {}
           /\ \E u \in Users :
                /\ ~Exists(u)
                /\ account' = [account EXCEPT ![u] = [@ EXCEPT !.status = "PENDING_APPROVAL", !.google = s,
                                                     !.email = GoogleEmail[s], !.verified = TRUE]]
                /\ ThenSession(b, u, None)
    /\ UNCHANGED <<token, cookie>>

-----------------------------------------------------------------------------
(* Transactions, each under the lock of the account row.  What they ask of *)
(* other accounts (is the address taken?) is not locked; the UNIQUE        *)
(* constraints then refuse the later transaction, which rolls back.        *)

Commits(b, op) == req[b] # None /\ req[b].op = op

CommitPassword(b) ==
    /\ Commits(b, "password")
    /\ LET u == req[b].user
           a == account[u]
       IN IF a.status = "ACTIVE" /\ a.pw # None /\ a.pw = req[b].typed
          THEN /\ Change(u, [a EXCEPT !.pw = req[b].new, !.managed = FALSE])
               /\ UseToken(u, 0)
               /\ ThenSession(b, u, req[b].new)
               /\ UNCHANGED <<cookie, intent>>
          ELSE Refuse(b)

CommitIssue(b) ==
    /\ \E op \in {"email", "resend"} : Commits(b, op)
    /\ LET u == req[b].user
       IN IF Owner(req[b].email) \subseteq {u}
          THEN /\ Issue(u, "EMAIL_VERIFICATION", req[b].email, account[u])
               /\ req' = [req EXCEPT ![b] = None]
               /\ UNCHANGED <<account, cookie, intent>>
          ELSE Refuse(b)

CommitForgot(b) ==
    /\ Commits(b, "forgot")
    /\ LET u == req[b].user
       IN IF MayReset(account[u], req[b].email)
          THEN /\ Issue(u, "PASSWORD_RESET", req[b].email, account[u])
               /\ req' = [req EXCEPT ![b] = None]
               /\ UNCHANGED <<account, cookie, intent>>
          ELSE Refuse(b)

Usable_AnyVersion(t) == token[t].state = "open"

(* _locked_usable_token, after the locks: the row as it is now.            *)
Usable(t) == token[t].state = "open" /\ token[t].basis.ver = account[token[t].user].ver

CommitVerify_KeepsAddress(b) ==
    /\ Commits(b, "verify")
    /\ LET t == req[b].token
           u == token[t].user
       IN IF Usable(t) /\ Owner(token[t].email) \subseteq {u}
          THEN /\ Change(u, [account[u] EXCEPT !.verified = TRUE])
               /\ UseToken(u, t)
               /\ IF cookie[b] # None /\ Me(b) = u
                  THEN ThenSession(b, u, None)
                  ELSE req' = [req EXCEPT ![b] = None]
               /\ UNCHANGED <<cookie, intent>>
          ELSE Refuse(b)

CommitVerify(b) ==
    /\ Commits(b, "verify")
    /\ LET t == req[b].token
           u == token[t].user
           e == token[t].email
       IN IF Usable(t) /\ Owner(e) \subseteq {u}
          THEN /\ Change(u, [account[u] EXCEPT !.email = e, !.verified = TRUE])
               /\ UseToken(u, t)
               /\ IF cookie[b] # None /\ Me(b) = u
                  THEN ThenSession(b, u, None)
                  ELSE req' = [req EXCEPT ![b] = None]
               /\ UNCHANGED <<cookie, intent>>
          ELSE Refuse(b)

CommitReset(b) ==
    /\ Commits(b, "reset")
    /\ LET t == req[b].token
           u == token[t].user
       IN IF Usable(t) /\ account[u].verified /\ account[u].email = token[t].email
          THEN /\ Change(u, [account[u] EXCEPT !.pw = req[b].new, !.managed = FALSE])
               /\ UseToken(u, t)
               /\ cookie' = [cookie EXCEPT ![b] = None]
               /\ intent' = [intent EXCEPT ![b] = None]
               /\ req' = [req EXCEPT ![b] = None]
          ELSE Refuse(b)

CommitConnect(b) ==
    /\ Commits(b, "connect")
    /\ LET u == req[b].user
           s == req[b].subject
           a == account[u]
       IN IF /\ a.status = "ACTIVE" /\ a.pw # None /\ a.email = GoogleEmail[s]
             /\ GoogleOwner(s) \subseteq {u} /\ a.google \in {None, s}
          THEN /\ IF a.google = None THEN Change(u, [a EXCEPT !.google = s, !.verified = TRUE])
                                     ELSE UNCHANGED account
               /\ ThenSession(b, u, cookie[b].proof)
               /\ UNCHANGED <<token, cookie, intent>>
          ELSE Refuse(b)

CommitDisconnect_NoPassword(b) ==
    /\ Commits(b, "disconnect")
    /\ LET u == req[b].user
           a == account[u]
       IN IF a.status = "ACTIVE" /\ SignInName(a)
          THEN /\ IF a.google # None THEN Change(u, [a EXCEPT !.google = None]) ELSE UNCHANGED account
               /\ ThenSession(b, u, req[b].typed)
               /\ UNCHANGED <<token, cookie, intent>>
          ELSE Refuse(b)

CommitDisconnect(b) ==
    /\ Commits(b, "disconnect")
    /\ LET u == req[b].user
           a == account[u]
       IN IF a.status = "ACTIVE" /\ a.pw # None /\ SignInName(a) /\ a.pw = req[b].typed
          THEN /\ IF a.google # None THEN Change(u, [a EXCEPT !.google = None]) ELSE UNCHANGED account
               /\ ThenSession(b, u, req[b].typed)
               /\ UNCHANGED <<token, cookie, intent>>
          ELSE Refuse(b)

-----------------------------------------------------------------------------
(* The rest of the system: administrators (of whom some may be outside     *)
(* Users), the clock, and a restart with a configured bootstrap password.  *)

AdminChanges(u, s) ==
    /\ \/ account[u].status = s /\ s = "ACTIVE"    \* change_member_role
       \/ <<account[u].status, s>> \in
            {<<"PENDING_APPROVAL", "REJECTED">>, <<"REJECTED", "PENDING_APPROVAL">>,
             <<"ACTIVE", "SUSPENDED">>, <<"SUSPENDED", "ACTIVE">>}
       \/ /\ account[u].status = "PENDING_APPROVAL" /\ s = "ACTIVE"
          /\ SignInName(account[u])
    /\ Change(u, [account[u] EXCEPT !.status = s])
    /\ UNCHANGED <<token, cookie, intent, req>>

Restart_SameVersion(p) ==
    /\ account[Root].status = "ACTIVE"
    /\ account[Root].managed
    /\ account[Root].pw # p
    /\ account' = [account EXCEPT ![Root].pw = p]
    /\ UNCHANGED <<token, cookie, intent, req>>

Restart(p) ==
    /\ account[Root].status = "ACTIVE"
    /\ account[Root].managed
    /\ account[Root].pw # p
    /\ Change(Root, [account[Root] EXCEPT !.pw = p])
    /\ UNCHANGED <<token, cookie, intent, req>>

Expire(t) ==
    /\ ~token[t].expired /\ token[t].state = "open"
    /\ token' = [token EXCEPT ![t].expired = TRUE]
    /\ UNCHANGED <<account, cookie, intent, req>>

Next ==
    \/ \E b \in Browsers :
        \/ OpenSession(b) \/ DropCookie(b) \/ Logout(b) \/ Lose(b) \/ Login(b)
        \/ AskPassword(b) \/ AskEmail(b) \/ AskResend(b) \/ AskToken(b) \/ AskForgot(b) \/ AskDisconnect(b)
        \/ BeginGoogle(b) \/ ExpireIntent(b) \/ CallbackLink(b) \/ CallbackLogin(b)
        \/ CommitPassword(b) \/ CommitIssue(b) \/ CommitForgot(b) \/ CommitVerify(b)
        \/ CommitReset(b) \/ CommitConnect(b) \/ CommitDisconnect(b)
    \/ \E u \in Users :
        \/ \E e \in Emails \ {RootEmail}, p \in Passwords : RegisterLocal(u, e, p)
        \/ \E s \in Statuses : AdminChanges(u, s)
    \/ \E p \in Passwords : Restart(p)
    \/ \E t \in Issued : Expire(t)

Spec == Init /\ [][Next]_vars

-----------------------------------------------------------------------------
(* auth_version identifies the credentials: a token or a cookie made at    *)
(* the current version was made for exactly the account as it is now, so   *)
(* comparing one number is enough to end everything older than a change of *)
(* password, address, status, role or Google link.                         *)
VersionIdentifiesAccount ==
    LET Current(u, basis) == basis.ver = account[u].ver => basis = account[u]
    IN /\ \A t \in Issued : Current(token[t].user, token[t].basis)
       /\ \A b \in Browsers : cookie[b] # None => Current(Me(b), cookie[b].basis)

(* A token takes effect at most once, never after it was revoked, and only *)
(* on an account in which nothing has changed since the mail was sent, also*)
(* when two browsers submit it together or an administrator acts meanwhile.*)
TokenUseSound ==
    [][\A t \in Issued :
        /\ token[t].state # "open" => token'[t].state = token[t].state
        /\ token'[t].state = "consumed" /\ token[t].state = "open" =>
                token[t].basis = account[token[t].user]]_vars

(* However addresses, passwords and the Google link change, an approved    *)
(* account can sign in: a password with a name to type, or Google.         *)
SignInPossible ==
    \A u \in Users : account[u].status \in {"ACTIVE", "SUSPENDED"} =>
        \/ account[u].pw # None /\ SignInName(account[u])
        \/ account[u].google # None

(* A verified address was proven as it stands: by a token sent to it, or   *)
(* by the Google account that registered with it.                          *)
AddressProven ==
    \A u \in Users : account[u].verified =>
        \/ \E t \in Issued : /\ token[t].state = "consumed" /\ token[t].purpose = "EMAIL_VERIFICATION"
                             /\ <<token[t].user, token[t].email>> = <<u, account[u].email>>
        \/ account[u].google # None /\ GoogleEmail[account[u].google] = account[u].email

(* "Changing the password invalidates all existing sessions": once a user  *)
(* has chosen a password, no session rests on an earlier one.              *)
SessionsHoldCurrentPassword ==
    \A b \in Browsers :
        /\ cookie[b] # None /\ SignedIn(b)
        /\ cookie[b].proof # None /\ ~account[Me(b)].managed
        => cookie[b].proof = account[Me(b)].pw
=============================================================================
