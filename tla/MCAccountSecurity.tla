-------------------------- MODULE MCAccountSecurity --------------------------
(* The bootstrap administrator and one person, two passwords, two real     *)
(* addresses and a Google account that proves the first of them.           *)
EXTENDS AccountSecurity, TLC

MCGoogleEmail == [s \in Subjects |-> "mail1"]
Symmetry == Permutations(Browsers) \cup Permutations(Passwords)

(* The administrator has asked for a mail to "mail1" and used it, and has   *)
(* that address now; or has got a new password from a restart, has asked   *)
(* then, and the mail is on its way while others may be asked for.         *)
InitAsked ==
    \E used \in BOOLEAN, p \in Passwords :
        LET before == [status |-> "ACTIVE", login |-> TRUE, email |-> RootEmail, verified |-> FALSE,
                       pw |-> p, managed |-> TRUE, google |-> None, ver |-> IF used THEN 1 ELSE 2]
            nobody == [before EXCEPT !.status = "ABSENT", !.login = FALSE, !.pw = None, !.managed = FALSE,
                                      !.ver = 1]
        IN  /\ account = [u \in Users |->
                   IF u # Root THEN nobody
                   ELSE IF used THEN [before EXCEPT !.email = "mail1", !.verified = TRUE, !.ver = 2]
                   ELSE before]
            /\ token = [t \in {1} |->
                   [user |-> Root, purpose |-> "EMAIL_VERIFICATION", email |-> "mail1",
                    state |-> IF used THEN "consumed" ELSE "open", expired |-> FALSE, basis |-> before]]
            /\ cookie = [b \in Browsers |-> None]
            /\ intent = [b \in Browsers |-> None]
            /\ req = [b \in Browsers |-> None]

SpecAsked == InitAsked /\ [][Next]_vars
=============================================================================
