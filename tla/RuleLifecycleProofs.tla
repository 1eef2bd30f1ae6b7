------------------------ MODULE RuleLifecycleProofs ------------------------
(* What the unlocked stages keep, for any rules, requests, people and      *)
(* documents: the invariant says what a request's reading and checking     *)
(* leaves true until its commit.  A step is summarised by what it may do   *)
(* to each variable (Follows), the summary preserves the invariant, and    *)
(* every action obeys it.                                                  *)
EXTENDS RuleLifecycle, WellFoundedInduction, TLAPS

USE UsableAssumption, NoneAssumption, TimeAssumption

(* The reviewer an event or a request names is neither its actor nor the   *)
(* creator of the rule.                                                    *)
Independent(r, e) == e.review # e.actor /\ e.review # creator[r]

RequestSound(q) ==
    /\ q \in Forms /\ Exists(q.rule)
    /\ q.row.status = Needs[q.op]
    /\ q.op \in {"UPDATED", "CLONED"} => q.actor # None
    /\ q.op = "UPDATED" => q.content # None
    /\ q.op = "CLONED" => q.copy # None
    /\ q.op = "GOLDEN" => q.review # None /\ q.golden # None
    /\ q.checked => q.source # None
    /\ q.current # None => q.current # q.rule /\ Exists(q.current)
    /\ q.checked /\ q.op = "TESTED" => Independent(q.rule, q)

IInv ==
    /\ TypeOK
    /\ Allowed(rule)
    /\ \A p \in Requests : req[p] # None => RequestSound(req[p])
    /\ \A r \in Rules : audit[r]["TESTED"] # None => Exists(r) /\ Independent(r, audit[r]["TESTED"])

-----------------------------------------------------------------------------
Tables == [Rules -> Rows \cup {None}]
Logs == [Rules -> [Stages -> Events \cup {None}]]

(* A step that changes the text of a rule leaves its evidence alone.       *)
TextKept(r) == Exists(r) => rule'[r].content = rule[r].content \/ UNCHANGED <<audit, source>>

Superseded(r) == Published(r) /\ rule'[r].status = "SUPERSEDED"
SomePublished(rows) == \E s \in Rules : rows[s] # None /\ rows[s].status = "PUBLISHED"

(* No rule disappears, the index and the CHECK hold, and so on.            *)
RulesFollow ==
    /\ rule' \in Tables
    /\ \A r \in Rules : Exists(r) => rule'[r] # None
    /\ Allowed(rule')
    /\ \A r \in Rules : TextKept(r)
    /\ \A r \in Rules : Superseded(r) => SomePublished(rule')

CreatorsFollow ==
    /\ creator' \in [Rules -> Actors \cup {None}]
    /\ \A r \in Rules : Exists(r) => creator'[r] = creator[r]

(* The log of an existing rule with independent TESTED events.             *)
LogSound(log) ==
    \A r \in Rules : log[r]["TESTED"] # None => Exists(r) /\ Independent(r, log[r]["TESTED"])

RequestsFollow ==
    /\ req' \in [Requests -> Forms \cup {None}]
    /\ \A p \in Requests : req'[p] # None => RequestSound(req'[p])

Follows ==
    /\ RulesFollow /\ CreatorsFollow /\ RequestsFollow
    /\ audit' \in Logs /\ LogSound(audit')
    /\ review' \in [Rules -> [Reviewers -> Reviews \cup {None}]]
    /\ artifact' \in [Artifacts -> Runs \cup {None}]
    /\ source' \in Sources

LEMMA FollowingPreserves == IInv /\ Follows => IInv'
<1> SUFFICES ASSUME IInv, Follows PROVE IInv'
  OBVIOUS
<1>1. TypeOK' /\ Allowed(rule')
  BY DEF Follows, TypeOK, RulesFollow, CreatorsFollow, RequestsFollow, Tables, Logs
<1>2. \A r \in Rules : Exists(r) => Exists(r)' /\ creator'[r] = creator[r]
  BY DEF Follows, RulesFollow, CreatorsFollow, Exists
<1>3. ASSUME NEW q, RequestSound(q) PROVE RequestSound(q)'
  <2>1. q \in Forms /\ q.rule \in Rules /\ q.current \in Rules \cup {None}
    BY <1>3 DEF RequestSound, Forms
  <2>2. /\ Exists(q.rule)' /\ creator'[q.rule] = creator[q.rule]
        /\ q.current # None => Exists(q.current)'
    BY <1>2, <1>3, <2>1 DEF RequestSound
  <2> QED
    BY <1>3, <2>1, <2>2 DEF RequestSound, Independent
<1>4. ASSUME NEW p \in Requests, req'[p] # None
      PROVE  RequestSound(req[p])'
  <2>1. RequestSound(req'[p])
    BY <1>4 DEF Follows, RequestsFollow
  <2> QED
    BY <1>3, <2>1 DEF RequestSound, Independent, Exists
<1>5. ASSUME NEW r \in Rules, audit'[r]["TESTED"] # None
      PROVE  (Exists(r) /\ Independent(r, audit[r]["TESTED"]))'
  BY <1>2, <1>5 DEF Follows, LogSound, Independent
<1> QED
  BY <1>1, <1>4, <1>5 DEF IInv

-----------------------------------------------------------------------------
(* Types of the pieces.                                                    *)

LEMMA UpdatedRow ==
    ASSUME NEW now \in Rows, NEW read \in Rows, NEW new \in Rows
    PROVE  /\ Updated(now, read, new) \in Rows
           /\ Updated(now, read, new).status = IF new.status = read.status THEN now.status ELSE new.status
           /\ Updated(now, read, new).content = IF new.content = read.content THEN now.content ELSE new.content
  BY DEF Updated, Rows

LEMMA DraftRow ==
    ASSUME NEW c \in Contents, NEW a \in Actors
    PROVE  Draft(c, a) \in Rows /\ Draft(c, a).status = "DRAFT" /\ Draft(c, a).content = c
  BY DEF Draft, Rows, Statuses

LEMMA FormSound ==
    ASSUME IInv, NEW op \in DOMAIN Needs, NEW a \in Actors \cup {None}, NEW r \in Rules,
           Exists(r), rule[r].status = Needs[op], Now \in Times
    PROVE  LET f == Form(op, a, r)
           IN /\ f \in Forms /\ Exists(f.rule)
              /\ f.row.status = Needs[f.op] /\ f.op = op /\ f.actor = a
              /\ ~f.checked /\ f.current = None
  BY DEF IInv, TypeOK, Form, Forms, Exists

(* What other requests and the world outside leave alone.                  *)
LEMMA UntouchedFollow ==
    ASSUME IInv
    PROVE  /\ UNCHANGED rule => RulesFollow
           /\ UNCHANGED creator => CreatorsFollow
           /\ UNCHANGED audit => audit' \in Logs /\ LogSound(audit')
           /\ UNCHANGED req => RequestsFollow
           /\ UNCHANGED review => review' \in [Rules -> [Reviewers -> Reviews \cup {None}]]
           /\ UNCHANGED artifact => artifact' \in [Artifacts -> Runs \cup {None}]
           /\ UNCHANGED source => source' \in Sources
<1>1. UNCHANGED rule => RulesFollow
  BY DEF IInv, TypeOK, RulesFollow, Tables, Exists, Published, TextKept, Superseded
<1>2. UNCHANGED creator => CreatorsFollow
  BY DEF IInv, TypeOK, CreatorsFollow
<1>3. UNCHANGED audit => audit' \in Logs /\ LogSound(audit')
  BY DEF IInv, TypeOK, Logs, LogSound
<1>4. UNCHANGED req => RequestsFollow
  BY DEF IInv, TypeOK, RequestsFollow
<1> QED
  BY <1>1, <1>2, <1>3, <1>4 DEF IInv, TypeOK

LEMMA RequestsFollowing ==
    ASSUME IInv, NEW p \in Requests, NEW f,
           f = None \/ RequestSound(f),
           req' = [req EXCEPT ![p] = f]
    PROVE  RequestsFollow
<1>1. f \in Forms \cup {None}
  BY DEF RequestSound
<1> QED
  BY <1>1 DEF IInv, TypeOK, RequestsFollow

-----------------------------------------------------------------------------
(* A request begins, is checked, or ends.                                  *)

LEMMA BeginFollows ==
    ASSUME IInv, NEW p \in Requests, NEW r \in Rules, NEW op, NEW form,
           RequestSound(form), Begin(p, r, op, form)
    PROVE  Follows
  BY UntouchedFollow, RequestsFollowing DEF Begin, Follows

LEMMA CheckFollows ==
    ASSUME IInv, NEW p \in Requests, NEW op, NEW passes \in BOOLEAN, NEW current \in Rules \cup {None},
           current # None => current # req[p].rule /\ Exists(current),
           passes /\ req[p].op = "TESTED" => Independent(req[p].rule, req[p]),
           Check(p, op, passes, current)
    PROVE  Follows
<1> DEFINE q == req[p]
           checked == [q EXCEPT !.checked = TRUE, !.source = source, !.current = current]
<1>1. RequestSound(q) /\ q \in Forms /\ source \in Sources
  BY DEF Check, IInv, TypeOK, RequestSound
<1>2. checked \in Forms
  BY <1>1 DEF Forms
<1>3. /\ checked.op = q.op /\ checked.rule = q.rule /\ checked.row = q.row
      /\ checked.actor = q.actor /\ checked.content = q.content /\ checked.copy = q.copy
      /\ checked.review = q.review /\ checked.golden = q.golden
      /\ checked.source = source /\ checked.current = current
  BY <1>1 DEF Forms
<1>4. source # None
  BY <1>1
<1> HIDE DEF checked
<1>5. ASSUME passes PROVE RequestSound(checked)
  BY <1>1, <1>2, <1>3, <1>4, <1>5 DEF RequestSound, Independent
<1>6. RequestsFollow
  BY <1>5, RequestsFollowing DEF Check, checked
<1> QED
  BY <1>6, UntouchedFollow DEF Check, Follows

LEMMA CommitFollows ==
    ASSUME IInv, NEW p \in Requests, NEW rows \in Tables, NEW log \in Logs,
           \A r \in Rules : Exists(r) => rows[r] # None /\ (rows[r].content = rule[r].content \/ log = audit),
           \A r \in Rules : Published(r) /\ rows[r].status = "SUPERSEDED" => SomePublished(rows),
           LogSound(log), Commit(p, rows, log), UNCHANGED creator
    PROVE  Follows
<1>1. RequestsFollow
  BY RequestsFollowing DEF Commit
<1>2. CASE Allowed(rows)
  <2>1. rule' = rows /\ audit' = log /\ UNCHANGED source
    BY <1>2 DEF Commit
  <2>2. Allowed(rule')
    BY <1>2, <2>1
  <2>3. RulesFollow
    BY <2>1, <2>2 DEF RulesFollow, TextKept, Superseded
  <2> QED
    BY <1>1, <2>1, <2>3, UntouchedFollow DEF Commit, Follows
<1>3. CASE ~Allowed(rows)
  BY <1>1, <1>3, UntouchedFollow DEF Commit, Follows
<1> QED
  BY <1>2, <1>3

(* The events a stage records are independent where it matters.            *)
LEMMA LoggedSound ==
    ASSUME IInv, NEW r \in Rules, Exists(r), NEW stage \in Stages, NEW e \in Events,
           stage = "TESTED" => Independent(r, e)
    PROVE  Logged(audit, r, stage, e) \in Logs /\ LogSound(Logged(audit, r, stage, e))
<1>1. Logged(audit, r, stage, e) \in Logs
  BY DEF IInv, TypeOK, Logged, Logs
<1>2. LogSound(Logged(audit, r, stage, e))
  BY DEF IInv, TypeOK, LogSound, Logged, Stages, Lifecycle
<1> QED
  BY <1>1, <1>2

LEMMA CommitStageFollows ==
    ASSUME IInv, NEW p \in Requests, NEW new \in Rows, NEW src \in Sources,
           req[p] # None, req[p].op \in Stages,
           req[p].op = "TESTED" => Independent(req[p].rule, req[p]),
           new.content = req[p].row.content, new.status # "SUPERSEDED",
           CommitStage(p, new, src)
    PROVE  Follows
<1> DEFINE q == req[p]
           rows == [rule EXCEPT ![q.rule] = Updated(@, q.row, new)]
           e == Event(q, new.content, src)
           log == Logged(audit, q.rule, q.op, e)
<1>1. q \in Forms /\ Exists(q.rule) /\ rule \in Tables
  BY DEF IInv, TypeOK, RequestSound, Tables
<1>2. q.rule \in Rules /\ q.row \in Rows /\ rule[q.rule] \in Rows
  BY <1>1 DEF Forms, Tables, Exists
<1>3. e \in Events /\ e.review = q.review /\ e.actor = q.actor
  BY <1>1, <1>2 DEF Event, Events, Forms, Rows
<1>4. log \in Logs /\ LogSound(log)
  BY <1>1, <1>2, <1>3, LoggedSound DEF Independent
<1>5. rows \in Tables
  BY <1>1, <1>2, UpdatedRow DEF Tables
<1>6. ASSUME NEW r \in Rules, Exists(r)
      PROVE  /\ rows[r] # None /\ rows[r].content = rule[r].content
             /\ rows[r].status = "SUPERSEDED" => ~Published(r)
  <2>1. CASE r = q.rule
    <3>1. rows[r] = Updated(rule[r], q.row, new)
      BY <1>1, <2>1 DEF Tables
    <3>2. rows[r].content = rule[r].content
      BY <1>2, <2>1, <3>1, UpdatedRow
    <3>3. rows[r].status = rule[r].status \/ rows[r].status = new.status
      BY <1>2, <2>1, <3>1, UpdatedRow
    <3>4. rows[r] # None
      BY <3>1, <1>2, <2>1, UpdatedRow
    <3> QED
      BY <3>2, <3>3, <3>4 DEF Published
  <2>2. CASE r # q.rule
    BY <1>1, <1>6, <2>2 DEF Tables, Exists, Published
  <2> QED
    BY <2>1, <2>2
<1>7. \A r \in Rules : Published(r) => Exists(r)
  BY DEF Published
<1> QED
  BY <1>4, <1>5, <1>6, <1>7, CommitFollows DEF CommitStage

-----------------------------------------------------------------------------
(* Every action follows.                                                   *)

(* A new row is a draft that nothing refers to yet.                        *)
LEMMA NewDraftFollows ==
    ASSUME IInv, NEW r \in Rules, ~Exists(r), NEW c \in Contents, NEW w \in Actors, NEW a \in Actors,
           rule' = [rule EXCEPT ![r] = Draft(c, w)],
           creator' = [creator EXCEPT ![r] = a]
    PROVE  RulesFollow /\ CreatorsFollow
<1>1. rule \in Tables /\ creator \in [Rules -> Actors \cup {None}] /\ Allowed(rule)
  BY DEF IInv, TypeOK, Tables
<1>2. Draft(c, w) \in Rows /\ Draft(c, w).status = "DRAFT"
  BY DraftRow
<1>3. rule' \in Tables /\ \A s \in Rules : s # r => rule'[s] = rule[s]
  BY <1>1, <1>2 DEF Tables
<1>4. rule'[r].status = "DRAFT"
  BY <1>1, <1>2 DEF Tables
<1>5. Allowed(rule')
  BY <1>1, <1>3, <1>4 DEF Allowed
<1>6. \A s \in Rules : Exists(s) => rule'[s] = rule[s]
  BY <1>3
<1>7. RulesFollow
  BY <1>3, <1>5, <1>6 DEF RulesFollow, TextKept, Superseded, Published, Exists
<1>8. CreatorsFollow
  BY <1>1 DEF CreatorsFollow
<1> QED
  BY <1>7, <1>8

LEMMA CreateFollows ==
    ASSUME IInv, NEW a \in Actors, NEW r \in Rules, NEW c \in Contents, Create(a, r, c)
    PROVE  Follows
  BY NewDraftFollows, UntouchedFollow DEF Create, Follows

LEMMA DraftingFollows ==
    ASSUME IInv, NEW p \in Requests, Drafting(p)
    PROVE  Follows
<1>1. ASSUME NEW a \in Actors, NEW r \in Rules, NEW copy \in Rules, BeginClone(p, a, r, copy)
      PROVE  Follows
  <2> DEFINE f == Form("CLONED", a, r)
             form == [f EXCEPT !.copy = copy]
  <2>1. /\ f \in Forms /\ Exists(f.rule) /\ f.row.status = Needs[f.op] /\ f.op = "CLONED"
        /\ f.actor = a /\ ~f.checked /\ f.current = None
    BY <1>1, FormSound DEF BeginClone, Begin, Needs
  <2>2. form \in Forms /\ form.op = f.op /\ form.rule = f.rule /\ form.row = f.row /\ form.actor = f.actor
        /\ form.copy = copy /\ form.checked = f.checked /\ form.current = f.current
    BY <2>1 DEF Forms
  <2>3. a # None /\ copy # None
    OBVIOUS
  <2> HIDE DEF f, form
  <2>4. RequestSound(form)
    BY <2>1, <2>2, <2>3 DEF RequestSound
  <2> QED
    BY <1>1, <2>4, BeginFollows DEF BeginClone, f, form
<1>2. ASSUME NEW a \in Actors, NEW r \in Rules, NEW c \in Contents, BeginUpdate(p, a, r, c)
      PROVE  Follows
  <2> DEFINE f == Form("UPDATED", a, r)
             form == [f EXCEPT !.content = c]
  <2>1. /\ f \in Forms /\ Exists(f.rule) /\ f.row.status = Needs[f.op] /\ f.op = "UPDATED"
        /\ f.actor = a /\ ~f.checked /\ f.current = None
    BY <1>2, FormSound DEF BeginUpdate, Begin, Needs
  <2>2. form \in Forms /\ form.op = f.op /\ form.rule = f.rule /\ form.row = f.row /\ form.actor = f.actor
        /\ form.content = c /\ form.checked = f.checked /\ form.current = f.current
    BY <2>1 DEF Forms
  <2>3. a # None /\ c # None
    OBVIOUS
  <2> HIDE DEF f, form
  <2>4. RequestSound(form)
    BY <2>1, <2>2, <2>3 DEF RequestSound
  <2> QED
    BY <1>2, <2>4, BeginFollows DEF BeginUpdate, f, form
<1>3. ASSUME CommitClone(p) PROVE Follows
  <2> DEFINE q == req[p]
  <2>1. q # None /\ q.op = "CLONED" /\ ~Exists(q.copy) /\ RequestSound(q)
    BY <1>3 DEF CommitClone, IInv
  <2>2. q.copy \in Rules /\ q.row \in Rows /\ q.actor \in Actors
    BY <2>1 DEF RequestSound, Forms
  <2>3. q.row.content \in Contents /\ q.row.writer \in Actors
    BY <2>2 DEF Rows
  <2>4. RulesFollow /\ CreatorsFollow
    BY <1>3, <2>1, <2>2, <2>3, NewDraftFollows DEF CommitClone
  <2>5. RequestsFollow
    BY <1>3, RequestsFollowing DEF CommitClone
  <2> QED
    BY <1>3, <2>4, <2>5, UntouchedFollow DEF CommitClone, Follows
<1>4. ASSUME CommitUpdate(p) PROVE Follows
  <2> DEFINE q == req[p]
             new == Draft(q.content, q.actor)
             rows == [rule EXCEPT ![q.rule] = Updated(@, q.row, new)]
  <2>1. q.op = "UPDATED" /\ RequestSound(q) /\ rule \in Tables /\ audit \in Logs /\ LogSound(audit)
    BY <1>4 DEF CommitUpdate, IInv, TypeOK, Tables, Logs, LogSound
  <2>2. q.rule \in Rules /\ q.row \in Rows /\ q.content \in Contents /\ q.actor \in Actors
    BY <2>1 DEF RequestSound, Forms
  <2>3. rule[q.rule] \in Rows
    BY <2>1, <2>2 DEF RequestSound, Exists, Tables
  <2>4. new \in Rows /\ new.status = "DRAFT"
    BY <2>2, DraftRow
  <2> HIDE DEF new
  <2>5. rows[q.rule] \in Rows /\ rows[q.rule] # None
        /\ (rows[q.rule].status = rule[q.rule].status \/ rows[q.rule].status = "DRAFT")
    BY <2>1, <2>2, <2>3, <2>4, UpdatedRow DEF Tables
  <2>6. rows \in Tables /\ \A r \in Rules : r # q.rule => rows[r] = rule[r]
    BY <2>1, <2>2, <2>5 DEF Tables
  <2>7. \A r \in Rules : Exists(r) => rows[r] # None
    BY <2>5, <2>6 DEF Exists
  <2>8. \A r \in Rules : ~(Published(r) /\ rows[r].status = "SUPERSEDED")
    BY <2>5, <2>6 DEF Published
  <2>9. Commit(p, rows, audit) /\ UNCHANGED creator
    BY <1>4 DEF CommitUpdate, new
  <2> HIDE DEF rows
  <2> QED
    BY <2>1, <2>6, <2>7, <2>8, <2>9, CommitFollows
<1> QED
  BY <1>1, <1>2, <1>3, <1>4 DEF Drafting

LEMMA EvidenceFollows ==
    ASSUME IInv, NEW p \in Requests, Evidence(p)
    PROVE  Follows
<1>1. ASSUME NEW r \in Rules, BeginExtract(p, r) PROVE Follows
  <2> DEFINE f == Form("EXTRACTED", None, r)
  <2>1. /\ f \in Forms /\ Exists(f.rule) /\ f.row.status = Needs[f.op] /\ f.op = "EXTRACTED"
        /\ ~f.checked /\ f.current = None
    BY <1>1, FormSound DEF BeginExtract, Begin, Needs
  <2> HIDE DEF f
  <2>2. RequestSound(f)
    BY <2>1 DEF RequestSound
  <2> QED
    BY <1>1, <2>2, BeginFollows DEF BeginExtract, f
<1>2. ASSUME NEW a \in Actors, NEW r \in Rules, NEW v \in Reviewers, BeginVerify(p, a, r, v) PROVE Follows
  <2> DEFINE f == Form("VERIFIED", a, r)
             form == [f EXCEPT !.review = v]
  <2>1. /\ f \in Forms /\ Exists(f.rule) /\ f.row.status = Needs[f.op] /\ f.op = "VERIFIED"
        /\ ~f.checked /\ f.current = None
    BY <1>2, FormSound DEF BeginVerify, Begin, Needs
  <2>2. /\ form \in Forms /\ form.op = f.op /\ form.rule = f.rule /\ form.row = f.row
        /\ form.checked = f.checked /\ form.current = f.current
    BY <2>1 DEF Forms
  <2> HIDE DEF f, form
  <2>3. RequestSound(form)
    BY <2>1, <2>2 DEF RequestSound
  <2> QED
    BY <1>2, <2>3, BeginFollows DEF BeginVerify, f, form
<1>3. ASSUME NEW r \in Rules, NEW v \in Reviewers, NEW g \in Artifacts, NEW b \in BOOLEAN, 
             BeginGolden(p, r, v, g, b) PROVE Follows
  <2> DEFINE f == Form("GOLDEN", None, r)
             form == [f EXCEPT !.review = v, !.golden = g, !.passed = b]
  <2>1. /\ f \in Forms /\ Exists(f.rule) /\ f.row.status = Needs[f.op] /\ f.op = "GOLDEN"
        /\ ~f.checked /\ f.current = None
    BY <1>3, FormSound DEF BeginGolden, Begin, Needs
  <2>2. /\ form \in Forms /\ form.op = f.op /\ form.rule = f.rule /\ form.row = f.row
        /\ form.checked = f.checked /\ form.current = f.current
        /\ form.review # None /\ form.golden # None
    BY <2>1 DEF Forms
  <2> HIDE DEF f, form
  <2>3. RequestSound(form)
    BY <2>1, <2>2 DEF RequestSound
  <2> QED
    BY <1>3, <2>3, BeginFollows DEF BeginGolden, f, form
<1>4. ASSUME NEW a \in Actors, NEW r \in Rules, NEW v \in Reviewers, NEW g \in Artifacts, 
             BeginTest(p, a, r, v, g) PROVE Follows
  <2> DEFINE f == Form("TESTED", a, r)
             form == [f EXCEPT !.review = v, !.golden = g]
  <2>1. /\ f \in Forms /\ Exists(f.rule) /\ f.row.status = Needs[f.op] /\ f.op = "TESTED"
        /\ ~f.checked /\ f.current = None
    BY <1>4, FormSound DEF BeginTest, Begin, Needs
  <2>2. /\ form \in Forms /\ form.op = f.op /\ form.rule = f.rule /\ form.row = f.row
        /\ form.checked = f.checked /\ form.current = f.current
    BY <2>1 DEF Forms
  <2> HIDE DEF f, form
  <2>3. RequestSound(form)
    BY <2>1, <2>2 DEF RequestSound
  <2> QED
    BY <1>4, <2>3, BeginFollows DEF BeginTest, f, form
<1>5. CheckVerify(p) \/ CheckGolden(p) => Follows
  <2>1. VerifyPasses(req[p]) \in BOOLEAN /\ GoldenPasses(req[p]) \in BOOLEAN
    BY DEF VerifyPasses, GoldenPasses
  <2> QED
    BY <2>1, CheckFollows DEF CheckVerify, CheckGolden, Check
<1>6. CheckTest(p) => Follows
  <2>1. TestPasses(req[p]) \in BOOLEAN
    BY DEF TestPasses
  <2>2. TestPasses(req[p]) => Independent(req[p].rule, req[p])
    BY DEF TestPasses, ApprovedReview, Independent
  <2> QED
    BY <2>1, <2>2, CheckFollows DEF CheckTest
<1>7. ASSUME CommitExtract(p) PROVE Follows
  <2> DEFINE q == req[p]
             new == [Draft(q.row.content, q.row.writer) EXCEPT !.status = "EXTRACTED"]
  <2>1. q # None /\ RequestSound(q) /\ q.op = "EXTRACTED"
    BY <1>7 DEF CommitExtract, Ready, IInv
  <2>2. q \in Forms /\ q.row \in Rows /\ source \in Sources
    BY <2>1 DEF RequestSound, Forms, IInv, TypeOK
  <2>3. new \in Rows /\ new.status = "EXTRACTED" /\ new.content = q.row.content
    <3>1. /\ q.row.content \in Contents /\ q.row.writer \in Actors
          /\ q.golden \in Artifacts \cup {None}
      BY <2>2 DEF Rows, Forms
    <3>2. "EXTRACTED" \in Statuses
      BY DEF Statuses, Stages, Lifecycle
    <3> QED
      BY <3>1, <3>2 DEF Draft, Rows
  <2>4. "EXTRACTED" \in Stages /\ (q.op = "TESTED" => Independent(q.rule, q))
    BY <2>1 DEF Stages, Lifecycle, RequestSound
  <2>5. CommitStage(p, new, source)
    BY <1>7 DEF CommitExtract
  <2> HIDE DEF new
  <2> QED
    BY <2>1, <2>2, <2>3, <2>4, <2>5, CommitStageFollows
<1>8. ASSUME CommitVerify(p) PROVE Follows
  <2> DEFINE q == req[p]
             new == [Draft(q.row.content, q.row.writer) EXCEPT !.status = "VERIFIED", !.verified = TRUE]
  <2>1. q # None /\ RequestSound(q) /\ q.op = "VERIFIED" /\ q.checked
    BY <1>8 DEF CommitVerify, Ready, IInv
  <2>2. q \in Forms /\ q.row \in Rows /\ q.source \in Sources
    BY <2>1 DEF RequestSound, Forms, IInv, TypeOK
  <2>3. new \in Rows /\ new.status = "VERIFIED" /\ new.content = q.row.content
    <3>1. /\ q.row.content \in Contents /\ q.row.writer \in Actors
          /\ q.golden \in Artifacts \cup {None}
      BY <2>2 DEF Rows, Forms
    <3>2. "VERIFIED" \in Statuses
      BY DEF Statuses, Stages, Lifecycle
    <3> QED
      BY <3>1, <3>2 DEF Draft, Rows
  <2>4. "VERIFIED" \in Stages /\ (q.op = "TESTED" => Independent(q.rule, q))
    BY <2>1 DEF Stages, Lifecycle, RequestSound
  <2>5. CommitStage(p, new, q.source)
    BY <1>8 DEF CommitVerify
  <2> HIDE DEF new
  <2> QED
    BY <2>1, <2>2, <2>3, <2>4, <2>5, CommitStageFollows
<1>9. ASSUME CommitTest(p) PROVE Follows
  <2> DEFINE q == req[p]
             new == [Draft(q.row.content, q.row.writer) EXCEPT
                        !.status = "TESTED", !.verified = TRUE, !.golden = q.golden]
  <2>1. q # None /\ RequestSound(q) /\ q.op = "TESTED" /\ q.checked
    BY <1>9 DEF CommitTest, Ready, IInv
  <2>2. q \in Forms /\ q.row \in Rows /\ q.source \in Sources
    BY <2>1 DEF RequestSound, Forms, IInv, TypeOK
  <2>3. new \in Rows /\ new.status = "TESTED" /\ new.content = q.row.content
    <3>1. /\ q.row.content \in Contents /\ q.row.writer \in Actors
          /\ q.golden \in Artifacts \cup {None}
      BY <2>2 DEF Rows, Forms
    <3>2. "TESTED" \in Statuses
      BY DEF Statuses, Stages, Lifecycle
    <3> QED
      BY <3>1, <3>2 DEF Draft, Rows
  <2>4. "TESTED" \in Stages /\ (q.op = "TESTED" => Independent(q.rule, q))
    BY <2>1 DEF Stages, Lifecycle, RequestSound
  <2>5. CommitStage(p, new, q.source)
    BY <1>9 DEF CommitTest
  <2> HIDE DEF new
  <2> QED
    BY <2>1, <2>2, <2>3, <2>4, <2>5, CommitStageFollows
<1>10. ASSUME CommitGolden(p) PROVE Follows
  <2> DEFINE q == req[p]
  <2>1. RequestSound(q) /\ q.op = "GOLDEN" /\ q.checked
    BY <1>10 DEF CommitGolden, Ready, IInv
  <2>2. /\ q.rule \in Rules /\ q.review \in Reviewers /\ q.golden \in Artifacts /\ q.passed \in BOOLEAN
        /\ q.at \in Times /\ q.row.content \in Contents /\ q.source \in Sources
    BY <2>1 DEF RequestSound, Forms, Rows
  <2>3. artifact' \in [Artifacts -> Runs \cup {None}]
    BY <1>10, <2>2 DEF CommitGolden, Runs, IInv, TypeOK
  <2>4. RequestsFollow
    BY <1>10, RequestsFollowing DEF CommitGolden
  <2> QED
    BY <1>10, <2>3, <2>4, UntouchedFollow DEF CommitGolden, Follows
<1> QED
  BY <1>1, <1>2, <1>3, <1>4, <1>5, <1>6, <1>7, <1>8, <1>9, <1>10 DEF Evidence

LEMMA PublicationFollows ==
    ASSUME IInv, NEW p \in Requests, Publication(p)
    PROVE  Follows
<1>1. ASSUME NEW r \in Rules, BeginApprove(p, r) PROVE Follows
  <2> DEFINE f == Form("HUMAN_APPROVED", None, r)
  <2>1. /\ f \in Forms /\ Exists(f.rule) /\ f.row.status = Needs[f.op] /\ f.op = "HUMAN_APPROVED"
        /\ ~f.checked /\ f.current = None
    BY <1>1, FormSound DEF BeginApprove, Begin, Needs
  <2> HIDE DEF f
  <2>2. RequestSound(f)
    BY <2>1 DEF RequestSound
  <2> QED
    BY <1>1, <2>2, BeginFollows DEF BeginApprove, f
<1>2. ASSUME NEW r \in Rules, BeginPublish(p, r) PROVE Follows
  <2> DEFINE f == Form("PUBLISHED", None, r)
  <2>1. /\ f \in Forms /\ Exists(f.rule) /\ f.row.status = Needs[f.op] /\ f.op = "PUBLISHED"
        /\ ~f.checked /\ f.current = None
    BY <1>2, FormSound DEF BeginPublish, Begin, Needs
  <2> HIDE DEF f
  <2>2. RequestSound(f)
    BY <2>1 DEF RequestSound
  <2> QED
    BY <1>2, <2>2, BeginFollows DEF BeginPublish, f
<1>3. CheckApprove(p) => Follows
  <2>1. ApprovePasses(req[p]) \in BOOLEAN
    BY DEF ApprovePasses
  <2> QED
    BY <2>1, CheckFollows DEF CheckApprove, Check
<1>4. CheckPublish(p) => Follows
  <2>1. PublishPasses(req[p]) \in BOOLEAN
    BY DEF PublishPasses
  <2>2. \A r \in Predecessors(req[p]) : r \in Rules /\ r # req[p].rule /\ Exists(r)
    BY DEF Predecessors, Published
  <2> QED
    BY <2>1, <2>2, CheckFollows DEF CheckPublish, Check
<1>5. ASSUME CommitApprove(p) PROVE Follows
  <2> DEFINE q == req[p]
             new == [q.row EXCEPT !.status = "HUMAN_APPROVED", !.approvedAt = q.at]
  <2>1. q # None /\ RequestSound(q) /\ q.op = "HUMAN_APPROVED" /\ q.checked
    BY <1>5 DEF CommitApprove, Ready, IInv
  <2>2. q \in Forms /\ q.row \in Rows /\ q.source \in Sources
    BY <2>1 DEF RequestSound, Forms, IInv, TypeOK
  <2>3. new \in Rows /\ new.status = "HUMAN_APPROVED" /\ new.content = q.row.content
    <3>1. "HUMAN_APPROVED" \in Statuses /\ q.at \in Times
      BY <2>2 DEF Statuses, Stages, Lifecycle, Forms
    <3> QED
      BY <2>2, <3>1 DEF Rows
  <2>4. "HUMAN_APPROVED" \in Stages /\ (q.op = "TESTED" => Independent(q.rule, q))
    BY <2>1 DEF Stages, Lifecycle, RequestSound
  <2>5. CommitStage(p, new, q.source)
    BY <1>5 DEF CommitApprove
  <2> HIDE DEF new
  <2> QED
    BY <2>1, <2>2, <2>3, <2>4, <2>5, CommitStageFollows
<1>6. ASSUME CommitPublish(p) PROVE Follows
  <2> DEFINE q == req[p]
             new == [q.row EXCEPT !.status = "PUBLISHED"]
             published == [rule EXCEPT ![q.rule] = Updated(@, q.row, new)]
             rows == IF q.current = None THEN published
                     ELSE [published EXCEPT ![q.current].status = "SUPERSEDED"]
             e == Event(q, q.row.content, q.source)
             log == Logged(audit, q.rule, "PUBLISHED", e)
  <2>1. RequestSound(q) /\ q.op = "PUBLISHED" /\ q.checked /\ rule \in Tables
    BY <1>6 DEF CommitPublish, Ready, IInv, TypeOK, Tables
  <2>2. /\ q \in Forms /\ q.rule \in Rules /\ Exists(q.rule) /\ q.row \in Rows /\ q.source \in Sources
        /\ q.row.status = "HUMAN_APPROVED"
        /\ q.current # None => q.current \in Rules /\ q.current # q.rule /\ Exists(q.current)
    BY <2>1 DEF RequestSound, Forms, Needs
  <2>3. rule[q.rule] \in Rows /\ (q.current # None => rule[q.current] \in Rows)
    BY <2>1, <2>2 DEF Tables, Exists
  <2>4. new \in Rows /\ new.status = "PUBLISHED" /\ new.content = q.row.content
    BY <2>2 DEF Rows, Statuses, Stages, Lifecycle
  <2> HIDE DEF new
  <2>5. /\ published[q.rule] \in Rows /\ published[q.rule].status = "PUBLISHED"
        /\ published[q.rule].content = rule[q.rule].content
        /\ \A r \in Rules : r # q.rule => published[r] = rule[r]
    BY <2>1, <2>2, <2>3, <2>4, UpdatedRow DEF Tables
  <2>6. published \in Tables
    BY <2>1, <2>2, <2>5 DEF Tables
  <2> HIDE DEF published
  <2>7. q.current # None =>
            LET row == [published[q.current] EXCEPT !.status = "SUPERSEDED"]
            IN /\ rows[q.current] = row /\ row \in Rows /\ row.content = rule[q.current].content
               /\ \A r \in Rules : r # q.current => rows[r] = published[r]
    BY <2>2, <2>3, <2>5, <2>6 DEF Rows, Tables, Statuses
  <2>8. /\ rows \in Tables
        /\ \A r \in Rules : Exists(r) => rows[r] # None /\ rows[r].content = rule[r].content
        /\ rows[q.rule].status = "PUBLISHED" /\ rows[q.rule] # None
    <3>1. CASE q.current = None
      BY <2>2, <2>5, <2>6, <3>1 DEF Exists
    <3>2. CASE q.current # None
      <4>1. rows \in Tables
        BY <2>2, <2>6, <2>7, <3>2 DEF Tables
      <4> QED
        BY <2>2, <2>3, <2>5, <2>7, <3>2, <4>1 DEF Exists
    <3> QED
      BY <3>1, <3>2
  <2>9. SomePublished(rows)
    BY <2>2, <2>8 DEF SomePublished
  <2>10. e \in Events
    BY <2>2 DEF Event, Events, Forms, Rows
  <2>11. log \in Logs /\ LogSound(log)
    BY <2>2, <2>10, LoggedSound DEF Stages, Lifecycle
  <2>12. Commit(p, rows, log) /\ UNCHANGED creator
    BY <1>6 DEF CommitPublish, published, new
  <2> HIDE DEF rows, log
  <2> QED
    BY <2>8, <2>9, <2>11, <2>12, CommitFollows
<1> QED
  BY <1>1, <1>2, <1>3, <1>4, <1>5, <1>6 DEF Publication

LEMMA AbortFollows ==
    ASSUME IInv, NEW p \in Requests, Abort(p)
    PROVE  Follows
  BY RequestsFollowing, UntouchedFollow DEF Abort, Follows

LEMMA OutsideFollows ==
    ASSUME IInv, Outside
    PROVE  Follows
<1>1. ASSUME NEW r \in Rules, NEW v \in Reviewers, Sign(r, v) PROVE Follows
  <2> DEFINE signed == [at |-> Now, content |-> rule[r].content, source |-> source]
  <2>1. rule[r] \in Rows /\ source \in Sources /\ Now \in Times
    BY <1>1 DEF Sign, Exists, IInv, TypeOK
  <2>2. signed \in Reviews
    BY <2>1 DEF Reviews, Rows
  <2> HIDE DEF signed
  <2>3. review' \in [Rules -> [Reviewers -> Reviews \cup {None}]]
    BY <1>1, <2>2 DEF Sign, signed, IInv, TypeOK
  <2> QED
    BY <1>1, <2>3, UntouchedFollow DEF Sign, Follows
<1>2. ASSUME NEW r \in Rules, NEW v \in Reviewers, Withdraw(r, v) PROVE Follows
  <2>1. review' \in [Rules -> [Reviewers -> Reviews \cup {None}]]
    BY <1>2 DEF Withdraw, IInv, TypeOK
  <2> QED
    BY <1>2, <2>1, UntouchedFollow DEF Withdraw, Follows
<1>3. ASSUME NEW s \in Sources, ChangeSource(s) PROVE Follows
  BY <1>3, UntouchedFollow DEF ChangeSource, Follows
<1> QED
  BY <1>1, <1>2, <1>3 DEF Outside

-----------------------------------------------------------------------------
LEMMA InitSound == Init => IInv
  BY DEF Init, IInv, TypeOK, Allowed, Exists, Stages, Lifecycle

LEMMA StepFollows ==
    ASSUME IInv, [Next]_vars
    PROVE  Follows
<1>1. CASE Next
  BY <1>1, CreateFollows, DraftingFollows, EvidenceFollows, PublicationFollows, AbortFollows,
     OutsideFollows DEF Next
<1>2. CASE UNCHANGED vars
  BY <1>2, UntouchedFollow DEF vars, Follows
<1> QED
  BY <1>1, <1>2

LEMMA Inductive == Spec => []IInv
<1>1. IInv /\ [Next]_vars => IInv'
  BY StepFollows, FollowingPreserves
<1> QED
  BY <1>1, InitSound, PTL DEF Spec

-----------------------------------------------------------------------------
(* Times.  A request takes a time later than all on record, so that the    *)
(* time of an approval under way is on no row, and a rule that was         *)
(* published and went back to approved is not as a publication that began  *)
(* before had read it.                                                     *)

OnRecord(log, r, at) == log[r]["HUMAN_APPROVED"] # None /\ at <= log[r]["HUMAN_APPROVED"].at

Unused(at) ==
    /\ \A r \in Rules : Exists(r) => rule[r].approvedAt # at
    /\ \A o \in Requests : req[o] # None => req[o].row.approvedAt # at

ApprovedAnew(q) ==
    q.row.approvedAt # None /\ audit[q.rule]["PUBLISHED"] # None /\ audit[q.rule]["PUBLISHED"].at > q.at
    /\ rule[q.rule].status = "HUMAN_APPROVED" => rule[q.rule].approvedAt # q.row.approvedAt

TimesInv ==
    /\ \A r \in Rules : Exists(r) /\ rule[r].approvedAt # None => OnRecord(audit, r, rule[r].approvedAt)
    /\ \A p \in Requests : req[p] # None /\ req[p].row.approvedAt # None =>
           OnRecord(audit, req[p].rule, req[p].row.approvedAt)
    /\ \A p, o \in Requests : p # o /\ req[p] # None /\ req[o] # None => req[p].at # req[o].at
    /\ \A p \in Requests : req[p] # None /\ req[p].op = "HUMAN_APPROVED" => Unused(req[p].at)
    /\ \A p \in Requests : req[p] # None /\ req[p].op = "PUBLISHED" => ApprovedAnew(req[p])

(* What a step does to approvals and to the events of approval and         *)
(* publication: none is new, a request begins, or a rule is approved.      *)
RowKept(r, rows) ==
    rows[r] # None =>
        /\ rows[r].approvedAt # None => Exists(r) /\ rows[r].approvedAt = rule[r].approvedAt
        /\ rows[r].status = "HUMAN_APPROVED" => Exists(r) /\ rule[r].status = "HUMAN_APPROVED"

ApprovalKept(r, log) ==
    audit[r]["HUMAN_APPROVED"] # None =>
        log[r]["HUMAN_APPROVED"] # None /\ audit[r]["HUMAN_APPROVED"].at <= log[r]["HUMAN_APPROVED"].at

PublicationKept(r, rows, log) ==
    log[r]["PUBLISHED"] = audit[r]["PUBLISHED"] \/ rows[r].status # "HUMAN_APPROVED"

SameRequest(f, q) == q # None /\ f.op = q.op /\ f.rule = q.rule /\ f.row = q.row /\ f.at = q.at

Quiet ==
    /\ \A r \in Rules : RowKept(r, rule') /\ ApprovalKept(r, audit') /\ PublicationKept(r, rule', audit')
    /\ \A p \in Requests : req'[p] = None \/ SameRequest(req'[p], req[p])

Beginning(p) ==
    /\ UNCHANGED <<rule, audit>>
    /\ \A o \in Requests : o # p => req'[o] = req[o]
    /\ req'[p].rule \in Rules /\ Exists(req'[p].rule) /\ req'[p].row = rule[req'[p].rule]
    /\ req'[p].at = Now /\ Now \in Times

Approval(p) ==
    /\ req[p] # None /\ req[p].op = "HUMAN_APPROVED"
    /\ req' = [req EXCEPT ![p] = None]
    /\ \A r \in Rules : r # req[p].rule => RowKept(r, rule')
    /\ rule'[req[p].rule].approvedAt = req[p].at
    /\ \A r \in Rules : ApprovalKept(r, audit') /\ audit'[r]["PUBLISHED"] = audit[r]["PUBLISHED"]
    /\ OnRecord(audit', req[p].rule, req[p].at)

LEMMA LeastNumber ==
    ASSUME NEW S \in SUBSET Nat, S # {}
    PROVE  \E k \in S : \A j \in S : k <= j
<1> DEFINE R == OpToRel(<, Nat)
<1>1. IsWellFoundedOn(R, Nat)
  BY NatLessThanWellFounded
<1>2. \A x, y \in Nat : y < x => <<y, x>> \in R
  BY DEF OpToRel
<1> HIDE DEF R
<1>3. PICK k \in S : \A y \in S : <<y, k>> \notin R
  BY <1>1, WFMin
<1>4. ASSUME NEW j \in S PROVE k <= j
  <2>1. j \in Nat /\ k \in Nat
    OBVIOUS
  <2>2. ~(j < k)
    BY <1>2, <1>3, <2>1
  <2> QED  BY <2>1, <2>2
<1> QED  BY <1>4

(* datetime.now(UTC) is later than what is on record.                      *)
LEMMA NowIsLater ==
    ASSUME IInv, Now \in Times
    PROVE  /\ \A p \in Requests : req[p] # None => req[p].at < Now
           /\ \A r \in Rules, stage \in Stages : audit[r][stage] # None => audit[r][stage].at < Now
<1> DEFINE past == TimesOnRecord
           later == {t \in Nat : \A u \in past : u < t}
<1>1. past \subseteq Times
  BY DEF TimesOnRecord, IInv, TypeOK, Events, Reviews, Runs, Forms
<1>2. /\ \A p \in Requests : req[p] # None => req[p].at \in past
      /\ \A r \in Rules, stage \in Stages : audit[r][stage] # None => audit[r][stage].at \in past
  BY DEF TimesOnRecord
<1>3. Now = CHOOSE t \in 0..(MaxTime + 1) : (t = 0 \/ t - 1 \in past) /\ \A u \in past : u < t
  BY DEF Now
<1> HIDE DEF past
<1>4. MaxTime + 1 \in later
  BY <1>1 DEF Times
<1>5. PICK t \in later : \A s \in later : t <= s
  BY <1>4, LeastNumber
<1>6. t = 0 \/ t - 1 \in past
  <2>1. CASE t # 0
    <3>1. t - 1 \in Nat /\ t - 1 \notin later
      BY <1>5, <2>1
    <3>2. PICK u \in past : ~(u < t - 1)
      BY <3>1
    <3>3. u < t /\ u \in Nat
      BY <1>1 DEF Times
    <3>4. u = t - 1
      BY <3>1, <3>2, <3>3
    <3> QED  BY <3>4
  <2> QED  BY <2>1
<1>7. t \in 0..(MaxTime + 1) /\ \A u \in past : u < t
  BY <1>4, <1>5
<1>8. \A u \in past : u < Now
  BY <1>3, <1>6, <1>7
<1> QED
  BY <1>2, <1>8

(* All times are natural numbers.                                          *)
LEMMA TimesNumbers ==
    ASSUME TypeOK
    PROVE  /\ \A r \in Rules, stage \in Stages : audit[r][stage] # None => audit[r][stage].at \in Nat
           /\ \A r \in Rules : Exists(r) => rule[r] \in Rows /\ rule[r].approvedAt \in Nat \cup {None}
           /\ \A p \in Requests : req[p] # None =>
                  /\ req[p].at \in Nat /\ req[p].rule \in Rules /\ req[p].row \in Rows \cup {None}
                  /\ req[p].row \in Rows => req[p].row.approvedAt \in Nat \cup {None}
  BY DEF TypeOK, Events, Rows, Forms, Times, Exists

LEMMA RecordKept ==
    ASSUME TypeOK, TypeOK', NEW r \in Rules, ApprovalKept(r, audit'), NEW at \in Nat, OnRecord(audit, r, at)
    PROVE  OnRecord(audit', r, at)
<1>1. "HUMAN_APPROVED" \in Stages
  BY DEF Stages, Lifecycle
<1>2. /\ audit[r]["HUMAN_APPROVED"] # None => audit[r]["HUMAN_APPROVED"].at \in Nat
      /\ audit'[r]["HUMAN_APPROVED"] # None => audit'[r]["HUMAN_APPROVED"].at \in Nat
  BY <1>1 DEF TypeOK, Events, Times
<1> QED
  BY <1>2 DEF OnRecord, ApprovalKept

(* A request read a row.                                                   *)
LEMMA RowRead ==
    ASSUME IInv, NEW p \in Requests, req[p] # None
    PROVE  /\ req[p].row \in Rows /\ req[p].row.approvedAt \in Nat \cup {None}
           /\ req[p].at \in Nat /\ req[p].rule \in Rules /\ Exists(req[p].rule)
  BY DEF IInv, RequestSound, Forms, Rows, Times

LEMMA QuietSteps ==
    ASSUME IInv, IInv', TimesInv, Quiet
    PROVE  TimesInv'
<1>0. /\ TypeOK /\ TypeOK'
      /\ \A p \in Requests : req[p] # None => RequestSound(req[p]) /\ req[p].rule \in Rules /\ Exists(req[p].rule)
      /\ \A p \in Requests : req'[p] # None => SameRequest(req'[p], req[p])
  BY DEF IInv, RequestSound, Quiet, Forms
<1>1. ASSUME NEW r \in Rules, Exists(r)', rule'[r].approvedAt # None
      PROVE  OnRecord(audit', r, rule'[r].approvedAt)
  <2>1. Exists(r) /\ rule[r].approvedAt = rule'[r].approvedAt /\ ApprovalKept(r, audit')
    BY <1>1 DEF Quiet, RowKept, Exists
  <2>2. OnRecord(audit, r, rule[r].approvedAt) /\ rule[r].approvedAt \in Nat
    BY <1>0, <1>1, <2>1, TimesNumbers DEF TimesInv
  <2> QED
    BY <1>0, <2>1, <2>2, RecordKept
<1>2. ASSUME NEW p \in Requests, req'[p] # None, req'[p].row.approvedAt # None
      PROVE  OnRecord(audit', req'[p].rule, req'[p].row.approvedAt)
  <2>1. SameRequest(req'[p], req[p]) /\ req[p].rule \in Rules /\ req[p] \in Forms
    BY <1>0, <1>2 DEF SameRequest, RequestSound
  <2>2. OnRecord(audit, req[p].rule, req[p].row.approvedAt) /\ ApprovalKept(req[p].rule, audit')
    BY <1>2, <2>1 DEF SameRequest, TimesInv, Quiet
  <2>3. req[p].row.approvedAt \in Nat
    BY <1>0, <1>2, <2>1, RowRead DEF SameRequest
  <2> QED
    BY <1>0, <2>1, <2>2, <2>3, RecordKept DEF SameRequest
<1>3. ASSUME NEW p \in Requests, NEW o \in Requests, p # o, req'[p] # None, req'[o] # None
      PROVE  req'[p].at # req'[o].at
  BY <1>0, <1>3 DEF SameRequest, TimesInv
<1>4. ASSUME NEW p \in Requests, req'[p] # None, req'[p].op = "HUMAN_APPROVED"
      PROVE  Unused(req[p].at)'
  <2>1. SameRequest(req'[p], req[p]) /\ Unused(req[p].at)
    BY <1>0, <1>4 DEF SameRequest, TimesInv
  <2>2. req[p].at # None
    BY <1>0, <2>1, TimesNumbers DEF SameRequest
  <2>3. ASSUME NEW r \in Rules, Exists(r)' PROVE rule'[r].approvedAt # req[p].at
    BY <2>1, <2>2, <2>3 DEF Unused, Quiet, RowKept, Exists
  <2>4. ASSUME NEW o \in Requests, req'[o] # None PROVE req'[o].row.approvedAt # req[p].at
    BY <1>0, <2>1, <2>4 DEF Unused, SameRequest
  <2> QED
    BY <2>1, <2>3, <2>4 DEF Unused, SameRequest
<1>5. ASSUME NEW p \in Requests, req'[p] # None, req'[p].op = "PUBLISHED"
      PROVE  ApprovedAnew(req[p])'
  <2>1. SameRequest(req'[p], req[p]) /\ ApprovedAnew(req[p]) /\ req[p].rule \in Rules /\ Exists(req[p].rule)
    BY <1>0, <1>5 DEF SameRequest, TimesInv
  <2> DEFINE q == req[p]
  <2>2. PICK r \in Rules : r = q.rule
    BY <2>1
  <2>3. /\ q.row.approvedAt \in Nat \cup {None} /\ q.rule = r /\ req'[p].row = q.row
        /\ req'[p].rule = r /\ req'[p].at = q.at
    BY <1>0, <2>1, <2>2, RowRead DEF SameRequest
  <2>4. rule'[r] # None
    BY <1>5, <2>3 DEF IInv, RequestSound, Exists
  <2>5. SUFFICES ASSUME q.row.approvedAt # None, audit'[r]["PUBLISHED"] # None, audit'[r]["PUBLISHED"].at > q.at,
                        rule'[r].status = "HUMAN_APPROVED"
                 PROVE  rule'[r].approvedAt # q.row.approvedAt
    BY <2>3 DEF ApprovedAnew
  <2> HIDE DEF q
  <2>6. RowKept(r, rule') /\ PublicationKept(r, rule', audit')
    BY DEF Quiet
  <2>7. rule[r].status = "HUMAN_APPROVED" /\ audit'[r]["PUBLISHED"] = audit[r]["PUBLISHED"]
    BY <2>4, <2>5, <2>6 DEF RowKept, PublicationKept
  <2>8. rule[r].approvedAt # q.row.approvedAt
    BY <2>1, <2>2, <2>3, <2>5, <2>7 DEF ApprovedAnew, q
  <2> QED
    BY <2>4, <2>5, <2>6, <2>8 DEF RowKept
<1> QED
  BY <1>1, <1>2, <1>3, <1>4, <1>5 DEF TimesInv

LEMMA BeginningSteps ==
    ASSUME IInv, IInv', TimesInv, NEW p \in Requests, Beginning(p)
    PROVE  TimesInv'
<1>0. /\ TypeOK /\ UNCHANGED <<rule, audit>> /\ req'[p].at = Now /\ Now \in Nat
      /\ \A o \in Requests : o # p => req'[o] = req[o]
  BY DEF IInv, Beginning, Times
<1>1. PICK r \in Rules : r = req'[p].rule /\ req'[p].row = rule[r] /\ Exists(r)
  BY DEF Beginning
<1>2. /\ \A o \in Requests : req[o] # None => req[o].at < Now /\ req[o].at \in Nat
      /\ \A s \in Rules, stage \in Stages : audit[s][stage] # None =>
             audit[s][stage].at < Now /\ audit[s][stage].at \in Nat
  BY <1>0, NowIsLater, TimesNumbers DEF Beginning
<1>3. ASSUME NEW at \in Nat \cup {None}, NEW s \in Rules, at # None => OnRecord(audit, s, at)
      PROVE  at # Now
  <2>1. "HUMAN_APPROVED" \in Stages
    BY DEF Stages, Lifecycle
  <2>2. CASE at # None
    BY <1>0, <1>2, <1>3, <2>1, <2>2 DEF OnRecord
  <2> QED
    BY <1>0, <2>2
<1>4. \A s \in Rules : Exists(s) =>
          rule[s].approvedAt \in Nat \cup {None} /\ (rule[s].approvedAt # None => OnRecord(audit, s, rule[s].approvedAt))
  BY <1>0, TimesNumbers DEF TimesInv
<1>5. \A o \in Requests : req[o] # None =>
          /\ req[o].row.approvedAt \in Nat \cup {None} /\ req[o].rule \in Rules
          /\ req[o].row.approvedAt # None => OnRecord(audit, req[o].rule, req[o].row.approvedAt)
  BY RowRead DEF TimesInv
<1>6. ASSUME NEW s \in Rules, Exists(s)', rule'[s].approvedAt # None
      PROVE  OnRecord(audit', s, rule'[s].approvedAt)
  BY <1>0, <1>4, <1>6 DEF Exists
<1>7. ASSUME NEW o \in Requests, req'[o] # None, req'[o].row.approvedAt # None
      PROVE  OnRecord(audit', req'[o].rule, req'[o].row.approvedAt)
  BY <1>0, <1>1, <1>4, <1>5, <1>7
<1>8. ASSUME NEW o \in Requests, NEW u \in Requests, o # u, req'[o] # None, req'[u] # None
      PROVE  req'[o].at # req'[u].at
  BY <1>0, <1>2, <1>8 DEF TimesInv
<1>9. ASSUME NEW o \in Requests, req'[o] # None, req'[o].op = "HUMAN_APPROVED"
      PROVE  Unused(req[o].at)'
  <2>1. CASE o = p
    <3>1. ASSUME NEW s \in Rules, Exists(s) PROVE rule[s].approvedAt # Now
      BY <1>3, <1>4, <3>1
    <3>2. ASSUME NEW u \in Requests, req[u] # None PROVE req[u].row.approvedAt # Now
      BY <1>3, <1>5, <3>2
    <3> QED
      BY <1>0, <1>1, <2>1, <3>1, <3>2 DEF Unused, Exists
  <2>2. CASE o # p
    <3>1. Unused(req[o].at) /\ req'[o] = req[o]
      BY <1>0, <1>9, <2>2 DEF TimesInv
    <3> QED
      BY <1>0, <1>1, <3>1 DEF Unused, Exists
  <2> QED
    BY <2>1, <2>2
<1>10. ASSUME NEW o \in Requests, req'[o] # None, req'[o].op = "PUBLISHED"
       PROVE  ApprovedAnew(req[o])'
  <2>1. CASE o = p
    <3>1. ~(audit'[r]["PUBLISHED"] # None /\ audit'[r]["PUBLISHED"].at > Now)
      <4>1. "PUBLISHED" \in Stages
        BY DEF Stages, Lifecycle
      <4> QED
        BY <1>0, <1>2, <4>1
    <3> QED
      BY <1>0, <1>1, <2>1, <3>1 DEF ApprovedAnew
  <2>2. CASE o # p
    <3>1. ApprovedAnew(req[o]) /\ req'[o] = req[o]
      BY <1>0, <1>10, <2>2 DEF TimesInv
    <3> QED
      BY <1>0, <3>1 DEF ApprovedAnew
  <2> QED
    BY <2>1, <2>2
<1> QED
  BY <1>6, <1>7, <1>8, <1>9, <1>10 DEF TimesInv

LEMMA ApprovalSteps ==
    ASSUME IInv, IInv', TimesInv, NEW p \in Requests, Approval(p)
    PROVE  TimesInv'
<1>0. /\ TypeOK /\ TypeOK' /\ req[p] # None /\ Unused(req[p].at)
      /\ \A o \in Requests : IF o = p THEN req'[o] = None ELSE req'[o] = req[o]
  BY DEF IInv, TypeOK, Approval, TimesInv
<1>1. PICK a \in Rules : a = req[p].rule
  BY <1>0, RowRead
<1>2. /\ \A r \in Rules : r # a => RowKept(r, rule')
      /\ \A r \in Rules : ApprovalKept(r, audit') /\ audit'[r]["PUBLISHED"] = audit[r]["PUBLISHED"]
      /\ rule'[a].approvedAt = req[p].at /\ OnRecord(audit', a, req[p].at)
  BY <1>1 DEF Approval
<1>3. ASSUME NEW r \in Rules, Exists(r)', rule'[r].approvedAt # None
      PROVE  OnRecord(audit', r, rule'[r].approvedAt)
  <2>1. CASE r # a
    <3>1. Exists(r) /\ rule[r].approvedAt = rule'[r].approvedAt /\ ApprovalKept(r, audit')
      BY <1>2, <1>3, <2>1 DEF RowKept, Exists
    <3>2. OnRecord(audit, r, rule[r].approvedAt) /\ rule[r].approvedAt \in Nat
      BY <1>0, <1>3, <3>1, TimesNumbers DEF TimesInv
    <3> QED
      BY <1>0, <3>1, <3>2, RecordKept
  <2> QED
    BY <1>2, <2>1
<1>4. ASSUME NEW o \in Requests, req'[o] # None, req'[o].row.approvedAt # None
      PROVE  OnRecord(audit', req'[o].rule, req'[o].row.approvedAt)
  <2>1. req'[o] = req[o] /\ req[o].rule \in Rules /\ req[o].row.approvedAt \in Nat
    BY <1>0, <1>4, RowRead
  <2>2. OnRecord(audit, req[o].rule, req[o].row.approvedAt)
    BY <1>4, <2>1 DEF TimesInv
  <2> QED
    BY <1>0, <1>2, <2>1, <2>2, RecordKept
<1>5. ASSUME NEW o \in Requests, NEW u \in Requests, o # u, req'[o] # None, req'[u] # None
      PROVE  req'[o].at # req'[u].at
  BY <1>0, <1>5 DEF TimesInv
<1>6. ASSUME NEW o \in Requests, req'[o] # None, req'[o].op = "HUMAN_APPROVED"
      PROVE  Unused(req[o].at)'
  <2>1. o # p /\ req'[o] = req[o] /\ Unused(req[o].at) /\ req[o].at # req[p].at /\ req[o].at # None
    BY <1>0, <1>6, TimesNumbers DEF TimesInv
  <2>2. ASSUME NEW r \in Rules, Exists(r)' PROVE rule'[r].approvedAt # req[o].at
    BY <1>2, <2>1, <2>2 DEF Unused, RowKept, Exists
  <2>3. ASSUME NEW u \in Requests, req'[u] # None PROVE req'[u].row.approvedAt # req[o].at
    BY <1>0, <2>1, <2>3 DEF Unused
  <2> QED
    BY <2>1, <2>2, <2>3 DEF Unused
<1>7. ASSUME NEW o \in Requests, req'[o] # None, req'[o].op = "PUBLISHED"
      PROVE  ApprovedAnew(req[o])'
  <2>1. req'[o] = req[o] /\ ApprovedAnew(req[o]) /\ req[o].row.approvedAt # req[p].at
    BY <1>0, <1>7 DEF TimesInv, Unused
  <2>2. PICK r \in Rules : r = req[o].rule
    BY <1>0, <2>1, <1>7, RowRead
  <2>3. rule'[r] # None /\ (r # a => RowKept(r, rule'))
    BY <1>2, <1>7, <2>1, <2>2 DEF IInv, RequestSound, Exists
  <2> QED
    BY <1>2, <2>1, <2>2, <2>3 DEF ApprovedAnew, RowKept
<1> QED
  BY <1>3, <1>4, <1>5, <1>6, <1>7 DEF TimesInv

(* Every action is of one of the three kinds.                              *)
TimesFollow == Quiet \/ \E p \in Requests : Beginning(p) \/ Approval(p)

LEMMA Idle ==
    ASSUME UNCHANGED <<rule, audit>>, \A p \in Requests : req'[p] = None \/ SameRequest(req'[p], req[p]),
           TypeOK
    PROVE  Quiet
<1>1. \A r \in Rules : audit[r]["HUMAN_APPROVED"] # None => audit[r]["HUMAN_APPROVED"].at \in Nat
  BY TimesNumbers DEF Stages, Lifecycle
<1> QED
  BY <1>1 DEF Quiet, RowKept, ApprovalKept, PublicationKept, Exists

LEMMA BeginTimes ==
    ASSUME IInv, NEW p \in Requests, NEW r \in Rules, NEW op, NEW form,
           form.rule = r, form.row = rule[r], form.at = Now, Begin(p, r, op, form)
    PROVE  Beginning(p)
  BY DEF Begin, Beginning, IInv, TypeOK

LEMMA CheckTimes ==
    ASSUME IInv, NEW p \in Requests, NEW op, NEW passes \in BOOLEAN, NEW current, Check(p, op, passes, current)
    PROVE  Quiet
<1>1. req[p] \in Forms /\ TypeOK
  BY DEF Check, IInv, TypeOK
<1>2. req'[p] = None \/ SameRequest(req'[p], req[p])
  BY <1>1 DEF Check, SameRequest, TypeOK, Forms
<1>3. \A o \in Requests : o # p => req'[o] = req[o]
  BY <1>1 DEF Check, TypeOK
<1> QED
  BY <1>1, <1>2, <1>3, Idle DEF Check, SameRequest

LEMMA CommitTimes ==
    ASSUME IInv, NEW p \in Requests, NEW rows, NEW log, Commit(p, rows, log),
           \A r \in Rules : RowKept(r, rows) /\ ApprovalKept(r, log) /\ PublicationKept(r, rows, log)
    PROVE  Quiet
<1>1. TypeOK /\ \A o \in Requests : IF o = p THEN req'[o] = None ELSE req'[o] = req[o]
  BY DEF Commit, IInv, TypeOK
<1>2. \A o \in Requests : req'[o] = None \/ SameRequest(req'[o], req[o])
  BY <1>1 DEF SameRequest
<1>3. CASE Allowed(rows)
  BY <1>2, <1>3 DEF Commit, Quiet, RowKept, ApprovalKept, PublicationKept
<1>4. CASE ~Allowed(rows)
  BY <1>1, <1>2, <1>4, Idle DEF Commit
<1> QED
  BY <1>3, <1>4

(* A unit of work that approves nothing.                                   *)
LEMMA UpdatedKept ==
    ASSUME IInv, NEW r \in Rules, Exists(r), NEW read \in Rows, NEW new \in Rows,
           new.status = read.status \/ new.status # "HUMAN_APPROVED",
           new.approvedAt = None \/ new.approvedAt = read.approvedAt
    PROVE  LET rows == [rule EXCEPT ![r] = Updated(@, read, new)] IN
           /\ \A s \in Rules : RowKept(s, rows)
           /\ new.status # read.status => rows[r].status = new.status
<1> DEFINE rows == [rule EXCEPT ![r] = Updated(@, read, new)]
<1>1. rule \in [Rules -> Rows \cup {None}] /\ rule[r] \in Rows
  BY DEF IInv, TypeOK, Exists
<1>2. rows[r] = Updated(rule[r], read, new) /\ \A s \in Rules : s # r => rows[s] = rule[s]
  BY <1>1
<1>3. /\ rows[r].status = IF new.status = read.status THEN rule[r].status ELSE new.status
      /\ rows[r].approvedAt = IF new.approvedAt = read.approvedAt THEN rule[r].approvedAt ELSE new.approvedAt
  BY <1>1, <1>2 DEF Updated, Rows
<1> HIDE DEF rows
<1>4. RowKept(r, rows)
  BY <1>3 DEF RowKept
<1>5. \A s \in Rules : s # r => RowKept(s, rows)
  BY <1>2 DEF RowKept, Exists
<1> QED
  BY <1>3, <1>4, <1>5 DEF rows

LEMMA LoggedKept ==
    ASSUME IInv, NEW r \in Rules, NEW stage \in Stages, NEW e \in Events
    PROVE  LET log == Logged(audit, r, stage, e) IN
           /\ \A s \in Rules : ApprovalKept(s, log)
           /\ \A s \in Rules : s # r \/ stage # "PUBLISHED" => log[s]["PUBLISHED"] = audit[s]["PUBLISHED"]
           /\ stage = "HUMAN_APPROVED" => OnRecord(log, r, e.at)
<1> DEFINE log == Logged(audit, r, stage, e)
<1>1. /\ audit \in [Rules -> [Stages -> Events \cup {None}]]
      /\ "HUMAN_APPROVED" \in Stages /\ "PUBLISHED" \in Stages
  <2>1. audit \in [Rules -> [Stages -> Events \cup {None}]]
    BY DEF IInv, TypeOK
  <2> QED
    BY <2>1 DEF Stages, Lifecycle
<1>2. /\ \A s \in Rules, i \in Stages : s # r \/ i # stage => log[s][i] = audit[s][i]
      /\ log[r][stage] = IF audit[r][stage] = None \/ audit[r][stage].at <= e.at THEN e ELSE audit[r][stage]
  BY <1>1 DEF Logged
<1>3. \A s \in Rules, i \in Stages : audit[s][i] # None => audit[s][i].at \in Nat
  BY <1>1 DEF Events, Times
<1>4. e # None /\ e.at \in Nat
  BY DEF Events, Times
<1> HIDE DEF log
<1>5. ASSUME NEW s \in Rules PROVE ApprovalKept(s, log)
  <2>1. CASE s = r /\ stage = "HUMAN_APPROVED"
    BY <1>1, <1>2, <1>3, <1>4, <2>1 DEF ApprovalKept
  <2>2. CASE ~(s = r /\ stage = "HUMAN_APPROVED")
    BY <1>1, <1>2, <1>3, <2>2 DEF ApprovalKept
  <2> QED
    BY <2>1, <2>2
<1>6. stage = "HUMAN_APPROVED" => OnRecord(log, r, e.at)
  BY <1>1, <1>2, <1>3, <1>4 DEF OnRecord
<1> QED
  BY <1>1, <1>2, <1>5, <1>6 DEF log

(* The rows as they are written.                                           *)
LEMMA DraftUnapproved ==
    ASSUME NEW c \in Contents, NEW a \in Actors
    PROVE  Draft(c, a) \in Rows /\ Draft(c, a).status = "DRAFT" /\ Draft(c, a).approvedAt = None
<1>1. Draft(c, a).approvedAt = None
  BY DEF Draft
<1> QED
  BY <1>1, DraftRow

LEMMA StageTimes ==
    ASSUME IInv, NEW p \in Requests, NEW new \in Rows, NEW src \in Sources,
           req[p] # None, req[p].op \in Stages, req[p].op # "PUBLISHED",
           new.status # "HUMAN_APPROVED", new.approvedAt = None,
           CommitStage(p, new, src)
    PROVE  Quiet
<1> DEFINE q == req[p]
           rows == [rule EXCEPT ![q.rule] = Updated(@, q.row, new)]
           e == Event(q, new.content, src)
           log == Logged(audit, q.rule, q.op, e)
<1>1. q \in Forms /\ q.rule \in Rules /\ q.row \in Rows /\ Exists(q.rule)
  BY RowRead DEF IInv, RequestSound
<1>2. e \in Events
  BY <1>1 DEF Event, Events, Forms, Rows
<1>3. \A r \in Rules : RowKept(r, rows)
  BY <1>1, UpdatedKept
<1> HIDE DEF e, q
<1>4. \A r \in Rules : ApprovalKept(r, log) /\ log[r]["PUBLISHED"] = audit[r]["PUBLISHED"]
  BY <1>1, <1>2, LoggedKept DEF q
<1> HIDE DEF rows, log
<1>5. Commit(p, rows, log)
  BY DEF CommitStage, rows, log, e, q
<1> QED
  BY <1>3, <1>4, <1>5, CommitTimes DEF PublicationKept

LEMMA NewDraftTimes ==
    ASSUME IInv, NEW r \in Rules, ~Exists(r), NEW c \in Contents, NEW w \in Actors,
           rule' = [rule EXCEPT ![r] = Draft(c, w)], UNCHANGED audit,
           \A p \in Requests : req'[p] = None \/ req'[p] = req[p]
    PROVE  Quiet
<1>1. TypeOK
  BY DEF IInv
<1>2. rule'[r] = Draft(c, w) /\ \A s \in Rules : s # r => rule'[s] = rule[s]
  BY <1>1 DEF TypeOK
<1>3. Draft(c, w).status = "DRAFT" /\ Draft(c, w).approvedAt = None
  BY DEF Draft
<1>4. \A s \in Rules : RowKept(s, rule')
  BY <1>2, <1>3 DEF RowKept, Exists
<1>5. \A s \in Rules : ApprovalKept(s, audit')
  BY <1>1, TimesNumbers DEF ApprovalKept, Stages, Lifecycle
<1> QED
  BY <1>4, <1>5 DEF Quiet, PublicationKept, SameRequest

LEMMA DraftingTimes ==
    ASSUME IInv, NEW p \in Requests, Drafting(p)
    PROVE  TimesFollow
<1>1. ASSUME NEW a \in Actors, NEW r \in Rules, NEW copy \in Rules, BeginClone(p, a, r, copy)
      PROVE  TimesFollow
  <2> DEFINE form == [Form("CLONED", a, r) EXCEPT !.copy = copy]
  <2>1. form.rule = r /\ form.row = rule[r] /\ form.at = Now
    BY DEF Form
  <2> QED
    BY <1>1, <2>1, BeginTimes DEF BeginClone, TimesFollow
<1>2. ASSUME NEW a \in Actors, NEW r \in Rules, NEW c \in Contents, BeginUpdate(p, a, r, c)
      PROVE  TimesFollow
  <2> DEFINE form == [Form("UPDATED", a, r) EXCEPT !.content = c]
  <2>1. form.rule = r /\ form.row = rule[r] /\ form.at = Now
    BY DEF Form
  <2> QED
    BY <1>2, <2>1, BeginTimes DEF BeginUpdate, TimesFollow
<1>3. ASSUME CommitClone(p) PROVE TimesFollow
  <2> DEFINE q == req[p]
  <2>1. q # None /\ q.op = "CLONED" /\ ~Exists(q.copy) /\ RequestSound(q) /\ TypeOK
    BY <1>3 DEF CommitClone, IInv
  <2>2. q.copy \in Rules /\ q.row.content \in Contents /\ q.row.writer \in Actors
    BY <2>1, RowRead DEF RequestSound, Forms, Rows
  <2>3. \A o \in Requests : req'[o] = None \/ req'[o] = req[o]
    BY <1>3, <2>1 DEF CommitClone, TypeOK
  <2> QED
    BY <1>3, <2>1, <2>2, <2>3, NewDraftTimes DEF CommitClone, TimesFollow
<1>4. ASSUME CommitUpdate(p) PROVE TimesFollow
  <2> DEFINE q == req[p]
             new == Draft(q.content, q.actor)
             rows == [rule EXCEPT ![q.rule] = Updated(@, q.row, new)]
  <2>1. q # None /\ q.op = "UPDATED" /\ RequestSound(q) /\ TypeOK
    BY <1>4 DEF CommitUpdate, IInv
  <2>2. /\ q.rule \in Rules /\ Exists(q.rule) /\ q.row \in Rows /\ q.row.status = "DRAFT"
        /\ q.content \in Contents /\ q.actor \in Actors
    BY <2>1, RowRead DEF RequestSound, Forms, Needs
  <2>3. new \in Rows /\ new.status = "DRAFT" /\ new.approvedAt = None
    BY <2>2, DraftUnapproved
  <2>4. \A r \in Rules : RowKept(r, rows)
    BY <2>2, <2>3, UpdatedKept
  <2>5. \A r \in Rules : ApprovalKept(r, audit) /\ PublicationKept(r, rows, audit)
    BY <2>1, TimesNumbers DEF ApprovalKept, PublicationKept, Stages, Lifecycle
  <2>6. Commit(p, rows, audit)
    BY <1>4 DEF CommitUpdate
  <2> HIDE DEF rows
  <2> QED
    BY <2>4, <2>5, <2>6, CommitTimes DEF TimesFollow
<1> QED
  BY <1>1, <1>2, <1>3, <1>4 DEF Drafting

LEMMA EvidenceTimes ==
    ASSUME IInv, NEW p \in Requests, Evidence(p)
    PROVE  TimesFollow
<1>1. ASSUME NEW r \in Rules, BeginExtract(p, r) PROVE TimesFollow
  <2>1. LET form == Form("EXTRACTED", None, r) IN form.rule = r /\ form.row = rule[r] /\ form.at = Now
    BY DEF Form
  <2> QED
    BY <1>1, <2>1, BeginTimes DEF BeginExtract, TimesFollow
<1>2. ASSUME NEW a \in Actors, NEW r \in Rules, NEW v \in Reviewers, BeginVerify(p, a, r, v) PROVE TimesFollow
  <2> DEFINE form == [Form("VERIFIED", a, r) EXCEPT !.review = v]
  <2>1. form.rule = r /\ form.row = rule[r] /\ form.at = Now
    BY DEF Form
  <2> QED
    BY <1>2, <2>1, BeginTimes DEF BeginVerify, TimesFollow
<1>3. ASSUME NEW r \in Rules, NEW v \in Reviewers, NEW g \in Artifacts, NEW b \in BOOLEAN,
             BeginGolden(p, r, v, g, b) PROVE TimesFollow
  <2> DEFINE form == [Form("GOLDEN", None, r) EXCEPT !.review = v, !.golden = g, !.passed = b]
  <2>1. form.rule = r /\ form.row = rule[r] /\ form.at = Now
    BY DEF Form
  <2> QED
    BY <1>3, <2>1, BeginTimes DEF BeginGolden, TimesFollow
<1>4. ASSUME NEW a \in Actors, NEW r \in Rules, NEW v \in Reviewers, NEW g \in Artifacts,
             BeginTest(p, a, r, v, g) PROVE TimesFollow
  <2> DEFINE form == [Form("TESTED", a, r) EXCEPT !.review = v, !.golden = g]
  <2>1. form.rule = r /\ form.row = rule[r] /\ form.at = Now
    BY DEF Form
  <2> QED
    BY <1>4, <2>1, BeginTimes DEF BeginTest, TimesFollow
<1>5. CheckVerify(p) \/ CheckGolden(p) \/ CheckTest(p) => TimesFollow
  <2>1. {VerifyPasses(req[p]), GoldenPasses(req[p]), TestPasses(req[p])} \subseteq BOOLEAN
    BY DEF VerifyPasses, GoldenPasses, TestPasses
  <2> QED
    BY <2>1, CheckTimes DEF CheckVerify, CheckGolden, CheckTest, TimesFollow
<1>6. ASSUME CommitExtract(p) \/ CommitVerify(p) \/ CommitTest(p) PROVE TimesFollow
  <2> DEFINE q == req[p]
             draft == Draft(q.row.content, q.row.writer)
             extracted == [draft EXCEPT !.status = "EXTRACTED"]
             verified == [draft EXCEPT !.status = "VERIFIED", !.verified = TRUE]
             tested == [draft EXCEPT !.status = "TESTED", !.verified = TRUE, !.golden = q.golden]
  <2>1. q # None /\ RequestSound(q) /\ source \in Sources /\ q.op \in {"EXTRACTED", "VERIFIED", "TESTED"}
    BY <1>6 DEF CommitExtract, CommitVerify, CommitTest, Ready, IInv, TypeOK
  <2>2. /\ q \in Forms /\ q.row.content \in Contents /\ q.row.writer \in Actors
        /\ q.golden \in Artifacts \cup {None} /\ q.op \in Stages /\ q.op # "PUBLISHED"
    BY <2>1, RowRead DEF RequestSound, Forms, Rows, Stages, Lifecycle
  <2>3. /\ extracted \in Rows /\ extracted.status = "EXTRACTED" /\ extracted.approvedAt = None
        /\ verified \in Rows /\ verified.status = "VERIFIED" /\ verified.approvedAt = None
        /\ tested \in Rows /\ tested.status = "TESTED" /\ tested.approvedAt = None
    <3>1. draft \in Rows /\ draft.approvedAt = None
      BY <2>2, DraftUnapproved
    <3>2. {"EXTRACTED", "VERIFIED", "TESTED"} \subseteq Statuses
      BY DEF Statuses, Stages, Lifecycle
    <3> HIDE DEF draft
    <3> QED
      BY <2>2, <3>1, <3>2 DEF Rows
  <2>4. /\ CommitExtract(p) => CommitStage(p, extracted, source)
        /\ CommitVerify(p) => CommitStage(p, verified, q.source) /\ q.source \in Sources
        /\ CommitTest(p) => CommitStage(p, tested, q.source) /\ q.source \in Sources
    BY <2>1, <2>2 DEF CommitExtract, CommitVerify, CommitTest, Ready, RequestSound, Forms
  <2> HIDE DEF extracted, verified, tested
  <2> QED
    BY <1>6, <2>1, <2>2, <2>3, <2>4, StageTimes DEF TimesFollow
<1>7. ASSUME CommitGolden(p) PROVE TimesFollow
  <2>1. TypeOK /\ \A o \in Requests : req'[o] = None \/ SameRequest(req'[o], req[o])
    BY <1>7 DEF CommitGolden, IInv, TypeOK, SameRequest
  <2> QED
    BY <1>7, <2>1, Idle DEF CommitGolden, TimesFollow
<1> QED
  BY <1>1, <1>2, <1>3, <1>4, <1>5, <1>6, <1>7 DEF Evidence

(* Only the commit of an approval approves; its time is on no row.         *)
LEMMA ApproveTimes ==
    ASSUME IInv, TimesInv, NEW p \in Requests, CommitApprove(p)
    PROVE  TimesFollow
<1> DEFINE q == req[p]
           new == [q.row EXCEPT !.status = "HUMAN_APPROVED", !.approvedAt = q.at]
           rows == [rule EXCEPT ![q.rule] = Updated(@, q.row, new)]
           e == Event(q, new.content, q.source)
           log == Logged(audit, q.rule, q.op, e)
<1>1. /\ q # None /\ q.op = "HUMAN_APPROVED" /\ q.checked /\ RequestSound(q) /\ TypeOK
      /\ q.row.approvedAt # q.at
  BY DEF CommitApprove, Ready, IInv, TimesInv, Unused
<1>2. /\ q \in Forms /\ q.rule \in Rules /\ q.row \in Rows /\ Exists(q.rule) /\ q.source \in Sources
      /\ q.op \in Stages /\ q.row.status = "TESTED"
  BY <1>1, RowRead DEF RequestSound, Forms, Needs, Stages, Lifecycle
<1>3. /\ q.at \in Times /\ new.content \in Contents
  BY <1>2 DEF Forms, Rows
<1>4. e \in Events /\ e.at = q.at
  BY <1>2, <1>3 DEF Event, Events, Forms
<1>5. /\ \A r \in Rules : ApprovalKept(r, log) /\ log[r]["PUBLISHED"] = audit[r]["PUBLISHED"]
      /\ OnRecord(log, q.rule, q.at)
  <2> HIDE DEF e, q
  <2> QED
    BY <1>1, <1>2, <1>4, LoggedKept DEF q
<1>6. rule \in [Rules -> Rows \cup {None}] /\ rule[q.rule] \in Rows
  BY <1>1, <1>2 DEF TypeOK, Exists
<1>7. rows[q.rule] = Updated(rule[q.rule], q.row, new) /\ \A s \in Rules : s # q.rule => rows[s] = rule[s]
  BY <1>2, <1>6
<1>8. rows[q.rule].approvedAt = q.at
  <2>1. "HUMAN_APPROVED" \in Statuses
    BY DEF Statuses, Stages, Lifecycle
  <2>2. new \in Rows /\ new.approvedAt = q.at
    BY <1>2, <1>3, <2>1 DEF Rows
  <2> HIDE DEF new, rows, q
  <2>3. Updated(rule[q.rule], q.row, new).approvedAt = q.at
    BY <1>1, <2>2 DEF Updated, Rows
  <2> QED
    BY <1>7, <2>3
<1>9. Commit(p, rows, log)
  BY DEF CommitApprove, CommitStage
<1> HIDE DEF rows, log, e, new
<1>10. CASE Allowed(rows)
  <2>1. rule' = rows /\ audit' = log /\ req' = [req EXCEPT ![p] = None]
    BY <1>9, <1>10 DEF Commit
  <2>2. \A r \in Rules : r # q.rule => RowKept(r, rows)
    BY <1>7 DEF RowKept, Exists
  <2>3. Approval(p)
    BY <1>1, <1>5, <1>8, <2>1, <2>2 DEF Approval
  <2> QED
    BY <2>3 DEF TimesFollow
<1>11. CASE ~Allowed(rows)
  <2>1. \A o \in Requests : req'[o] = None \/ SameRequest(req'[o], req[o])
    BY <1>1, <1>9 DEF Commit, TypeOK, SameRequest
  <2> QED
    BY <1>1, <1>9, <1>11, <2>1, Idle DEF Commit, TimesFollow
<1> QED
  BY <1>10, <1>11

(* The rows and the log of a publication.                                  *)
PublishedRow(p) == Updated(rule[req[p].rule], req[p].row, [req[p].row EXCEPT !.status = "PUBLISHED"])
PublishedEvent(p) == Event(req[p], req[p].row.content, req[p].source)

LEMMA PublicationCommits ==
    ASSUME IInv, NEW p \in Requests, CommitPublish(p)
    PROVE  \E rows, log :
               /\ Commit(p, rows, log)
               /\ log = Logged(audit, req[p].rule, "PUBLISHED", PublishedEvent(p))
               /\ rows[req[p].rule] = PublishedRow(p)
               /\ \A s \in Rules : s # req[p].rule /\ s # req[p].current => rows[s] = rule[s]
               /\ req[p].current # None =>
                      /\ rows[req[p].current] # None /\ rows[req[p].current].status = "SUPERSEDED"
                      /\ rows[req[p].current].approvedAt = rule[req[p].current].approvedAt
<1> DEFINE q == req[p]
           published == [rule EXCEPT ![q.rule] = PublishedRow(p)]
           rows == IF q.current = None THEN published ELSE [published EXCEPT ![q.current].status = "SUPERSEDED"]
           log == Logged(audit, q.rule, "PUBLISHED", PublishedEvent(p))
<1>1. Commit(p, rows, log)
  BY DEF CommitPublish, PublishedRow, PublishedEvent
<1>2. /\ rule \in [Rules -> Rows \cup {None}] /\ q.rule \in Rules
      /\ q.current # None => q.current \in Rules /\ q.current # q.rule /\ rule[q.current] \in Rows
  BY RowRead DEF CommitPublish, Ready, IInv, TypeOK, RequestSound, Forms, Exists
<1>3. /\ published[q.rule] = PublishedRow(p)
      /\ \A s \in Rules : s # q.rule => published[s] = rule[s]
      /\ DOMAIN published = Rules
  BY <1>2
<1> HIDE DEF published, log
<1>4. CASE q.current = None
  BY <1>1, <1>2, <1>3, <1>4 DEF log
<1>5. CASE q.current # None
  <2>1. /\ rows[q.rule] = PublishedRow(p)
        /\ \A s \in Rules : s # q.rule /\ s # q.current => rows[s] = rule[s]
        /\ rows[q.current] = [rule[q.current] EXCEPT !.status = "SUPERSEDED"]
    BY <1>2, <1>3, <1>5
  <2>2. LET row == [rule[q.current] EXCEPT !.status = "SUPERSEDED"] IN
            /\ row \in Rows /\ row.status = "SUPERSEDED" /\ row.approvedAt = rule[q.current].approvedAt
    BY <1>2, <1>5 DEF Rows, Statuses
  <2>3. rows[q.current] # None
    BY <2>1, <2>2
  <2> HIDE DEF rows
  <2> QED
    BY <1>1, <1>5, <2>1, <2>2, <2>3 DEF log
<1> QED
  BY <1>4, <1>5

LEMMA PublishTimes ==
    ASSUME IInv, NEW p \in Requests, CommitPublish(p)
    PROVE  TimesFollow
<1> DEFINE q == req[p]
           new == [q.row EXCEPT !.status = "PUBLISHED"]
<1>1. PICK rows, log :
          /\ Commit(p, rows, log)
          /\ log = Logged(audit, q.rule, "PUBLISHED", PublishedEvent(p))
          /\ rows[q.rule] = PublishedRow(p)
          /\ \A s \in Rules : s # q.rule /\ s # q.current => rows[s] = rule[s]
          /\ q.current # None =>
                 /\ rows[q.current] # None /\ rows[q.current].status = "SUPERSEDED"
                 /\ rows[q.current].approvedAt = rule[q.current].approvedAt
  BY PublicationCommits
<1>2. /\ q \in Forms /\ q.rule \in Rules /\ q.row \in Rows /\ Exists(q.rule) /\ q.source \in Sources
      /\ q.row.status = "HUMAN_APPROVED" /\ (q.current # None => Exists(q.current)) /\ TypeOK
  BY RowRead DEF CommitPublish, Ready, IInv, RequestSound, Forms, Needs
<1>3. /\ new \in Rows /\ new.status = "PUBLISHED" /\ new.approvedAt = q.row.approvedAt
  <2>1. "PUBLISHED" \in Statuses
    BY DEF Statuses, Stages, Lifecycle
  <2> QED
    BY <1>2, <2>1 DEF Rows
<1>4. PublishedEvent(p) \in Events
  BY <1>2 DEF PublishedEvent, Event, Events, Forms, Rows
<1>5. /\ \A s \in Rules : ApprovalKept(s, log)
      /\ \A s \in Rules : s # q.rule => log[s]["PUBLISHED"] = audit[s]["PUBLISHED"]
  <2>1. "PUBLISHED" \in Stages
    BY DEF Stages, Lifecycle
  <2> HIDE DEF q
  <2> QED
    BY <1>1, <1>2, <1>4, <2>1, LoggedKept
<1>6. rows[q.rule].status = "PUBLISHED" /\ RowKept(q.rule, rows)
  <2>1. rule[q.rule] \in Rows
    BY <1>2 DEF TypeOK, Exists
  <2> HIDE DEF new
  <2>2. /\ Updated(rule[q.rule], q.row, new).status = "PUBLISHED"
        /\ Updated(rule[q.rule], q.row, new).approvedAt = rule[q.rule].approvedAt
    BY <1>2, <1>3, <2>1 DEF Updated, Rows
  <2> QED
    BY <1>1, <1>2, <2>2 DEF RowKept, PublishedRow, new
<1>7. \A s \in Rules : s # q.rule => RowKept(s, rows)
  BY <1>1, <1>2 DEF RowKept, Exists
<1> QED
  BY <1>1, <1>5, <1>6, <1>7, CommitTimes DEF PublicationKept, TimesFollow

LEMMA PublicationTimes ==
    ASSUME IInv, TimesInv, NEW p \in Requests, Publication(p)
    PROVE  TimesFollow
<1>1. ASSUME NEW r \in Rules, BeginApprove(p, r) \/ BeginPublish(p, r) PROVE TimesFollow
  <2>1. \A op : LET form == Form(op, None, r) IN form.rule = r /\ form.row = rule[r] /\ form.at = Now
    BY DEF Form
  <2> QED
    BY <1>1, <2>1, BeginTimes DEF BeginApprove, BeginPublish, TimesFollow
<1>2. CheckApprove(p) \/ CheckPublish(p) => TimesFollow
  <2>1. {ApprovePasses(req[p]), PublishPasses(req[p])} \subseteq BOOLEAN
    BY DEF ApprovePasses, PublishPasses
  <2> QED
    BY <2>1, CheckTimes DEF CheckApprove, CheckPublish, TimesFollow
<1> QED
  BY <1>1, <1>2, ApproveTimes, PublishTimes DEF Publication

LEMMA StepTimes ==
    ASSUME IInv, TimesInv, [Next]_vars
    PROVE  TimesFollow
<1>1. TypeOK
  BY DEF IInv
<1>2. ASSUME NEW a \in Actors, NEW r \in Rules, NEW c \in Contents, Create(a, r, c) PROVE TimesFollow
  BY <1>2, NewDraftTimes DEF Create, TimesFollow
<1>3. ASSUME NEW p \in Requests, Abort(p) PROVE TimesFollow
  <2>1. \A o \in Requests : req'[o] = None \/ SameRequest(req'[o], req[o])
    BY <1>1, <1>3 DEF Abort, TypeOK, SameRequest
  <2> QED
    BY <1>1, <1>3, <2>1, Idle DEF Abort, TimesFollow
<1>4. Outside \/ UNCHANGED vars => TimesFollow
  BY <1>1, Idle DEF Outside, Sign, Withdraw, ChangeSource, vars, SameRequest, TimesFollow
<1> QED
  BY <1>2, <1>3, <1>4, DraftingTimes, EvidenceTimes, PublicationTimes DEF Next

LEMMA TimesSound == Spec => [](IInv /\ TimesInv)
<1>1. Init => TimesInv
  BY DEF Init, TimesInv, Exists
<1>2. IInv /\ TimesInv /\ [Next]_vars => IInv' /\ TimesInv'
  BY StepFollows, FollowingPreserves, StepTimes, QuietSteps, BeginningSteps, ApprovalSteps DEF TimesFollow
<1> QED
  BY <1>1, <1>2, InitSound, PTL DEF Spec

-----------------------------------------------------------------------------
(* Theorems.                                                               *)

(* The type invariant of the rows, events, artifacts and requests.         *)
THEOREM RuleTypes == Spec => []TypeOK
<1>1. IInv => TypeOK
  BY DEF IInv
<1> QED
  BY <1>1, Inductive, PTL

(* What publish_human_approved_rule accepts, validate_rule_execution_      *)
(* contract accepts from the commit on, although the two ask different     *)
(* questions of the log and other requests log events meanwhile; a         *)
(* publication that was overtaken by another of its track changes nothing. *)
THEOREM PublicationTakesEffect == Spec => PublicationServes
<1>1. ASSUME IInv, TimesInv, NEW p \in Requests, NEW r \in Rules, Undisturbed(p), req[p].rule = r, CommitPublish(p)
      PROVE  IF Predecessors(req[p]) \subseteq {req[p].current} THEN Loads(r)' ELSE UNCHANGED <<rule, audit>>
  <2> DEFINE q == req[p]
             row == [rule[r] EXCEPT !.status = "PUBLISHED"]
  <2>1. PICK rows, log :
            /\ Commit(p, rows, log)
            /\ log = Logged(audit, q.rule, "PUBLISHED", PublishedEvent(p))
            /\ rows[q.rule] = PublishedRow(p)
            /\ \A s \in Rules : s # q.rule /\ s # q.current => rows[s] = rule[s]
            /\ q.current # None =>
                   /\ rows[q.current] # None /\ rows[q.current].status = "SUPERSEDED"
                   /\ rows[q.current].approvedAt = rule[q.current].approvedAt
    BY <1>1, PublicationCommits
  <2>2. /\ q # None /\ q.op = "PUBLISHED" /\ q \in Forms /\ rule[r] = q.row /\ q.source = source
        /\ rule[r] \in Rows /\ rule[r].status = "HUMAN_APPROVED" /\ TypeOK /\ Allowed(rule)
        /\ source \in Sources /\ q.at \in Nat /\ q.current # r
    BY <1>1, RowRead DEF Undisturbed, Ready, IInv, TypeOK, RequestSound, Forms, Needs
  <2>3. /\ PublicationSource(rule[r], source)
        /\ TestedEvidence(r, rule[r], source, rule[r].approvedAt)
        /\ AuditChain(r, rule[r], source, 4, q.at)
        /\ rule[r].approvedAt # None /\ audit[r]["HUMAN_APPROVED"].at = rule[r].approvedAt
    BY <1>1, <2>2 DEF Undisturbed, PublishPasses
  <2>4. rows[r] = row /\ row \in Rows /\ row.status = "PUBLISHED" /\ row.content = rule[r].content
        /\ row.verified = rule[r].verified /\ row.golden = rule[r].golden /\ row.approvedAt = rule[r].approvedAt
    <3>1. "PUBLISHED" \in Statuses
      BY DEF Statuses, Stages, Lifecycle
    <3>2. /\ row \in Rows /\ row.status = "PUBLISHED" /\ row.content = rule[r].content
          /\ row.verified = rule[r].verified /\ row.golden = rule[r].golden /\ row.approvedAt = rule[r].approvedAt
      BY <2>2, <3>1 DEF Rows
    <3>3. Updated(rule[r], rule[r], row) = row
      <4> HIDE DEF row
      <4>1. Updated(rule[r], rule[r], row) = [f \in DOMAIN row |-> row[f]]
        BY DEF Updated
      <4> QED
        BY <3>2, <4>1 DEF Rows
    <3>4. PublishedRow(p) = row
      BY <1>1, <2>2, <3>3 DEF PublishedRow
    <3> QED
      BY <1>1, <2>1, <3>2, <3>4
  <2> HIDE DEF row
  <2>5. ASSUME NEW s \in Predecessors(q), s # q.current
        PROVE  UNCHANGED <<rule, audit>>
    <3>1. /\ s \in Rules /\ s # r /\ rule[s] # None /\ rule[s].status = "PUBLISHED"
          /\ TrackOf[rule[s].content] = TrackOf[rule[r].content]
      BY <1>1, <2>2, <2>5 DEF Predecessors, Published, Exists
    <3>2. rows[s] = rule[s] /\ rows[r] # None
      BY <1>1, <2>1, <2>4, <2>5, <3>1
    <3>3. ~Allowed(rows)
      BY <2>4, <3>1, <3>2 DEF Allowed
    <3> QED
      BY <2>1, <3>3 DEF Commit
  <2>6. ASSUME Predecessors(q) \subseteq {q.current} PROVE Loads(r)'
    <3>1. /\ row.verified /\ row.golden # None /\ row.approvedAt # None
      BY <2>3, <2>4 DEF TestedEvidence, IndependentVerification, GoldenArtifact
    <3>2. ASSUME NEW s \in Rules, s # r, rows[s] # None, rows[s].status = "PUBLISHED"
          PROVE  rows[s] = rule[s] /\ TrackOf[rule[s].content] # TrackOf[row.content]
      <4>1. s # q.current /\ rows[s] = rule[s]
        BY <1>1, <2>1, <2>2, <3>2
      <4>2. s \notin Predecessors(q)
        BY <2>6, <4>1
      <4> QED
        BY <1>1, <2>2, <2>4, <3>2, <4>1, <4>2 DEF Predecessors, Published, Exists
    <3>3. Allowed(rows)
      <4>1. \A s \in Rules : s # r /\ rows[s] # None /\ rows[s].status = "PUBLISHED" =>
                /\ rows[s] = rule[s] /\ TrackOf[rows[s].content] # TrackOf[row.content]
        BY <3>2
      <4> QED
        BY <2>2, <2>4, <3>1, <4>1 DEF Allowed
    <3>4. rule' = rows /\ audit' = log /\ UNCHANGED <<review, artifact, source>>
      BY <2>1, <3>3 DEF Commit
    <3>5. Published(r)' /\ \A s \in Rules \ {r} : Published(s)' => TrackOf[rule'[s].content] # TrackOf[rule'[r].content]
      BY <2>4, <3>2, <3>4 DEF Published, Exists
    <3>6. /\ \A i \in 1..4 : audit'[r][Lifecycle[i]] = audit[r][Lifecycle[i]]
          /\ SameDigests(audit'[r]["PUBLISHED"], row.content, source)
          /\ audit[r]["HUMAN_APPROVED"].at <= audit'[r]["PUBLISHED"].at
      <4>1. PICK e \in Events : e = PublishedEvent(p) /\ e.at = q.at /\ e.content = row.content /\ e.source = source
        <5>1. /\ q.actor \in Actors \cup {None} /\ q.review \in Reviewers \cup {None}
              /\ q.golden \in Artifacts \cup {None} /\ q.at \in Times /\ q.row.content = row.content
              /\ row.content \in Contents /\ q.source = source /\ source \in Sources
          BY <2>2, <2>4 DEF Forms, Rows
        <5> HIDE DEF q
        <5>2. LET new == Event(q, q.row.content, q.source) IN
                  /\ new \in Events /\ new.at = q.at /\ new.content = row.content /\ new.source = source
          BY <5>1 DEF Event, Events
        <5> QED
          BY <5>2 DEF PublishedEvent, q
      <4>2. /\ audit \in [Rules -> [Stages -> Events \cup {None}]]
            /\ "PUBLISHED" \in Stages /\ "HUMAN_APPROVED" \in Stages
            /\ \A i \in 1..4 : Lifecycle[i] \in Stages /\ Lifecycle[i] # "PUBLISHED"
        <5>1. audit \in [Rules -> [Stages -> Events \cup {None}]]
          BY <2>2 DEF TypeOK
        <5>2. /\ Lifecycle[1] = "EXTRACTED" /\ Lifecycle[2] = "VERIFIED" /\ Lifecycle[3] = "TESTED"
              /\ Lifecycle[4] = "HUMAN_APPROVED" /\ Lifecycle[5] = "PUBLISHED"
          BY DEF Lifecycle
        <5>3. \A i \in 1..5 : Lifecycle[i] \in Stages
          BY DEF Stages
        <5> QED
          BY <5>1, <5>2, <5>3
      <4>3. audit' = [audit EXCEPT ![r]["PUBLISHED"] = IF @ = None \/ @.at <= e.at THEN e ELSE @]
        BY <1>1, <2>1, <3>4, <4>1 DEF Logged
      <4>4. audit[r]["PUBLISHED"] = None \/ audit[r]["PUBLISHED"].at <= e.at
        <5>1. ApprovedAnew(q)
          BY <1>1, <2>2 DEF TimesInv
        <5>2. audit[r]["PUBLISHED"] # None => audit[r]["PUBLISHED"].at \in Nat
          BY <4>2 DEF Events, Times
        <5> QED
          BY <1>1, <2>2, <2>3, <4>1, <5>1, <5>2 DEF ApprovedAnew
      <4>5. /\ audit'[r]["PUBLISHED"] = e
            /\ \A stage \in Stages : stage # "PUBLISHED" => audit'[r][stage] = audit[r][stage]
        BY <4>2, <4>3, <4>4
      <4>6. audit[r]["HUMAN_APPROVED"].at <= q.at
        <5>1. PrecedingAudit(r, Lifecycle[4], rule[r], source, q.at)
          BY <2>3 DEF AuditChain
        <5> QED
          BY <2>2, <5>1, NoneAssumption DEF PrecedingAudit, Lifecycle
      <4>7. e # None
        BY <4>1, NoneAssumption
      <4> QED
        BY <4>1, <4>2, <4>5, <4>6, <4>7 DEF SameDigests
    <3>7. TestedEvidence(r, rule[r], source, rule[r].approvedAt)'
      <4>1. /\ audit'[r]["EXTRACTED"] = audit[r]["EXTRACTED"] /\ audit'[r]["VERIFIED"] = audit[r]["VERIFIED"]
            /\ audit'[r]["TESTED"] = audit[r]["TESTED"]
        BY <3>6 DEF Lifecycle
      <4>2. /\ rule'[r] = row /\ source' = source /\ review' = review /\ artifact' = artifact
            /\ row.content = rule[r].content /\ row.verified = rule[r].verified /\ row.golden = rule[r].golden
            /\ row.approvedAt = rule[r].approvedAt
        BY <2>4, <3>4
      <4>3. /\ IndependentVerification(r, rule[r], source)
            /\ AuditChain(r, rule[r], source, 3, rule[r].approvedAt)
            /\ GoldenArtifact(r, rule[r].golden, audit[r]["VERIFIED"].review, rule[r], source, audit[r]["TESTED"].at)
            /\ audit[r]["TESTED"].golden = rule[r].golden
            /\ audit[r]["TESTED"].review = audit[r]["VERIFIED"].review
        BY <2>3 DEF TestedEvidence
      <4>4. IndependentVerification(r, rule[r], source)'
        BY <4>1, <4>2, <4>3 DEF IndependentVerification, SameDigests
      <4>5. AuditChain(r, rule[r], source, 3, rule[r].approvedAt)'
        BY <3>6, <4>2, <4>3 DEF AuditChain, PrecedingAudit, SameDigests
      <4>6. GoldenArtifact(r, rule[r].golden, audit[r]["VERIFIED"].review, rule[r], source, audit[r]["TESTED"].at)'
        BY <4>1, <4>2, <4>3 DEF GoldenArtifact, SameDigests
      <4> QED
        BY <4>1, <4>2, <4>3, <4>4, <4>5, <4>6 DEF TestedEvidence
    <3>8. AuditChain(r, rule[r], source, 5, None)'
      <4>1. /\ rule'[r] = row /\ source' = source /\ row.content = rule[r].content
        BY <2>4, <3>4
      <4>2. ASSUME NEW i \in 1..4
            PROVE  /\ SameDigests(audit'[r][Lifecycle[i]], row.content, source)
                   /\ i > 1 => audit'[r][Lifecycle[i - 1]].at <= audit'[r][Lifecycle[i]].at
        BY <2>3, <3>6, <4>1 DEF AuditChain, PrecedingAudit, SameDigests
      <4>3. /\ SameDigests(audit'[r][Lifecycle[5]], row.content, source)
            /\ audit'[r][Lifecycle[4]].at <= audit'[r][Lifecycle[5]].at
        <5>1. audit'[r]["HUMAN_APPROVED"] = audit[r]["HUMAN_APPROVED"]
          BY <3>6 DEF Lifecycle
        <5> QED
          BY <3>6, <5>1 DEF Lifecycle
      <4>4. ASSUME NEW i \in 1..5
            PROVE  /\ SameDigests(audit'[r][Lifecycle[i]], row.content, source)
                   /\ i > 1 => audit'[r][Lifecycle[i - 1]].at <= audit'[r][Lifecycle[i]].at
        <5>1. i \in 1..4 \/ i = 5
          OBVIOUS
        <5> QED
          BY <4>2, <4>3, <5>1
      <4> QED
        BY <4>1, <4>4 DEF AuditChain, PrecedingAudit, SameDigests
    <3>9. ExecutionContract(r)'
      <4>1. PublicationSource(rule[r], source)'
        BY <2>3, <2>4, <3>4 DEF PublicationSource
      <4>2. (audit[r]["HUMAN_APPROVED"].at = rule[r].approvedAt)' /\ (rule[r].approvedAt # None)'
        BY <2>3, <2>4, <3>4, <3>6 DEF Lifecycle
      <4> QED
        BY <3>5, <3>7, <3>8, <4>1, <4>2 DEF ExecutionContract
    <3> QED
      BY <3>5, <3>9 DEF Loads
  <2> QED
    BY <2>5, <2>6
<1>2. IInv /\ TimesInv /\ [Next]_vars =>
          [\A p \in Requests, r \in Rules :
               Undisturbed(p) /\ req[p].rule = r /\ CommitPublish(p) =>
                   IF Predecessors(req[p]) \subseteq {req[p].current}
                   THEN Loads(r)'
                   ELSE UNCHANGED <<rule, audit>>]_vars
  BY <1>1
<1> QED
  BY <1>2, TimesSound, PTL DEF Spec, PublicationServes

(* Whatever the loader hands out was reviewed by somebody other than its   *)
(* creator, its verifier and its tester, although mark_rule_tested never   *)
(* asks who verified and verify_extracted_rule cannot know who will test.  *)
THEOREM LoadedRulesReviewed == Spec => []ReviewerIndependent
<1>1. IInv => ReviewerIndependent
  <2> SUFFICES ASSUME IInv, NEW r \in Rules, Loads(r)
               PROVE  audit[r]["TESTED"].review \notin
                          {creator[r], audit[r]["VERIFIED"].actor, audit[r]["TESTED"].actor}
    BY DEF ReviewerIndependent
  <2>1. TestedEvidence(r, rule[r], source, rule[r].approvedAt)
    BY DEF Loads, ExecutionContract
  <2>2. AuditChain(r, rule[r], source, 3, rule[r].approvedAt) /\ IndependentVerification(r, rule[r], source)
    BY <2>1 DEF TestedEvidence
  <2>3. audit[r]["TESTED"] # None
    BY <2>2 DEF AuditChain, PrecedingAudit, SameDigests, Lifecycle
  <2>4. Independent(r, audit[r]["TESTED"])
    BY <2>3 DEF IInv
  <2>5. audit[r]["TESTED"].review = audit[r]["VERIFIED"].review
    BY <2>1 DEF TestedEvidence
  <2>6. audit[r]["VERIFIED"].review # audit[r]["VERIFIED"].actor
    BY <2>2 DEF IndependentVerification
  <2> QED
    BY <2>4, <2>5, <2>6 DEF Independent
<1> QED
  BY <1>1, Inductive, PTL

(* publish_human_approved_rule never supersedes a rule and fails to        *)
(* publish the next one.                                                   *)
THEOREM PublicationReplaces == Spec => ReplacedAtOnce
<1>1. IInv /\ [Next]_vars =>
          [\A r \in Rules : Published(r) /\ rule'[r].status = "SUPERSEDED" =>
              \E s \in Rules : rule'[s] # None /\ rule'[s].status = "PUBLISHED"]_vars
  BY StepFollows DEF Follows, RulesFollow, Superseded, SomePublished
<1> QED
  BY <1>1, Inductive, PTL DEF Spec, ReplacedAtOnce

(* No edit, however late it commits, changes the text that the loader      *)
(* hands out: it leaves behind evidence of another text.                   *)
THEOREM LoadedTextKept == Spec => LoadedTextStable
<1>1. IInv /\ [Next]_vars =>
          [\A r \in Rules : Loads(r) /\ Loads(r)' => rule'[r].content = rule[r].content]_vars
  <2> SUFFICES ASSUME IInv, [Next]_vars, NEW r \in Rules, Loads(r), Loads(r)'
               PROVE  rule'[r].content = rule[r].content
    OBVIOUS
  <2>1. Exists(r)
    BY DEF Loads, ExecutionContract, Published
  <2>2. rule'[r].content = rule[r].content \/ UNCHANGED <<audit, source>>
    BY <2>1, StepFollows DEF Follows, RulesFollow, TextKept
  <2>3. audit[r]["EXTRACTED"].content = rule[r].content
    BY DEF Loads, ExecutionContract, AuditChain, PrecedingAudit, SameDigests, Lifecycle
  <2>4. audit'[r]["EXTRACTED"].content = rule'[r].content
    BY DEF Loads, ExecutionContract, AuditChain, PrecedingAudit, SameDigests, Lifecycle
  <2> QED
    BY <2>2, <2>3, <2>4
<1> QED
  BY <1>1, Inductive, PTL DEF Spec, LoadedTextStable
=============================================================================
