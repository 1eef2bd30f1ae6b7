----------------------------- MODULE RuleLifecycle -----------------------------
(***************************************************************************)
(* The publication pipeline of SCORE_RULE rows: an administrator moves a   *)
(* rule from DRAFT to PUBLISHED, one request per stage, on evidence that   *)
(* is bound to the digest of the rule's text and of its source.            *)
(*                                                                         *)
(* No stage locks a row.  A request reads the rule (session.get), then the *)
(* evidence, then writes and commits, and other requests commit in         *)
(* between; SQLAlchemy writes only the columns that the request changed,   *)
(* judged against the row as it read it.  The database refuses a commit    *)
(* that breaks the partial unique index or the CHECK on published rows.    *)
(*                                                                         *)
(* A digest stands for what it digests: comparing digests is comparing the *)
(* text (content, with the track and the citation it names) and the state  *)
(* of the source document.                                                 *)
(* Operators with an underscore in their name state mistakes: runs show    *)
(* that a property would notice them.                                      *)
(***************************************************************************)
EXTENDS Naturals, FiniteSets

CONSTANTS
    Rules, Requests,
    Actors, Reviewers,    \* administrators, and the people named by reviews
    Contents, TrackOf,    \* texts of a rule, and the track and business key of each
    Sources,              \* states of the source documents
    Extractable,          \* texts with a track, a citation and a valid payload
    Usable,               \* <<text, source>> pairs that are fit to publish
    Artifacts,            \* golden test runs
    None,
    MaxTime               \* bound: the latest time

ASSUME UsableAssumption == Extractable \subseteq Contents /\ Usable \subseteq Extractable \X Sources
ASSUME TimeAssumption == MaxTime \in Nat

VARIABLES
    rule,      \* the rows of score_rules
    creator,   \* the actor of the DRAFT_CREATED or DRAFT_CLONED event
    audit,     \* per rule and stage, the latest audit event
    review,    \* the approved RuleReview of each rule and reviewer
    artifact,  \* RuleGoldenTestArtifact rows
    source,    \* the source documents as they are now
    req        \* the requests under way

vars == <<rule, creator, audit, review, artifact, source, req>>

-----------------------------------------------------------------------------
(* Events that nothing reads (DRAFT_UPDATED, SUPERSEDED) are left out, and *)
(* so are actors that nothing reads (all but those of VERIFIED, TESTED).   *)
Lifecycle == <<"EXTRACTED", "VERIFIED", "TESTED", "HUMAN_APPROVED", "PUBLISHED">>

Stages == {Lifecycle[i] : i \in 1..5}
Statuses == Stages \cup {"DRAFT", "SUPERSEDED"}

(* The status a rule must have for each operation to begin.                *)
Needs == [EXTRACTED |-> "DRAFT", VERIFIED |-> "EXTRACTED", GOLDEN |-> "VERIFIED", TESTED |-> "VERIFIED",
          HUMAN_APPROVED |-> "TESTED", PUBLISHED |-> "HUMAN_APPROVED",
          UPDATED |-> "DRAFT", CLONED |-> "PUBLISHED"]

Times == 0..MaxTime

(* writer is the administrator who wrote the text; the column is not there. *)
Rows == [status : Statuses, content : Contents, writer : Actors, verified : BOOLEAN,
         golden : Artifacts \cup {None}, approvedAt : Times \cup {None}]

Events == [actor : Actors \cup {None}, at : Times, content : Contents, source : Sources,
           review : Reviewers \cup {None}, golden : Artifacts \cup {None}]

ASSUME NoneAssumption ==
    /\ None \notin Rows /\ None \notin Events
    /\ None \notin Rules \cup Actors \cup Reviewers \cup Contents \cup Sources \cup Artifacts \cup Nat

Reviews == [at : Times, content : Contents, source : Sources]

Runs == [rule : Rules, review : Reviewers, passed : BOOLEAN, at : Times,
         content : Contents, source : Sources]

(* row is the rule as the request read it, source and current are what its *)
(* checks read, the rest is the form.                                      *)
Forms ==
    [op : DOMAIN Needs, rule : Rules, actor : Actors \cup {None}, at : Times, row : Rows,
     review : Reviewers \cup {None}, golden : Artifacts \cup {None}, passed : BOOLEAN,
     content : Contents \cup {None}, copy : Rules \cup {None},
     checked : BOOLEAN, source : Sources \cup {None}, current : Rules \cup {None}]

TypeOK ==
    /\ rule \in [Rules -> Rows \cup {None}]
    /\ creator \in [Rules -> Actors \cup {None}]
    /\ audit \in [Rules -> [Stages -> Events \cup {None}]]
    /\ review \in [Rules -> [Reviewers -> Reviews \cup {None}]]
    /\ artifact \in [Artifacts -> Runs \cup {None}]
    /\ source \in Sources
    /\ req \in [Requests -> Forms \cup {None}]

Exists(r) == rule[r] # None
Published(r) == Exists(r) /\ rule[r].status = "PUBLISHED"

-----------------------------------------------------------------------------
(* What the checks of rule_admin.py ask, of a row as it was read, a source *)
(* and the evidence in the database.                                       *)

(* Mistake: only the source is compared. *)
SameDigests_SourceOnly(e, content, src) == e # None /\ e.source = src

SameDigests(e, content, src) == e # None /\ e.content = content /\ e.source = src

PrecedingAudit(r, stage, row, src, at) ==
    /\ SameDigests(audit[r][stage], row.content, src)
    /\ at # None => audit[r][stage].at <= at

AuditChain(r, row, src, last, at) ==
    \A i \in 1..last :
        /\ PrecedingAudit(r, Lifecycle[i], row, src, at)
        /\ i > 1 => audit[r][Lifecycle[i - 1]].at <= audit[r][Lifecycle[i]].at

(* Mistake: the creator of the draft is not compared. *)
ApprovedReview_AnyCreator(r, v, row, src, actor, at) ==
    /\ SameDigests(review[r][v], row.content, src)
    /\ review[r][v].at <= at
    /\ v # actor

ApprovedReview(r, v, row, src, actor, at) ==
    /\ SameDigests(review[r][v], row.content, src)
    /\ review[r][v].at <= at
    /\ v # actor
    /\ v # creator[r]

IndependentVerification(r, row, src) ==
    LET e == audit[r]["VERIFIED"] IN
    /\ row.verified
    /\ SameDigests(e, row.content, src)
    /\ e.review # None
    /\ e.review # e.actor
    /\ SameDigests(review[r][e.review], e.content, e.source)
    /\ review[r][e.review].at <= e.at

GoldenArtifact(r, g, v, row, src, at) ==
    /\ g # None
    /\ SameDigests(artifact[g], row.content, src)
    /\ artifact[g].rule = r
    /\ artifact[g].review = v
    /\ artifact[g].passed
    /\ artifact[g].at <= at

TestedEvidence(r, row, src, at) ==
    LET e == audit[r]["TESTED"]
        v == audit[r]["VERIFIED"].review
    IN /\ IndependentVerification(r, row, src)
       /\ AuditChain(r, row, src, 3, at)
       /\ GoldenArtifact(r, row.golden, v, row, src, e.at)
       /\ e.golden = row.golden
       /\ e.review = v

PublicationSource(row, src) == <<row.content, src>> \in Usable

(* validate_rule_execution_contract                                        *)
ExecutionContract(r) ==
    /\ Published(r)
    /\ PublicationSource(rule[r], source)
    /\ TestedEvidence(r, rule[r], source, rule[r].approvedAt)
    /\ AuditChain(r, rule[r], source, 5, None)
    /\ rule[r].approvedAt # None
    /\ audit[r]["HUMAN_APPROVED"].at = rule[r].approvedAt

(* _exactly_one: the loader hands a track its rule, or nothing.            *)
Loads(r) ==
    /\ ExecutionContract(r)
    /\ \A s \in Rules \ {r} : Published(s) => TrackOf[rule[s].content] # TrackOf[rule[r].content]

-----------------------------------------------------------------------------
Draft(content, writer) ==
    [status |-> "DRAFT", content |-> content, writer |-> writer, verified |-> FALSE, golden |-> None, approvedAt |-> None]

Event(q, content, src) ==
    [actor |-> q.actor, at |-> q.at, content |-> content, source |-> src,
     review |-> q.review, golden |-> q.golden]

(* The events are read newest first by occurred_at.                        *)
Logged(log, r, stage, e) ==
    [log EXCEPT ![r][stage] = IF @ = None \/ @.at <= e.at THEN e ELSE @]

(* The UPDATE of a unit of work: only the columns that differ from the     *)
(* row as it was read.                                                     *)
Updated(now, read, new) ==
    [f \in DOMAIN new |-> IF new[f] = read[f] THEN now[f] ELSE new[f]]

(* uq_score_rules_one_published_per_track, published_rule_has_evidence     *)
Allowed(rows) ==
    LET live == {r \in Rules : rows[r] # None /\ rows[r].status = "PUBLISHED"} IN
    /\ \A r, s \in live : r # s => TrackOf[rows[r].content] # TrackOf[rows[s].content]
    /\ \A r \in live : rows[r].verified /\ rows[r].golden # None /\ rows[r].approvedAt # None

(* datetime.now(UTC): later than every time on record.                     *)
TimesOnRecord ==
    LET events == UNION {{audit[r][stage] : stage \in Stages} : r \in Rules}
        reviews == UNION {{review[r][v] : v \in Reviewers} : r \in Rules}
        records == events \cup reviews \cup {artifact[g] : g \in Artifacts} \cup {req[p] : p \in Requests}
    IN {e.at : e \in records \ {None}}

Now ==
    LET past == TimesOnRecord
    IN CHOOSE t \in 0..(MaxTime + 1) : (t = 0 \/ t - 1 \in past) /\ \A u \in past : u < t

Form(op, a, r) ==
    [op |-> op, rule |-> r, actor |-> a, at |-> Now, row |-> rule[r],
     review |-> None, golden |-> None, passed |-> FALSE, content |-> None, copy |-> None,
     checked |-> FALSE, source |-> None, current |-> None]

(* A request that does not find the status it needs ends here.             *)
Begin(p, r, op, form) ==
    /\ req[p] = None
    /\ Exists(r) /\ rule[r].status = Needs[op]
    /\ Now \in Times
    /\ req' = [req EXCEPT ![p] = form]
    /\ UNCHANGED <<rule, creator, audit, review, artifact, source>>

(* The checks of a request pass, on the rule it read and the rest as it is *)
(* now, or the request ends.                                               *)
Check(p, op, passes, current) ==
    /\ req[p] # None /\ req[p].op = op /\ ~req[p].checked
    /\ req' = [req EXCEPT ![p] =
           IF passes THEN [@ EXCEPT !.checked = TRUE, !.source = source, !.current = current] ELSE None]
    /\ UNCHANGED <<rule, creator, audit, review, artifact, source>>

Commit(p, rows, log) ==
    /\ req' = [req EXCEPT ![p] = None]
    /\ IF Allowed(rows) THEN rule' = rows /\ audit' = log ELSE UNCHANGED <<rule, audit>>
    /\ UNCHANGED <<review, artifact, source>>

(* The commit of a stage: the rule as read becomes new.                    *)
CommitStage(p, new, src) ==
    LET q == req[p] IN
    /\ Commit(p, [rule EXCEPT ![q.rule] = Updated(@, q.row, new)],
                 Logged(audit, q.rule, q.op, Event(q, new.content, src)))
    /\ UNCHANGED creator

Ready(p, op) == req[p] # None /\ req[p].op = op /\ req[p].checked

-----------------------------------------------------------------------------
(* Drafts: persist_score_rule_drafts, clone_published_rule_as_draft,       *)
(* update_score_rule_draft.                                                *)

Create(a, r, c) ==
    /\ ~Exists(r)
    /\ rule' = [rule EXCEPT ![r] = Draft(c, a)]
    /\ creator' = [creator EXCEPT ![r] = a]
    /\ UNCHANGED <<audit, review, artifact, source, req>>

BeginClone(p, a, r, copy) == Begin(p, r, "CLONED", [Form("CLONED", a, r) EXCEPT !.copy = copy])

CommitClone(p) ==
    LET q == req[p] IN
    /\ q # None /\ q.op = "CLONED"
    /\ ~Exists(q.copy)
    /\ rule' = [rule EXCEPT ![q.copy] = Draft(q.row.content, q.row.writer)]
    /\ creator' = [creator EXCEPT ![q.copy] = q.actor]
    /\ req' = [req EXCEPT ![p] = None]
    /\ UNCHANGED <<audit, review, artifact, source>>

BeginUpdate(p, a, r, c) == Begin(p, r, "UPDATED", [Form("UPDATED", a, r) EXCEPT !.content = c])

CommitUpdate(p) ==
    /\ req[p] # None /\ req[p].op = "UPDATED"
    /\ Commit(p, [rule EXCEPT ![req[p].rule] = Updated(@, req[p].row, Draft(req[p].content, req[p].actor))], audit)
    /\ UNCHANGED creator

-----------------------------------------------------------------------------
(* The stages.                                                             *)

BeginExtract(p, r) ==
    /\ Exists(r) /\ rule[r].content \in Extractable
    /\ Begin(p, r, "EXTRACTED", Form("EXTRACTED", None, r))

CommitExtract(p) ==
    /\ req[p] # None /\ req[p].op = "EXTRACTED"
    /\ CommitStage(p, [Draft(req[p].row.content, req[p].row.writer) EXCEPT !.status = "EXTRACTED"], source)

BeginVerify(p, a, r, v) == Begin(p, r, "VERIFIED", [Form("VERIFIED", a, r) EXCEPT !.review = v])

VerifyPasses(q) ==
    /\ AuditChain(q.rule, q.row, source, 1, q.at)
    /\ ApprovedReview(q.rule, q.review, q.row, source, q.actor, q.at)
    /\ PublicationSource(q.row, source)

CheckVerify(p) == Check(p, "VERIFIED", VerifyPasses(req[p]), None)

CommitVerify(p) ==
    /\ Ready(p, "VERIFIED")
    /\ CommitStage(p, [Draft(req[p].row.content, req[p].row.writer) EXCEPT !.status = "VERIFIED", !.verified = TRUE],
                   req[p].source)

(* record_golden_test_artifact, called by an offline runner.               *)
BeginGolden(p, r, v, g, passed) ==
    Begin(p, r, "GOLDEN", [Form("GOLDEN", None, r) EXCEPT !.review = v, !.golden = g, !.passed = passed])

GoldenPasses(q) ==
    /\ IndependentVerification(q.rule, q.row, source)
    /\ audit[q.rule]["VERIFIED"].review = q.review
    /\ AuditChain(q.rule, q.row, source, 2, q.at)
    /\ PublicationSource(q.row, source)

CheckGolden(p) == Check(p, "GOLDEN", GoldenPasses(req[p]), None)

CommitGolden(p) ==
    LET q == req[p] IN
    /\ Ready(p, "GOLDEN")
    /\ artifact[q.golden] = None
    /\ artifact' = [artifact EXCEPT ![q.golden] =
           [rule |-> q.rule, review |-> q.review, passed |-> q.passed, at |-> q.at,
            content |-> q.row.content, source |-> q.source]]
    /\ req' = [req EXCEPT ![p] = None]
    /\ UNCHANGED <<rule, creator, audit, review, source>>

BeginTest(p, a, r, v, g) == Begin(p, r, "TESTED", [Form("TESTED", a, r) EXCEPT !.review = v, !.golden = g])

TestPasses(q) ==
    /\ ApprovedReview(q.rule, q.review, q.row, source, q.actor, q.at)
    /\ IndependentVerification(q.rule, q.row, source)
    /\ AuditChain(q.rule, q.row, source, 2, q.at)
    /\ audit[q.rule]["VERIFIED"].review = q.review
    /\ PublicationSource(q.row, source)
    /\ GoldenArtifact(q.rule, q.golden, q.review, q.row, source, q.at)

CheckTest(p) == Check(p, "TESTED", TestPasses(req[p]), None)

CommitTest(p) ==
    LET q == req[p] IN
    /\ Ready(p, "TESTED")
    /\ CommitStage(p, [Draft(q.row.content, q.row.writer) EXCEPT !.status = "TESTED", !.verified = TRUE, !.golden = q.golden],
                   q.source)

BeginApprove(p, r) == Begin(p, r, "HUMAN_APPROVED", Form("HUMAN_APPROVED", None, r))

ApprovePasses(q) ==
    /\ q.row.verified /\ q.row.golden # None
    /\ PublicationSource(q.row, source)
    /\ TestedEvidence(q.rule, q.row, source, q.at)

CheckApprove(p) == Check(p, "HUMAN_APPROVED", ApprovePasses(req[p]), None)

CommitApprove(p) ==
    LET q == req[p] IN
    /\ Ready(p, "HUMAN_APPROVED")
    /\ CommitStage(p, [q.row EXCEPT !.status = "HUMAN_APPROVED", !.approvedAt = q.at], q.source)

BeginPublish(p, r) == Begin(p, r, "PUBLISHED", Form("PUBLISHED", None, r))

(* Mistake: it is not asked whether the approval on record is the row's.   *)
PublishPasses_AnyApproval(q) ==
    /\ PublicationSource(q.row, source)
    /\ TestedEvidence(q.rule, q.row, source, q.row.approvedAt)
    /\ AuditChain(q.rule, q.row, source, 4, q.at)
    /\ q.row.approvedAt # None

PublishPasses(q) ==
    /\ PublicationSource(q.row, source)
    /\ TestedEvidence(q.rule, q.row, source, q.row.approvedAt)
    /\ AuditChain(q.rule, q.row, source, 4, q.at)
    /\ q.row.approvedAt # None
    /\ audit[q.rule]["HUMAN_APPROVED"].at = q.row.approvedAt

(* The published rule of the same track, if there is one.                  *)
Predecessors(q) ==
    {r \in Rules \ {q.rule} : Published(r) /\ TrackOf[rule[r].content] = TrackOf[q.row.content]}

CheckPublish(p) ==
    \E current \in IF req[p] = None \/ Predecessors(req[p]) = {} THEN {None} ELSE Predecessors(req[p]) :
        Check(p, "PUBLISHED", PublishPasses(req[p]), current)

(* Mistake: the predecessor is superseded in a transaction of its own, and *)
(* the worker may be lost before the second one.                           *)
CommitPublish_TwoCommits(p) ==
    LET q == req[p]
        published == [rule EXCEPT ![q.rule] = Updated(@, q.row, [q.row EXCEPT !.status = "PUBLISHED"])]
        superseded(rows) == IF q.current = None THEN rows ELSE [rows EXCEPT ![q.current].status = "SUPERSEDED"]
    IN /\ Ready(p, "PUBLISHED")
       /\ \E rows \in {rule, published} : Commit(p, superseded(rows), audit)
       /\ UNCHANGED creator

CommitPublish(p) ==
    LET q == req[p]
        published == [rule EXCEPT ![q.rule] = Updated(@, q.row, [q.row EXCEPT !.status = "PUBLISHED"])]
    IN /\ Ready(p, "PUBLISHED")
       /\ Commit(p,
              IF q.current = None THEN published ELSE [published EXCEPT ![q.current].status = "SUPERSEDED"],
              Logged(audit, q.rule, "PUBLISHED", Event(q, q.row.content, q.source)))
       /\ UNCHANGED creator

(* A worker is lost, or the request is refused for a reason left out.      *)
Abort(p) ==
    /\ req[p] # None
    /\ req' = [req EXCEPT ![p] = None]
    /\ UNCHANGED <<rule, creator, audit, review, artifact, source>>

-----------------------------------------------------------------------------
(* What happens outside the program: a reviewer signs the rule and its     *)
(* source as they are, or takes the signature back; a document changes.    *)

Sign(r, v) ==
    /\ Exists(r)
    /\ Now \in Times
    /\ review' = [review EXCEPT ![r][v] = [at |-> Now, content |-> rule[r].content, source |-> source]]
    /\ UNCHANGED <<rule, creator, audit, artifact, source, req>>

Withdraw(r, v) ==
    /\ review[r][v] # None
    /\ review' = [review EXCEPT ![r][v] = None]
    /\ UNCHANGED <<rule, creator, audit, artifact, source, req>>

ChangeSource(s) ==
    /\ source' = s
    /\ UNCHANGED <<rule, creator, audit, review, artifact, req>>

-----------------------------------------------------------------------------
Init ==
    /\ rule = [r \in Rules |-> None]
    /\ creator = [r \in Rules |-> None]
    /\ audit = [r \in Rules |-> [stage \in Stages |-> None]]
    /\ review = [r \in Rules |-> [v \in Reviewers |-> None]]
    /\ artifact = [g \in Artifacts |-> None]
    /\ source \in Sources
    /\ req = [p \in Requests |-> None]

Drafting(p) ==
    \/ \E a \in Actors, r, copy \in Rules : BeginClone(p, a, r, copy)
    \/ \E a \in Actors, r \in Rules, c \in Contents : BeginUpdate(p, a, r, c)
    \/ CommitClone(p) \/ CommitUpdate(p)

Evidence(p) ==
    \/ \E r \in Rules : BeginExtract(p, r)
    \/ \E a \in Actors, r \in Rules, v \in Reviewers : BeginVerify(p, a, r, v)
    \/ \E r \in Rules, v \in Reviewers, g \in Artifacts, b \in BOOLEAN : BeginGolden(p, r, v, g, b)
    \/ \E a \in Actors, r \in Rules, v \in Reviewers, g \in Artifacts : BeginTest(p, a, r, v, g)
    \/ CheckVerify(p) \/ CheckGolden(p) \/ CheckTest(p)
    \/ CommitExtract(p) \/ CommitVerify(p) \/ CommitGolden(p) \/ CommitTest(p)

Publication(p) ==
    \/ \E r \in Rules : BeginApprove(p, r) \/ BeginPublish(p, r)
    \/ CheckApprove(p) \/ CheckPublish(p)
    \/ CommitApprove(p) \/ CommitPublish(p)

Outside ==
    \/ \E r \in Rules, v \in Reviewers : Sign(r, v) \/ Withdraw(r, v)
    \/ \E s \in Sources : ChangeSource(s)

Next ==
    \/ \E a \in Actors, r \in Rules, c \in Contents : Create(a, r, c)
    \/ \E p \in Requests : Drafting(p) \/ Evidence(p) \/ Publication(p) \/ Abort(p)
    \/ Outside

Spec == Init /\ [][Next]_vars

-----------------------------------------------------------------------------
(* Properties.                                                             *)

(* What publish_human_approved_rule read of the rule, its source and its   *)
(* evidence still stands; other rules may have been published since.       *)
Undisturbed(p) ==
    /\ Ready(p, "PUBLISHED")
    /\ rule[req[p].rule] = req[p].row /\ source = req[p].source
    /\ PublishPasses(req[p])

(* A publication whose evidence stands takes effect as a whole or not at   *)
(* all: from the commit on the loader, which checks the evidence by rules  *)
(* of its own, runs this rule for its track; only when another rule of the *)
(* track was published since the request looked for its predecessor does   *)
(* it leave no trace, which is what the 409 answer of publish_rule says.   *)
PublicationServes ==
    [][\A p \in Requests, r \in Rules :
          Undisturbed(p) /\ req[p].rule = r /\ CommitPublish(p) =>
              IF Predecessors(req[p]) \subseteq {req[p].current}
              THEN Loads(r)'
              ELSE UNCHANGED <<rule, audit>>]_vars

(* A rule that the loader runs was reviewed by someone who neither created *)
(* it nor recorded its verification nor its test, although only the stages *)
(* compare these people and the loader compares digests.                   *)
ReviewerIndependent ==
    \A r \in Rules : Loads(r) =>
        audit[r]["TESTED"].review \notin
            {creator[r], audit[r]["VERIFIED"].actor, audit[r]["TESTED"].actor}

(* A published rule is superseded only by a commit after which another one *)
(* is published: publish_human_approved_rule does not do half of its work. *)
ReplacedAtOnce ==
    [][\A r \in Rules :
          Published(r) /\ rule'[r].status = "SUPERSEDED" =>
              \E s \in Rules : rule'[s] # None /\ rule'[s].status = "PUBLISHED"]_vars

(* The text that the loader runs never changes under a rule.               *)
LoadedTextStable ==
    [][\A r \in Rules : Loads(r) /\ Loads(r)' => rule'[r].content = rule[r].content]_vars

(* The lifecycle goes forward only.                                        *)
Rank(r) == IF ~Exists(r) THEN 0
           ELSE CHOOSE i \in 1..7 :
               rule[r].status = <<"DRAFT", "EXTRACTED", "VERIFIED", "TESTED", "HUMAN_APPROVED",
                                  "PUBLISHED", "SUPERSEDED">>[i]
LifecycleForward == [][\A r \in Rules : Rank(r)' >= Rank(r)]_vars

(* The reviewer of a rule that runs did not write its text.                *)
AuthorNotReviewer ==
    \A r \in Rules : Loads(r) => rule[r].writer # audit[r]["TESTED"].review
=============================================================================
