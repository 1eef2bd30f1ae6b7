----------------------------- MODULE Consultation -----------------------------
(***************************************************************************)
(* A consultation over the tracks a student chose, one after the other     *)
(* (run_batch_consultation), while administrators publish and withdraw     *)
(* rules, confirm the built-in rules and deploy others, and the student's  *)
(* records change.  Every query sees what has been committed by then: the  *)
(* three rules of a track are read by three queries, the records once for  *)
(* all tracks.  What the rules and the records yield is computed by the    *)
(* operators of Evaluation, whose tasks are this module's other behaviour. *)
(*                                                                         *)
(* A published rule is None when there is no row, more than one row, or    *)
(* one whose execution contract is broken: all of them are LookupErrors.   *)
(***************************************************************************)
EXTENDS Evaluation

CONSTANTS
    Tracks,       \* the tracks of the chosen programs; {} for evaluations alone
    Facts,        \* what the student stated
    Offers,       \* track -> the published rules it may have: [eligibility, scope, score]
    BuiltIns,     \* track -> the built-in rules a deployment may bring, or None
    Imported,     \* track -> the published result of the year asked for, or None
    RecordSets    \* the records the student may have

(* A track always has some rules or none of a kind, and a built-in rule    *)
(* has a text: its digest is computed from the file.                       *)
ASSUME TracksAssumption ==
    /\ RecordSets # {}
    /\ \A t \in Tracks :
         /\ Offers[t] # {}
         /\ \A offer \in Offers[t] : DOMAIN offer = {"eligibility", "scope", "score"}
         /\ BuiltIns[t] # {}
         /\ \A rule \in BuiltIns[t] \ {None} : rule.text # None

VARIABLES
    published,    \* the usable published rules of each track
    builtin,      \* the built-in rule of each track: phase14_verified_source_rules.json
    confirmed,    \* the text whose digest an administrator confirmed last, or None
    records,      \* the student's records
    batch,        \* the consultation under way: its step, its track, what it has read
    items,        \* what it has answered, by track
    seen          \* history: texts ever confirmed; since the start of the batch, tracks
                  \* that lacked a rule at some time

stored == <<published, builtin, confirmed, records>>
allVars == <<task, result, stored, batch, items, seen>>

NoReading == [eligibility |-> None, scope |-> None, score |-> None, confirmed |-> FALSE]
Idle == [at |-> "idle", track |-> None, todo |-> {}, cache |-> None, read |-> NoReading]

Steps == {"idle", "next", "eligibility", "scope", "score", "records", "built_in", "built_in_records"}

Lacking == {t \in Tracks : \E k \in DOMAIN published[t] : published[t][k] = None}

-----------------------------------------------------------------------------
(* The world.                                                              *)

Publish(t) ==
    /\ \E offer \in Offers[t] : published' = [published EXCEPT ![t] = offer]
    /\ seen' = [seen EXCEPT !.lacked = @ \cup {u \in Tracks :
                  \E k \in DOMAIN published'[u] : published'[u][k] = None}]
    /\ UNCHANGED <<builtin, confirmed, records, batch, items>>

EditRecords ==
    /\ records' \in RecordSets
    /\ UNCHANGED <<published, builtin, confirmed, batch, items, seen>>

(* confirm_verified_source_rule, by an active administrator                *)
Confirm(t) ==
    /\ builtin[t] # None /\ builtin[t].status = "VERIFIED_SOURCE"
    /\ confirmed' = [confirmed EXCEPT ![t] = builtin[t].text]
    /\ seen' = [seen EXCEPT !.confirmed = @ \cup {<<t, builtin[t].text>>}]
    /\ UNCHANGED <<published, builtin, records, batch, items>>

(* Another file; the workers restart and lose what they were doing.        *)
Deploy(t) ==
    /\ \E rule \in BuiltIns[t] : builtin' = [builtin EXCEPT ![t] = rule]
    /\ batch' = Idle
    /\ UNCHANGED <<published, confirmed, records, items, seen>>

-----------------------------------------------------------------------------
(* One batch.                                                              *)

Go(step) == batch' = [batch EXCEPT !.at = step]
Read(kind, rule, step) == batch' = [batch EXCEPT !.at = step, !.read[kind] = rule]
OnTrack(step) == task.kind = "BATCH" /\ batch.at = step
Track == batch.track

StartBatch ==
    /\ OnTrack("idle")
    /\ batch' = [Idle EXCEPT !.at = "next", !.todo = Tracks]
    /\ items' = <<>>
    /\ seen' = [seen EXCEPT !.lacked = Lacking]
    /\ UNCHANGED stored

NextTrack ==
    /\ OnTrack("next")
    /\ IF batch.todo = {} THEN batch' = Idle
       ELSE \E t \in batch.todo :
              batch' = [batch EXCEPT !.at = "eligibility", !.track = t, !.todo = @ \ {t},
                                     !.read = NoReading]
    /\ UNCHANGED <<stored, items, seen>>

Answered(item) == [t \in DOMAIN items \cup {Track} |-> IF t = Track THEN item ELSE items[t]]

Answer(item) ==
    /\ items' = Answered(item)
    /\ batch' = [batch EXCEPT !.at = "next", !.track = None, !.read = NoReading]

Item(status, outcome, origin, basis, grade, comparison) ==
    [status |-> status, outcome |-> outcome, origin |-> origin, basis |-> basis,
     grade |-> grade, comparison |-> comparison, read |-> batch.read]
Failed(status, origin) == Item(status, None, origin, None, None, None)
Blocked(origin) == Item("EVALUATED", "ELIGIBILITY_BLOCKED", origin, None, None, None)

ReadEligibility_BuiltInFirst ==
    /\ OnTrack("eligibility")
    /\ LET rule == published[Track].eligibility
       IN IF rule = None \/ builtin[Track] # None THEN Go("built_in") /\ UNCHANGED items
          ELSE IF Decide(rule, Facts).status \notin ScoreAllowed THEN Answer(Blocked("PUBLISHED"))
          ELSE Read("eligibility", rule, "scope") /\ UNCHANGED items
    /\ UNCHANGED <<stored, seen>>

(* load_published_*: the track falls back to its built-in rule when there  *)
(* is none.                                                                *)
ReadEligibility ==
    /\ OnTrack("eligibility")
    /\ LET rule == published[Track].eligibility
       IN IF rule = None THEN Go("built_in") /\ UNCHANGED items
          ELSE IF Decide(rule, Facts).status \notin ScoreAllowed THEN Answer(Blocked("PUBLISHED"))
          ELSE Read("eligibility", rule, "scope") /\ UNCHANGED items
    /\ UNCHANGED <<stored, seen>>

ReadScope ==
    /\ OnTrack("scope")
    /\ LET rule == published[Track].scope
       IN IF rule = None THEN Go("built_in") ELSE Read("scope", rule, "score")
    /\ UNCHANGED <<stored, items, seen>>

(* _validate_score_rule_identity raises for a rule of another track.       *)
ReadScore ==
    /\ OnTrack("score")
    /\ LET rule == published[Track].score
       IN IF rule = None THEN Go("built_in") /\ UNCHANGED items
          ELSE IF rule.track # Track THEN Answer(Failed("ERROR", "PUBLISHED"))
          ELSE Read("score", rule, "records") /\ UNCHANGED items
    /\ UNCHANGED <<stored, seen>>

(* find_verified_source_rule, confirmed_verified_source_rule, and the      *)
(* eligibility of the built-in rule.                                       *)
Confirmed_AnyText(t) == confirmed[t] # None

Confirmed(t) == confirmed[t] = builtin[t].text

ReadBuiltIn ==
    /\ OnTrack("built_in")
    /\ LET rule == builtin[Track]
       IN IF rule = None \/ rule.status # "VERIFIED_SOURCE"
          THEN Answer(Failed("PREPARING", "BUILT_IN"))
          ELSE IF Decide(rule.eligibility, Facts).status \notin ScoreAllowed
          THEN Answer(Blocked("BUILT_IN"))
          ELSE /\ batch' = [batch EXCEPT !.at = "built_in_records",
                              !.read = [eligibility |-> rule.eligibility, scope |-> rule.scope,
                                        score |-> rule, confirmed |-> Confirmed(Track)]]
               /\ UNCHANGED items
    /\ UNCHANGED <<stored, seen>>

-----------------------------------------------------------------------------
(* _load_imported_result_comparison and classify_admission_result: a       *)
(* result of another scale is not shown, one under another rule or year is *)
(* for reference.                                                          *)
Comparison(t, rule) ==
    LET r == Imported[t]
    IN  CASE r = None -> "NOT_AVAILABLE"
          [] r # None /\ (r.basis # "RANK_GRADE" \/ r.direction # "LOWER_IS_BETTER") ->
               "INCOMPATIBLE_SCALE"
          [] OTHER -> IF r.same_year /\ r.rule = rule.text THEN "COMPARABLE" ELSE "REFERENCE_ONLY"

(* run_consultation from the records on; every exception is a ValueError.  *)
Evaluated(basis, origin, failure) ==
    LET rule == batch.read.score
        t == [kind |-> "SCORE", d |-> rule.d, policy |-> batch.read.scope, records |-> basis,
              table |-> rule.table, attendance |-> None]
        status == Selection(t).status
    IN  CASE status = "REFUSED" -> Failed(failure, origin)
          [] status = "INSUFFICIENT_DATA" ->
               Item("EVALUATED", "INSUFFICIENT_DATA", origin, basis, None, None)
          [] status = "NEEDS_REVIEW" ->
               Item("EVALUATED", "SCORE_NEEDS_REVIEW", origin, basis, None, None)
          [] status = "READY" ->
               IF Grade(t) = None THEN Failed(failure, origin)
               ELSE Item("EVALUATED", "READY", origin, basis, Grade(t).display,
                         Comparison(Track, rule))

Loaded_EachTrack == records

Loaded == IF batch.cache # None THEN batch.cache ELSE records

(* records_loader_from_database: the records of the first track that asked *)
ScoreTrack(step, origin, failure) ==
    /\ OnTrack(step)
    /\ items' = Answered(Evaluated(Loaded, origin, failure))
    /\ batch' = [batch EXCEPT !.at = "next", !.track = None, !.read = NoReading, !.cache = Loaded]
    /\ UNCHANGED <<stored, seen>>

ScorePublished == ScoreTrack("records", "PUBLISHED", "ERROR")
ScoreBuiltIn == ScoreTrack("built_in_records", "BUILT_IN", "PREPARING")

(* A database error: the savepoint of a track keeps it to that track; in   *)
(* the fallback, which runs outside of it, it ends the batch.              *)
DatabaseError ==
    /\ \/ \E step \in {"eligibility", "scope", "score", "records"} : OnTrack(step)
          /\ Answer(Failed("ERROR", "PUBLISHED"))
       \/ \E step \in {"built_in", "built_in_records"} : OnTrack(step)
          /\ batch' = Idle /\ UNCHANGED items
    /\ UNCHANGED <<stored, seen>>

-----------------------------------------------------------------------------
InitBatch ==
    /\ Init
    /\ published = [t \in Tracks |-> CHOOSE offer \in Offers[t] : TRUE]
    /\ builtin = [t \in Tracks |-> CHOOSE rule \in BuiltIns[t] : TRUE]
    /\ confirmed = [t \in Tracks |-> None]
    /\ records = CHOOSE set \in RecordSets : TRUE
    /\ batch = Idle
    /\ items = <<>>
    /\ seen = [lacked |-> {}, confirmed |-> {}]

NextBatch ==
    /\ task.kind = "BATCH"
    /\ \/ \E t \in Tracks : Publish(t) \/ Confirm(t) \/ Deploy(t)
       \/ EditRecords
       \/ StartBatch \/ NextTrack
       \/ ReadEligibility \/ ReadScope \/ ReadScore \/ ReadBuiltIn
       \/ ScorePublished \/ ScoreBuiltIn
       \/ DatabaseError
    /\ UNCHANGED <<task, result>>

NextEvaluation == Next /\ UNCHANGED <<stored, batch, items, seen>>

SpecBatch == InitBatch /\ [][NextBatch \/ NextEvaluation]_allVars

-----------------------------------------------------------------------------
(* All items of one answer rest on the same records, however they change   *)
(* while the batch runs: programs are compared on one grade history.       *)
SameRecords ==
    \A t, u \in DOMAIN items :
        items[t].basis # None /\ items[u].basis # None => items[t].basis = items[u].basis

(* A built-in rule answers only for a track that lacked a usable published *)
(* rule at some time while the batch ran.                                  *)
PublishedFirst ==
    \A t \in DOMAIN items : items[t].origin = "BUILT_IN" => t \in seen.lacked

(* An answer says "finally confirmed by an administrator" only of a text   *)
(* an administrator has confirmed, whatever was deployed under the same    *)
(* rule id and version.                                                    *)
ConfirmationCovers ==
    \A t \in DOMAIN items :
        items[t].read.confirmed => <<t, items[t].read.score.text>> \in seen.confirmed

=============================================================================
