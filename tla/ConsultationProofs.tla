-------------------------- MODULE ConsultationProofs --------------------------
(***************************************************************************)
(* What holds of every batch of consultations, whatever the rules, the     *)
(* records and the tracks are and whatever is published, confirmed,        *)
(* deployed or edited between two of its queries; and what holds of single *)
(* evaluations for any records and any history of applications.            *)
(*                                                                         *)
(* The argument about a batch does not depend on what a rule computes: a   *)
(* track only falls back after a query found a rule lacking, the records   *)
(* are read once and kept, and an answer keeps what was read with it.      *)
(*                                                                         *)
(* Of a calculation: the first semesters of an order that puts the better  *)
(* ones first have the best total, by exchanging one semester for another  *)
(* until the two selections agree; and a grade is an average of averages,  *)
(* each of which lies between two of its values and is rounded once.  Sums *)
(* over sets are reasoned about by removing one element (SetInduction).    *)
(* None of the refusals applies to records that cover the weights.         *)
(***************************************************************************)
EXTENDS Consultation, FiniteSetTheorems, SequenceTheorems, WellFoundedInduction, TLAPS

Kinds == {"eligibility", "scope", "score"}
Fallback == {"built_in", "built_in_records"}

StoredOK ==
    /\ published \in [Tracks -> UNION {Offers[t] : t \in Tracks}]
    /\ \A t \in Tracks : published[t] \in Offers[t]
    /\ builtin \in [Tracks -> UNION {BuiltIns[t] : t \in Tracks}]
    /\ \A t \in Tracks : builtin[t] \in BuiltIns[t]
    /\ DOMAIN confirmed = Tracks /\ confirmed = [t \in Tracks |-> confirmed[t]]
    /\ records \in RecordSets
    /\ seen = [lacked |-> seen.lacked, confirmed |-> seen.confirmed]

(* The batch under way, by its step.                                       *)
BatchOK ==
    /\ batch = [at |-> batch.at, track |-> batch.track, todo |-> batch.todo,
                cache |-> batch.cache, read |-> batch.read]
    /\ batch.read = [eligibility |-> batch.read.eligibility, scope |-> batch.read.scope,
                     score |-> batch.read.score, confirmed |-> batch.read.confirmed]
    /\ batch.at \in Steps
    /\ batch.todo \subseteq Tracks
    /\ batch.at \notin {"idle", "next"} => batch.track \in Tracks

(* A rule that is lacking now, or was when the batch found it so, has been *)
(* noticed; what the batch has read as confirmed was.                      *)
NoticedOK ==
    /\ batch.at # "idle" => Lacking \subseteq seen.lacked
    /\ batch.at \in Fallback => batch.track \in seen.lacked
    /\ \A t \in Tracks : confirmed[t] # None => <<t, confirmed[t]>> \in seen.confirmed
    /\ batch.read.confirmed \in BOOLEAN
    /\ batch.read.confirmed => /\ batch.at = "built_in_records"
                               /\ <<batch.track, batch.read.score.text>> \in seen.confirmed

(* The records that any answer of the batch rests on are the ones kept.    *)
KeptOK ==
    batch.at # "idle" => \A t \in DOMAIN items : items[t].basis \in {None, batch.cache}

BatchInv ==
    /\ StoredOK /\ BatchOK /\ NoticedOK /\ KeptOK
    /\ SameRecords /\ PublishedFirst /\ ConfirmationCovers

-----------------------------------------------------------------------------
(* The stages of a selection end with one of the code's statuses.          *)
LEMMA SelectionStatus ==
    ASSUME NEW t
    PROVE  Selection(t).status \in Statuses \cup {"REFUSED"}
<1> DEFINE inputs == SelectInputs(t.records, t.policy)
           values == CourseValues(inputs.records, t.d, t.table)
<1>1. inputs.status \in Statuses
  BY DEF SelectInputs, Statuses
<1>2. SelectTerms(inputs, t.d, values).status \in Statuses
  <2> HIDE DEF values, inputs
  <2> QED  BY <1>1 DEF SelectTerms, Statuses
<1> HIDE DEF values
<1> QED  BY <1>1, <1>2 DEF Selection, Unready, Statuses, values

(* An answer is one item, kept with what was read for it.                  *)
LEMMA EvaluatedItem ==
    ASSUME NEW basis, NEW origin, NEW failure
    PROVE  LET item == Evaluated(basis, origin, failure)
           IN  /\ item.basis \in {None, basis}
               /\ item.origin = origin
               /\ item.read = batch.read
<1> DEFINE rule == batch.read.score
           t == [kind |-> "SCORE", d |-> rule.d, policy |-> batch.read.scope, records |-> basis,
                 table |-> rule.table, attendance |-> None]
<1>1. Selection(t).status \in {"READY", "NEEDS_REVIEW", "INSUFFICIENT_DATA", "REFUSED"}
  BY SelectionStatus DEF Statuses
<1>2. \/ Evaluated(basis, origin, failure) = Failed(failure, origin)
      \/ \E status, grade, comparison :
           Evaluated(basis, origin, failure) = Item("EVALUATED", status, origin, basis, grade, comparison)
  <2> DEFINE status == Selection(t).status
             grade == Grade(t)
             comparison == Comparison(Track, rule)
  <2>1. Evaluated(basis, origin, failure) =
          CASE status = "REFUSED" -> Failed(failure, origin)
            [] status = "INSUFFICIENT_DATA" ->
                 Item("EVALUATED", "INSUFFICIENT_DATA", origin, basis, None, None)
            [] status = "NEEDS_REVIEW" ->
                 Item("EVALUATED", "SCORE_NEEDS_REVIEW", origin, basis, None, None)
            [] status = "READY" ->
                 IF grade = None THEN Failed(failure, origin)
                 ELSE Item("EVALUATED", "READY", origin, basis, grade.display, comparison)
    BY DEF Evaluated
  <2>2. status \in {"READY", "NEEDS_REVIEW", "INSUFFICIENT_DATA", "REFUSED"}
    BY <1>1
  <2> HIDE DEF status, grade, comparison, t, rule
  <2> QED  BY <2>1, <2>2
<1> QED  BY <1>2 DEF Failed, Item

-----------------------------------------------------------------------------
(* The ways an answer is given.                                            *)
LEMMA AnswerStep ==
    ASSUME BatchInv, NEW item, Answer(item), UNCHANGED <<stored, seen>>, batch.at # "idle",
           batch.track \in Tracks,
           item.basis = None,
           item.origin = "BUILT_IN" => batch.track \in seen.lacked,
           item.read = batch.read
    PROVE  BatchInv'
<1> USE DEF BatchInv
<1>1. StoredOK'
  BY DEF StoredOK, stored
<1>2. BatchOK'
  BY DEF BatchOK, Answer, NoReading, Steps
<1>3. NoticedOK'
  BY DEF NoticedOK, StoredOK, BatchOK, stored, Answer, NoReading, Fallback, Lacking
<1>4. /\ DOMAIN items' = DOMAIN items \cup {batch.track}
      /\ \A t \in DOMAIN items' : items'[t] = IF t = batch.track THEN item ELSE items[t]
  BY DEF Answer, Answered, Track
<1>5. batch'.cache = batch.cache
  BY DEF Answer, BatchOK
<1>6. KeptOK' /\ SameRecords'
  BY <1>4, <1>5 DEF KeptOK, SameRecords
<1>7. PublishedFirst'
  BY <1>4 DEF PublishedFirst
<1>8. ConfirmationCovers'
  BY <1>4 DEF ConfirmationCovers, NoticedOK
<1> QED  BY <1>1, <1>2, <1>3, <1>6, <1>7, <1>8

LEMMA ScoreStep ==
    ASSUME BatchInv, NEW step, NEW origin, NEW failure, ScoreTrack(step, origin, failure),
           step \in Steps \ {"idle", "next"},
           origin = "BUILT_IN" => step \in Fallback
    PROVE  BatchInv'
<1> USE DEF BatchInv
<1> DEFINE item == Evaluated(Loaded, origin, failure)
<1>1. item.basis \in {None, Loaded} /\ item.origin = origin /\ item.read = batch.read
  BY EvaluatedItem
<1> HIDE DEF item
<1>2. /\ batch.at = step /\ batch.track \in Tracks
      /\ UNCHANGED <<stored, seen>>
  BY DEF ScoreTrack, OnTrack, BatchOK
<1>3. /\ DOMAIN items' = DOMAIN items \cup {batch.track}
      /\ \A t \in DOMAIN items' : items'[t] = IF t = batch.track THEN item ELSE items[t]
  BY DEF ScoreTrack, Answered, Track, item
<1>4. /\ batch' = [at |-> "next", track |-> None, todo |-> batch.todo, cache |-> Loaded,
                   read |-> NoReading]
  BY DEF ScoreTrack, BatchOK
<1>5. StoredOK'
  BY <1>2 DEF StoredOK, stored
<1>6. BatchOK'
  BY <1>4 DEF BatchOK, NoReading, Steps
<1>7. NoticedOK'
  BY <1>2, <1>4 DEF NoticedOK, StoredOK, BatchOK, stored, NoReading, Fallback, Lacking
<1>8. \A t \in DOMAIN items' : items'[t].basis \in {None, Loaded}
  BY <1>1, <1>2, <1>3 DEF KeptOK, Loaded
<1>9. KeptOK' /\ SameRecords'
  BY <1>4, <1>8 DEF KeptOK, SameRecords
<1>10. PublishedFirst'
  BY <1>1, <1>2, <1>3 DEF PublishedFirst, NoticedOK
<1>11. ConfirmationCovers'
  BY <1>1, <1>2, <1>3 DEF ConfirmationCovers, NoticedOK
<1> QED  BY <1>5, <1>6, <1>7, <1>9, <1>10, <1>11

(* The ways a batch goes on without an answer; dropped is the whole batch. *)
LEMMA GoOnStep ==
    ASSUME BatchInv, UNCHANGED <<stored, seen, items>>,
           BatchOK',
           batch.at = "idle" => batch'.at = "idle",
           batch'.at # "idle" => batch'.cache = batch.cache,
           batch'.at \in Fallback => batch'.track \in seen.lacked,
           batch'.read.confirmed \in BOOLEAN,
           batch'.read.confirmed => /\ batch'.at = "built_in_records"
                                    /\ <<batch'.track, batch'.read.score.text>> \in seen.confirmed
    PROVE  BatchInv'
<1> USE DEF BatchInv
<1>1. StoredOK'
  BY DEF StoredOK, stored
<1>2. NoticedOK'
  BY DEF NoticedOK, stored, Lacking
<1>3. KeptOK' /\ SameRecords' /\ PublishedFirst' /\ ConfirmationCovers'
  BY DEF KeptOK, SameRecords, PublishedFirst, ConfirmationCovers
<1> QED  BY <1>1, <1>2, <1>3
-----------------------------------------------------------------------------
(* The world changes under the batch.                                      *)
LEMMA PublishStep ==
    ASSUME BatchInv, NEW t \in Tracks, Publish(t)
    PROVE  BatchInv'
<1> USE DEF BatchInv
<1>1. PICK offer \in Offers[t] : published' = [published EXCEPT ![t] = offer]
  BY DEF Publish
<1>2. UNCHANGED <<builtin, confirmed, records, batch, items>>
  BY DEF Publish
<1>3. seen' = [lacked |-> seen.lacked \cup Lacking', confirmed |-> seen.confirmed]
  BY DEF Publish, Lacking, StoredOK
<1>4. StoredOK'
  BY <1>1, <1>2, <1>3 DEF StoredOK
<1>5. BatchOK'
  BY <1>2 DEF BatchOK
<1>6. NoticedOK'
  BY <1>2, <1>3 DEF NoticedOK
<1>7. KeptOK' /\ SameRecords' /\ PublishedFirst' /\ ConfirmationCovers'
  BY <1>2, <1>3 DEF KeptOK, SameRecords, PublishedFirst, ConfirmationCovers
<1> QED  BY <1>4, <1>5, <1>6, <1>7

LEMMA ConfirmStep ==
    ASSUME BatchInv, NEW t \in Tracks, Confirm(t)
    PROVE  BatchInv'
<1> USE DEF BatchInv
<1>1. UNCHANGED <<published, builtin, records, batch, items>>
  BY DEF Confirm
<1>2. /\ confirmed' = [confirmed EXCEPT ![t] = builtin[t].text]
      /\ seen' = [lacked |-> seen.lacked,
                  confirmed |-> seen.confirmed \cup {<<t, builtin[t].text>>}]
  BY DEF Confirm, StoredOK
<1>3. StoredOK'
  BY <1>1, <1>2 DEF StoredOK
<1>4. BatchOK'
  BY <1>1 DEF BatchOK
<1>5. NoticedOK'
  BY <1>1, <1>2 DEF NoticedOK, StoredOK, Lacking
<1>6. KeptOK' /\ SameRecords' /\ PublishedFirst' /\ ConfirmationCovers'
  BY <1>1, <1>2 DEF KeptOK, SameRecords, PublishedFirst, ConfirmationCovers
<1> QED  BY <1>3, <1>4, <1>5, <1>6

LEMMA DeployStep ==
    ASSUME BatchInv, NEW t \in Tracks, Deploy(t)
    PROVE  BatchInv'
<1> USE DEF BatchInv
<1>1. /\ batch' = Idle
      /\ UNCHANGED <<published, confirmed, records, items, seen>>
  BY DEF Deploy
<1>2. StoredOK'
  BY <1>1 DEF StoredOK, Deploy
<1>3. BatchOK' /\ NoticedOK'
  BY <1>1 DEF BatchOK, NoticedOK, Idle, NoReading, Steps, Fallback, StoredOK
<1>4. KeptOK' /\ SameRecords' /\ PublishedFirst' /\ ConfirmationCovers'
  BY <1>1 DEF KeptOK, SameRecords, PublishedFirst, ConfirmationCovers, Idle
<1> QED  BY <1>2, <1>3, <1>4

LEMMA EditRecordsStep ==
    ASSUME BatchInv, EditRecords
    PROVE  BatchInv'
  BY DEF EditRecords, BatchInv, StoredOK, BatchOK, NoticedOK, KeptOK, Lacking, SameRecords,
         PublishedFirst, ConfirmationCovers

-----------------------------------------------------------------------------
(* The steps of the batch.                                                 *)
LEMMA StartBatchStep ==
    ASSUME BatchInv, StartBatch
    PROVE  BatchInv'
<1> USE DEF BatchInv
<1>1. /\ batch' = [at |-> "next", track |-> None, todo |-> Tracks, cache |-> None,
                   read |-> NoReading]
      /\ items' = <<>> /\ UNCHANGED stored
      /\ seen' = [lacked |-> Lacking, confirmed |-> seen.confirmed]
  BY DEF StartBatch, Idle, StoredOK
<1>2. StoredOK'
  BY <1>1 DEF StoredOK, stored
<1>3. BatchOK'
  BY <1>1 DEF BatchOK, NoReading, Steps
<1>4. NoticedOK'
  BY <1>1 DEF NoticedOK, NoReading, Fallback, stored, Lacking
<1>5. DOMAIN items' = {}
  BY <1>1
<1>6. KeptOK' /\ SameRecords' /\ PublishedFirst' /\ ConfirmationCovers'
  BY <1>5 DEF KeptOK, SameRecords, PublishedFirst, ConfirmationCovers
<1> QED  BY <1>2, <1>3, <1>4, <1>6

LEMMA NextTrackStep ==
    ASSUME BatchInv, NextTrack
    PROVE  BatchInv'
<1>1. UNCHANGED <<stored, seen, items>> /\ batch.at = "next"
  BY DEF NextTrack, OnTrack
<1>2. CASE batch.todo = {}
  <2>1. batch' = Idle
    BY <1>2 DEF NextTrack
  <2> QED  BY <1>1, <2>1, GoOnStep DEF Idle, NoReading, Steps, BatchOK, Fallback
<1>3. CASE batch.todo # {}
  <2>1. PICK t \in batch.todo :
          batch' = [batch EXCEPT !.at = "eligibility", !.track = t, !.todo = @ \ {t},
                                 !.read = NoReading]
    BY <1>3 DEF NextTrack
  <2>2. batch' = [at |-> "eligibility", track |-> t, todo |-> batch.todo \ {t},
                  cache |-> batch.cache, read |-> NoReading]
    BY <2>1 DEF BatchInv, BatchOK
  <2>3. BatchOK'
    BY <2>2 DEF BatchInv, BatchOK, NoReading, Steps
  <2> QED  BY <1>1, <2>2, <2>3, GoOnStep DEF NoReading, Fallback
<1> QED  BY <1>2, <1>3

(* A query that finds no rule sends the track to its built-in rule.        *)
LEMMA FallBack ==
    ASSUME BatchInv, NEW kind \in Kinds, published[batch.track][kind] = None,
           batch.at \notin {"idle", "next"} \cup Fallback,
           Go("built_in"), UNCHANGED <<stored, seen, items>>
    PROVE  BatchInv'
<1>1. batch.track \in Lacking
  BY TracksAssumption DEF Lacking, BatchInv, BatchOK, StoredOK, Kinds
<1>2. batch' = [batch EXCEPT !.at = "built_in"]
  BY DEF Go
<1>3. batch' = [at |-> "built_in", track |-> batch.track, todo |-> batch.todo,
                cache |-> batch.cache, read |-> batch.read]
  BY <1>2 DEF BatchInv, BatchOK
<1>4. BatchOK'
  BY <1>3 DEF BatchInv, BatchOK, Steps
<1> QED  BY <1>1, <1>3, <1>4, GoOnStep DEF BatchInv, NoticedOK, Fallback

(* A query that finds one keeps it for this track.                         *)
LEMMA ReadOn ==
    ASSUME BatchInv, NEW kind \in Kinds, NEW rule, NEW step \in Steps \ ({"idle", "next"} \cup Fallback),
           batch.at \notin {"idle", "next"},
           batch.at # "built_in_records",
           Read(kind, rule, step), UNCHANGED <<stored, seen, items>>
    PROVE  BatchInv'
<1>1. batch' = [at |-> step, track |-> batch.track, todo |-> batch.todo,
                cache |-> batch.cache, read |-> [batch.read EXCEPT ![kind] = rule]]
  BY DEF Read, BatchInv, BatchOK
<1>2. /\ batch'.read = [eligibility |-> batch'.read.eligibility, scope |-> batch'.read.scope,
                        score |-> batch'.read.score, confirmed |-> batch'.read.confirmed]
      /\ batch'.read.confirmed = batch.read.confirmed
  BY <1>1 DEF BatchInv, BatchOK, Kinds
<1>3. BatchOK'
  BY <1>1, <1>2 DEF BatchInv, BatchOK
<1> QED  BY <1>1, <1>2, <1>3, GoOnStep DEF BatchInv, NoticedOK

LEMMA ReadEligibilityStep ==
    ASSUME BatchInv, ReadEligibility
    PROVE  BatchInv'
<1> DEFINE rule == published[Track].eligibility
<1>1. batch.at = "eligibility" /\ UNCHANGED <<stored, seen>> /\ batch.track \in Tracks
  BY DEF ReadEligibility, OnTrack, BatchInv, BatchOK
<1>2. \/ rule = None /\ Go("built_in") /\ UNCHANGED items
      \/ Answer(Blocked("PUBLISHED"))
      \/ Read("eligibility", rule, "scope") /\ UNCHANGED items
  BY DEF ReadEligibility
<1>3. CASE rule = None /\ Go("built_in") /\ UNCHANGED items
  BY <1>1, <1>3, FallBack DEF Kinds, Fallback, Track
<1>4. CASE Answer(Blocked("PUBLISHED"))
  BY <1>1, <1>4, AnswerStep DEF Blocked, Item
<1>5. CASE Read("eligibility", rule, "scope") /\ UNCHANGED items
  BY <1>1, <1>5, ReadOn DEF Kinds, Steps, Fallback
<1> QED  BY <1>2, <1>3, <1>4, <1>5

LEMMA ReadScopeStep ==
    ASSUME BatchInv, ReadScope
    PROVE  BatchInv'
<1> DEFINE rule == published[Track].scope
<1>1. batch.at = "scope" /\ UNCHANGED <<stored, seen, items>>
  BY DEF ReadScope, OnTrack
<1>2. \/ rule = None /\ Go("built_in")
      \/ Read("scope", rule, "score")
  BY DEF ReadScope
<1>3. CASE rule = None /\ Go("built_in")
  BY <1>1, <1>3, FallBack DEF Kinds, Fallback, Track
<1>4. CASE Read("scope", rule, "score")
  BY <1>1, <1>4, ReadOn DEF Kinds, Steps, Fallback
<1> QED  BY <1>2, <1>3, <1>4

LEMMA ReadScoreStep ==
    ASSUME BatchInv, ReadScore
    PROVE  BatchInv'
<1> DEFINE rule == published[Track].score
<1>1. batch.at = "score" /\ UNCHANGED <<stored, seen>> /\ batch.track \in Tracks
  BY DEF ReadScore, OnTrack, BatchInv, BatchOK
<1>2. \/ rule = None /\ Go("built_in") /\ UNCHANGED items
      \/ Answer(Failed("ERROR", "PUBLISHED"))
      \/ Read("score", rule, "records") /\ UNCHANGED items
  BY DEF ReadScore
<1>3. CASE rule = None /\ Go("built_in") /\ UNCHANGED items
  BY <1>1, <1>3, FallBack DEF Kinds, Fallback, Track
<1>4. CASE Answer(Failed("ERROR", "PUBLISHED"))
  BY <1>1, <1>4, AnswerStep DEF Failed, Item
<1>5. CASE Read("score", rule, "records") /\ UNCHANGED items
  BY <1>1, <1>5, ReadOn DEF Kinds, Steps, Fallback
<1> QED  BY <1>2, <1>3, <1>4, <1>5

(* The built-in rule is read as confirmed only while its own text is the   *)
(* text confirmed last.                                                    *)
LEMMA ReadBuiltInStep ==
    ASSUME BatchInv, ReadBuiltIn
    PROVE  BatchInv'
<1> DEFINE rule == builtin[Track]
<1>1. /\ batch.at = "built_in" /\ UNCHANGED <<stored, seen>> /\ batch.track \in Tracks
      /\ batch.track \in seen.lacked
  BY DEF ReadBuiltIn, OnTrack, BatchInv, BatchOK, NoticedOK, Fallback
<1>2. \/ Answer(Failed("PREPARING", "BUILT_IN"))
      \/ Answer(Blocked("BUILT_IN"))
      \/ /\ rule # None
         /\ batch' = [batch EXCEPT !.at = "built_in_records",
                        !.read = [eligibility |-> rule.eligibility, scope |-> rule.scope,
                                  score |-> rule, confirmed |-> Confirmed(Track)]]
         /\ UNCHANGED items
  BY DEF ReadBuiltIn
<1>3. CASE Answer(Failed("PREPARING", "BUILT_IN"))
  BY <1>1, <1>3, AnswerStep DEF Failed, Item
<1>4. CASE Answer(Blocked("BUILT_IN"))
  BY <1>1, <1>4, AnswerStep DEF Blocked, Item
<1>5. CASE /\ rule # None
           /\ batch' = [batch EXCEPT !.at = "built_in_records",
                          !.read = [eligibility |-> rule.eligibility, scope |-> rule.scope,
                                    score |-> rule, confirmed |-> Confirmed(Track)]]
           /\ UNCHANGED items
  <2>1. batch' = [at |-> "built_in_records", track |-> batch.track, todo |-> batch.todo,
                  cache |-> batch.cache,
                  read |-> [eligibility |-> rule.eligibility, scope |-> rule.scope,
                            score |-> rule, confirmed |-> Confirmed(Track)]]
    BY <1>5 DEF BatchInv, BatchOK
  <2>2. BatchOK'
    BY <1>1, <2>1 DEF BatchInv, BatchOK, Steps
  <2>3. Confirmed(Track) => <<batch.track, rule.text>> \in seen.confirmed
    <3>1. rule.text # None
      BY <1>1, <1>5, TracksAssumption DEF Track, BatchInv, StoredOK
    <3> QED  BY <1>1, <3>1 DEF Confirmed, Track, BatchInv, NoticedOK
  <2>4. Confirmed(Track) \in BOOLEAN
    BY DEF Confirmed
  <2> QED  BY <1>1, <1>5, <2>1, <2>2, <2>3, <2>4, GoOnStep
<1> QED  BY <1>2, <1>3, <1>4, <1>5

LEMMA DatabaseErrorStep ==
    ASSUME BatchInv, DatabaseError
    PROVE  BatchInv'
<1>1. UNCHANGED <<stored, seen>>
  BY DEF DatabaseError
<1>2. CASE \E step \in {"eligibility", "scope", "score", "records"} : OnTrack(step)
           /\ Answer(Failed("ERROR", "PUBLISHED"))
  <2>1. batch.at # "idle" /\ batch.track \in Tracks /\ Answer(Failed("ERROR", "PUBLISHED"))
    BY <1>2 DEF OnTrack, BatchInv, BatchOK
  <2> QED  BY <1>1, <2>1, AnswerStep DEF Failed, Item
<1>3. CASE \E step \in {"built_in", "built_in_records"} : OnTrack(step)
           /\ batch' = Idle /\ UNCHANGED items
  <2>1. batch' = Idle /\ UNCHANGED <<stored, seen, items>>
    BY <1>1, <1>3
  <2>2. BatchOK'
    BY <2>1 DEF Idle, NoReading, Steps, BatchOK
  <2> QED  BY <2>1, <2>2, GoOnStep DEF Idle, NoReading, Fallback
<1> QED  BY <1>2, <1>3 DEF DatabaseError

-----------------------------------------------------------------------------
LEMMA BatchStep ==
    ASSUME BatchInv, [NextBatch \/ NextEvaluation]_allVars
    PROVE  BatchInv'
<1>1. CASE \E t \in Tracks : Publish(t) \/ Confirm(t) \/ Deploy(t)
  BY <1>1, PublishStep, ConfirmStep, DeployStep
<1>2. CASE EditRecords
  BY <1>2, EditRecordsStep
<1>3. CASE StartBatch
  BY <1>3, StartBatchStep
<1>4. CASE NextTrack
  BY <1>4, NextTrackStep
<1>5. CASE ReadEligibility \/ ReadScope \/ ReadScore \/ ReadBuiltIn
  BY <1>5, ReadEligibilityStep, ReadScopeStep, ReadScoreStep, ReadBuiltInStep
<1>6. CASE ScorePublished
  BY <1>6, ScoreStep DEF ScorePublished, Steps
<1>7. CASE ScoreBuiltIn
  BY <1>7, ScoreStep DEF ScoreBuiltIn, Steps, Fallback
<1>8. CASE DatabaseError
  BY <1>8, DatabaseErrorStep
<1>9. CASE NextEvaluation \/ UNCHANGED allVars
  <2>1. UNCHANGED <<stored, batch, items, seen>>
    BY <1>9 DEF NextEvaluation, allVars
  <2> QED  BY <2>1 DEF stored, BatchInv, StoredOK, BatchOK, NoticedOK, KeptOK, Lacking, SameRecords,
                       PublishedFirst, ConfirmationCovers
<1> QED  BY <1>1, <1>2, <1>3, <1>4, <1>5, <1>6, <1>7, <1>8, <1>9 DEF NextBatch

LEMMA BatchStarts == InitBatch => BatchInv
<1> SUFFICES ASSUME InitBatch PROVE BatchInv
  OBVIOUS
<1> USE DEF InitBatch
<1>1. StoredOK
  <2>1. \A t \in Tracks : /\ (CHOOSE offer \in Offers[t] : TRUE) \in Offers[t]
                          /\ (CHOOSE rule \in BuiltIns[t] : TRUE) \in BuiltIns[t]
    BY TracksAssumption
  <2>2. \A t \in Tracks : published[t] \in Offers[t] /\ builtin[t] \in BuiltIns[t]
    BY <2>1
  <2>3. records \in RecordSets
    BY TracksAssumption
  <2> QED  BY <2>2, <2>3 DEF StoredOK
<1>2. BatchOK /\ NoticedOK
  BY DEF BatchOK, NoticedOK, Idle, NoReading, Steps, Fallback
<1>3. DOMAIN items = {}
  OBVIOUS
<1>4. KeptOK /\ SameRecords /\ PublishedFirst /\ ConfirmationCovers
  BY <1>3 DEF KeptOK, SameRecords, PublishedFirst, ConfirmationCovers
<1> QED  BY <1>1, <1>2, <1>4 DEF BatchInv

(* A batch keeps its argument whatever happens between two of its queries: *)
(* the invariant that the three properties below rest on.                  *)
THEOREM BatchSound == SpecBatch => []BatchInv
  BY BatchStarts, BatchStep, PTL DEF SpecBatch

(* All answers of a batch rest on the same records, however often the      *)
(* student edits them while run_batch_consultation goes on.                *)
THEOREM OneHistory == SpecBatch => []SameRecords
<1>1. BatchInv => SameRecords
  BY DEF BatchInv
<1> QED  BY <1>1, BatchSound, PTL

(* A built-in rule answers only for a track that lacked a published rule   *)
(* while the batch ran.                                                    *)
THEOREM FallbackOnlyWhenLacking == SpecBatch => []PublishedFirst
<1>1. BatchInv => PublishedFirst
  BY DEF BatchInv
<1> QED  BY <1>1, BatchSound, PTL

(* An answer calls confirmed only a text that an administrator confirmed.  *)
THEOREM ConfirmedText == SpecBatch => []ConfirmationCovers
<1>1. BatchInv => ConfirmationCovers
  BY DEF BatchInv
<1> QED  BY <1>1, BatchSound, PTL

-----------------------------------------------------------------------------
(* Applications: the choices of one institution, and of one campus of it.  *)
At(h, choice) == {j \in DOMAIN h : h[j].institution = choice.institution}
AtCampus(h, choice) == {j \in At(h, choice) : h[j].campus = choice.campus}

Limited(policy, h) ==
    \A i \in DOMAIN h :
      /\ policy.total # Unlimited => Cardinality(At(h, h[i])) <= policy.total
      /\ policy.campus # Unlimited => Cardinality(AtCampus(h, h[i])) <= policy.campus
      /\ \A j \in At(h, h[i]) \ {i} : {h[i].track, h[j].track} \notin policy.forbidden

(* One more choice counts at its own institution and campus, and only      *)
(* there.                                                                  *)
LEMMA OneMoreChoice ==
    ASSUME NEW S, NEW h \in Seq(S), NEW new \in S
    PROVE  LET after == Append(h, new)
           IN  /\ DOMAIN after = DOMAIN h \cup {Len(h) + 1} /\ Len(h) + 1 \notin DOMAIN h
               /\ after[Len(h) + 1] = new
               /\ \A i \in DOMAIN h : after[i] = h[i]
               /\ At(after, new) = At(h, new) \cup {Len(h) + 1}
               /\ AtCampus(after, new) = AtCampus(h, new) \cup {Len(h) + 1}
               /\ \A c : c.institution # new.institution => At(after, c) = At(h, c)
               /\ \A c : c.institution # new.institution \/ c.campus # new.campus
                           => AtCampus(after, c) = AtCampus(h, c)
<1> DEFINE after == Append(h, new)
           n == Len(h) + 1
<1>1. DOMAIN after = DOMAIN h \cup {n} /\ n \notin DOMAIN h /\ after[n] = new
  OBVIOUS
<1>2. \A i \in DOMAIN h : after[i] = h[i]
  OBVIOUS
<1> HIDE DEF after, n
<1>3. \A c : At(after, c) = At(h, c) \cup {i \in {n} : new.institution = c.institution}
  BY <1>1, <1>2 DEF At
<1>4. \A c : AtCampus(after, c) =
        AtCampus(h, c) \cup {i \in {n} : new.institution = c.institution /\ new.campus = c.campus}
  <2>1. \A c : /\ AtCampus(after, c) =
                     {i \in DOMAIN after : after[i].institution = c.institution
                                            /\ after[i].campus = c.campus}
               /\ AtCampus(h, c) = {i \in DOMAIN h : h[i].institution = c.institution
                                                     /\ h[i].campus = c.campus}
    BY DEF AtCampus, At
  <2> QED  BY <1>1, <1>2, <2>1
<1> QED  BY <1>1, <1>2, <1>3, <1>4 DEF after, n

LEMMA CountedChoices ==
    ASSUME NEW S, NEW h \in Seq(S), NEW c
    PROVE  /\ IsFiniteSet(At(h, c)) /\ IsFiniteSet(AtCampus(h, c))
           /\ Cardinality(At(h, c)) \in Nat /\ Cardinality(AtCampus(h, c)) \in Nat
<1>1. IsFiniteSet(DOMAIN h)
  BY FS_Interval
<1>2. At(h, c) \subseteq DOMAIN h /\ AtCampus(h, c) \subseteq DOMAIN h
  BY DEF At, AtCampus
<1> QED  BY <1>1, <1>2, FS_Subset, FS_CardinalityType

(* evaluate_multiple_application looks at the limits of the institution    *)
(* and campus of the candidate only; they are all that the choice changes. *)
LEMMA AllowedKeepsLimits ==
    ASSUME NEW S, NEW h \in Seq(S), NEW new \in S, NEW policy, NEW complete \in BOOLEAN,
           policy.total \in Nat, policy.campus \in Nat,
           Limited(policy, h), Apply(policy, new, h, complete) = "ALLOWED"
    PROVE  Limited(policy, Append(h, new))
<1> DEFINE after == Append(h, new)
           n == Len(h) + 1
<1>1. /\ {{h[i].track, new.track} : i \in At(h, new)} \cap policy.forbidden = {}
      /\ policy.total # Unlimited => ~(Cardinality(At(h, new)) + 1 > policy.total)
      /\ policy.campus # Unlimited => ~(Cardinality(AtCampus(h, new)) + 1 > policy.campus)
  <2>1. AtCampus(h, new) = {i \in At(h, new) : h[i].campus = new.campus}
    BY DEF AtCampus
  <2> QED  BY <2>1 DEF Apply, At
<1>2. /\ DOMAIN after = DOMAIN h \cup {n} /\ n \notin DOMAIN h
      /\ after[n] = new /\ \A i \in DOMAIN h : after[i] = h[i]
      /\ At(after, new) = At(h, new) \cup {n}
      /\ AtCampus(after, new) = AtCampus(h, new) \cup {n}
      /\ \A c : c.institution # new.institution => At(after, c) = At(h, c)
      /\ \A c : c.institution # new.institution \/ c.campus # new.campus
                  => AtCampus(after, c) = AtCampus(h, c)
  BY OneMoreChoice
<1>3. /\ Cardinality(At(after, new)) = Cardinality(At(h, new)) + 1
      /\ Cardinality(AtCampus(after, new)) = Cardinality(AtCampus(h, new)) + 1
  <2>1. n \notin At(h, new) /\ n \notin AtCampus(h, new)
    BY <1>2 DEF At, AtCampus
  <2> HIDE DEF after, n
  <2> QED  BY <1>2, <2>1, CountedChoices, FS_AddElement
<1> HIDE DEF after, n
<1>4. ASSUME NEW i \in DOMAIN after
      PROVE  /\ policy.total # Unlimited => Cardinality(At(after, after[i])) <= policy.total
             /\ policy.campus # Unlimited => Cardinality(AtCampus(after, after[i])) <= policy.campus
  <2>1. policy.total # Unlimited => Cardinality(At(after, after[i])) <= policy.total
    <3>1. CASE after[i].institution = new.institution
      <4>1. At(after, after[i]) = At(after, new)
        BY <3>1 DEF At
      <4> QED  BY <4>1, <1>1, <1>3, CountedChoices
    <3>2. CASE after[i].institution # new.institution
      BY <3>2, <1>2 DEF Limited
    <3> QED  BY <3>1, <3>2
  <2>2. policy.campus # Unlimited => Cardinality(AtCampus(after, after[i])) <= policy.campus
    <3>1. CASE after[i].institution = new.institution /\ after[i].campus = new.campus
      <4>1. AtCampus(after, after[i]) = AtCampus(after, new)
        BY <3>1 DEF At, AtCampus
      <4> QED  BY <4>1, <1>1, <1>3, CountedChoices
    <3>2. CASE ~(after[i].institution = new.institution /\ after[i].campus = new.campus)
      BY <3>2, <1>2 DEF Limited
    <3> QED  BY <3>1, <3>2
  <2> QED  BY <2>1, <2>2
<1>5. ASSUME NEW i \in DOMAIN after, NEW j \in At(after, after[i]) \ {i}
      PROVE  {after[i].track, after[j].track} \notin policy.forbidden
  <2>0. j \in DOMAIN after /\ after[j].institution = after[i].institution
    BY DEF At
  <2>1. \A k \in At(h, new) : {h[k].track, new.track} \notin policy.forbidden
    BY <1>1
  <2>2. CASE i = n
    <3>1. j \in DOMAIN h /\ j \in At(h, new) /\ after[j] = h[j]
      BY <2>0, <2>2, <1>2 DEF At
    <3>2. {after[i].track, after[j].track} = {h[j].track, new.track}
      BY <2>2, <3>1, <1>2
    <3> QED  BY <3>1, <3>2, <2>1
  <2>3. CASE j = n
    <3>1. i \in At(h, new) /\ after[i] = h[i]
      BY <2>0, <2>3, <1>2 DEF At
    <3> QED  BY <2>3, <3>1, <2>1, <1>2
  <2>4. CASE i # n /\ j # n
    <3>1. i \in DOMAIN h /\ j \in At(h, h[i]) \ {i} /\ after[i] = h[i] /\ after[j] = h[j]
      BY <2>0, <2>4, <1>2 DEF At
    <3> QED  BY <3>1 DEF Limited
  <2> QED  BY <2>2, <2>3, <2>4
<1> QED  BY <1>4, <1>5 DEF Limited, after

(* The tasks of the evaluations, and what a calculated score is made from. *)
TaskInv ==
    /\ task.kind \in {"SCORE", "ELIGIBILITY", "TABLE"} => task \in Tasks
    /\ task.kind = "TABLE" /\ result.done => result.rows = ParsedTable(task.rows)
    /\ task.kind = "ELIGIBILITY" /\ result.done => result.decision = Decide(task.rule, task.facts)
    /\ task.kind = "SCORE" =>
         /\ result.done => result.selection = Selection(task) /\ result.grade = Grade(task)
    /\ task.kind = "APPLICATION" =>
         /\ task = [f \in DOMAIN task |-> task[f]]
         /\ {"kind", "policy", "choices", "history"} \subseteq DOMAIN task
         /\ task.policy.total \in Nat /\ task.policy.campus \in Nat
         /\ task.history \in Seq(task.choices)
         /\ Limited(task.policy, task.history)

LEMMA TaskStarts == Init => TaskInv
<1> SUFFICES ASSUME Init PROVE TaskInv
  OBVIOUS
<1>1. task \in Tasks /\ ~result.done
  BY DEF Init, Pending
<1>2. ASSUME task.kind = "APPLICATION"
      PROVE  /\ IsRecord(task, {"kind", "policy", "choices", "history"})
             /\ task.history = <<>>
             /\ task.policy.total \in Nat /\ task.policy.campus \in Nat
  BY <1>1, <1>2, TasksAssumption
<1>3. task.kind = "APPLICATION" => Limited(task.policy, task.history)
  BY <1>2 DEF Limited
<1>4. task.kind = "APPLICATION" => task.history \in Seq(task.choices)
  <2>1. \A S : <<>> \in Seq(S)
    OBVIOUS
  <2> QED  BY <1>2, <2>1
<1> QED  BY <1>1, <1>2, <1>3, <1>4 DEF TaskInv, IsRecord

LEMMA TaskStep ==
    ASSUME TaskInv, [Next]_vars
    PROVE  TaskInv'
<1>1. CASE CalculateScore
  BY <1>1 DEF CalculateScore, TaskInv
<1>2. CASE EvaluateApplication
  <2>1. PICK candidate \in task.choices, complete \in BOOLEAN :
          LET status == Apply(task.policy, candidate, task.history, complete)
          IN  /\ result' = [done |-> TRUE, status |-> status]
              /\ task' = IF status = "ALLOWED"
                         THEN [task EXCEPT !.history = Append(task.history, candidate)]
                         ELSE task
    BY <1>2 DEF EvaluateApplication
  <2>2. task.kind = "APPLICATION" /\ TaskInv
    BY <1>2 DEF EvaluateApplication
  <2>3. CASE Apply(task.policy, candidate, task.history, complete) = "ALLOWED"
    <3>1. task' = [task EXCEPT !.history = Append(task.history, candidate)]
      BY <2>1, <2>3
    <3>2. /\ task'.kind = "APPLICATION" /\ task'.policy = task.policy
          /\ task'.choices = task.choices /\ DOMAIN task' = DOMAIN task
          /\ task' = [f \in DOMAIN task' |-> task'[f]]
          /\ task'.history = Append(task.history, candidate)
      BY <2>2, <3>1 DEF TaskInv
    <3>3. Limited(task.policy, Append(task.history, candidate))
      BY <2>2, <2>3, AllowedKeepsLimits DEF TaskInv
    <3>4. Append(task.history, candidate) \in Seq(task.choices)
      BY <2>2 DEF TaskInv
    <3> QED  BY <2>2, <3>2, <3>3, <3>4 DEF TaskInv
  <2>4. CASE Apply(task.policy, candidate, task.history, complete) # "ALLOWED"
    <3>1. task' = task
      BY <2>1, <2>4
    <3> QED  BY <2>2, <3>1 DEF TaskInv
  <2> QED  BY <2>3, <2>4
<1>5. CASE EvaluateEligibility
  BY <1>5 DEF EvaluateEligibility, TaskInv
<1>6. CASE ParseTable
  BY <1>6 DEF ParseTable, TaskInv
<1>3. CASE EvaluateDisqualification \/ ParseDrafts \/ ConvertLevels
  <2>1. task' = task /\ task.kind \notin {"SCORE", "ELIGIBILITY", "TABLE", "APPLICATION"}
    BY <1>3 DEF EvaluateDisqualification, ParseDrafts, ConvertLevels
  <2> QED  BY <2>1 DEF TaskInv
<1>4. CASE UNCHANGED vars
  BY <1>4 DEF vars, TaskInv
<1> QED  BY <1>1, <1>2, <1>3, <1>4, <1>5, <1>6 DEF Next

(* The tasks and what their results are made from: the invariant of the    *)
(* theorems below.                                                         *)
THEOREM TasksSound == SpecBatch => []TaskInv
<1>1. InitBatch => TaskInv
  BY TaskStarts DEF InitBatch
<1>2. ASSUME TaskInv, [NextBatch \/ NextEvaluation]_allVars
      PROVE  TaskInv'
  <2>1. [Next]_vars
    BY <1>2 DEF NextBatch, NextEvaluation, allVars, vars
  <2> QED  BY <1>2, <2>1, TaskStep
<1> QED  BY <1>1, <1>2, PTL DEF SpecBatch

(* However often a student asks and in whatever order, the applications    *)
(* that evaluate_multiple_application allowed stay within every limit of   *)
(* the policy and hold no forbidden pair.                                  *)
THEOREM ApplicationsLimited == SpecBatch => []WithinLimits
<1>1. TaskInv => WithinLimits
  BY DEF TaskInv, WithinLimits, Limited, At, AtCampus
<1> QED  BY <1>1, TasksSound, PTL

-----------------------------------------------------------------------------
(* What is not verified, or left out by the scope, is not read: the inputs *)
(* that select_score_inputs makes of the cleaned records are the same.     *)
Cleaned(t) == [t EXCEPT !.records = Clean(t)]

LEMMA CleanInputs ==
    ASSUME NEW t, t \in Tasks, t.kind = "SCORE"
    PROVE  SelectInputs(Clean(t), t.policy) = SelectInputs(t.records, t.policy)
<1> DEFINE Stripped(r) == [r EXCEPT !.courses = VerifiedCourses(r)]
           Kept(S) == {r \in S : InScope(r, t.policy) /\ VerifiedCourses(r) # {}}
           Counts(r) == /\ r.verified
                        /\ t.policy = "EXCLUDE_VOCATIONAL_SEMESTER" => ~r.training
<1>1. \A r \in t.records : /\ IsRecord(r, {"verified", "source", "training", "courses"})
                           /\ r.verified \in BOOLEAN /\ r.training \in BOOLEAN
                           /\ \A c \in r.courses : c.verified \in BOOLEAN
  BY TasksAssumption DEF IsHistory, IsStored, IsCourse, IsRecord
<1>2. Clean(t) = {Stripped(r) : r \in {x \in t.records : Counts(x)}}
  BY DEF Clean, VerifiedCourses
<1>3. \A r \in t.records :
        /\ Stripped(r).verified = r.verified /\ Stripped(r).source = r.source
        /\ Stripped(r).training = r.training
        /\ Stripped(r).courses = VerifiedCourses(r)
        /\ DOMAIN Stripped(r) = DOMAIN r
  BY <1>1 DEF IsRecord
<1>4. \A r \in t.records : VerifiedCourses(Stripped(r)) = VerifiedCourses(r)
  BY <1>3 DEF VerifiedCourses
<1>5. \A r \in t.records : Stripped(Stripped(r)) = Stripped(r)
  BY <1>3, <1>4
<1>6. \A r \in t.records : InScope(Stripped(r), t.policy) = InScope(r, t.policy)
  BY <1>3 DEF InScope
<1>7. \A r \in t.records : InScope(r, t.policy) => Counts(r)
  BY DEF InScope
<1> HIDE DEF Stripped, Counts
<1>8. {Stripped(r) : r \in Kept(Clean(t))} = {Stripped(r) : r \in Kept(t.records)}
  <2>1. ASSUME NEW r \in Kept(t.records)
        PROVE  Stripped(r) \in {Stripped(x) : x \in Kept(Clean(t))}
    <3>1. Stripped(r) \in Clean(t) /\ r \in t.records
      BY <1>2, <1>7
    <3>2. Stripped(r) \in Kept(Clean(t))
      BY <3>1, <1>4, <1>6
    <3> QED  BY <3>1, <3>2, <1>5
  <2>2. ASSUME NEW x \in Kept(Clean(t))
        PROVE  Stripped(x) \in {Stripped(r) : r \in Kept(t.records)}
    <3>1. PICK r \in t.records : x = Stripped(r)
      BY <1>2
    <3>2. r \in Kept(t.records)
      BY <3>1, <1>4, <1>6
    <3> QED  BY <3>1, <3>2, <1>5
  <2> QED  BY <2>1, <2>2
<1>9. \A S : SelectInputs(S, t.policy) =
               LET read == {Stripped(r) : r \in Kept(S)}
               IN  IF t.policy \in {"TRACK_DEPENDENT", "MANUAL_REVIEW"}
                   THEN [status |-> "NEEDS_REVIEW", records |-> {}]
                   ELSE [status |-> IF read = {} THEN "INSUFFICIENT_DATA" ELSE "READY",
                         records |-> read]
  BY DEF SelectInputs, Stripped
<1> QED  BY <1>8, <1>9

LEMMA CleanSelection ==
    ASSUME NEW t, t \in Tasks, t.kind = "SCORE"
    PROVE  Selection(Cleaned(t)) = Selection(t) /\ Grade(Cleaned(t)) = Grade(t)
<1>1. IsRecord(t, {"d", "policy", "records", "table"})
  BY TasksAssumption
<1>2. /\ Cleaned(t).records = Clean(t) /\ Cleaned(t).policy = t.policy
      /\ Cleaned(t).d = t.d /\ Cleaned(t).table = t.table
  BY <1>1 DEF Cleaned, IsRecord
<1>3. SelectInputs(Cleaned(t).records, Cleaned(t).policy) = SelectInputs(t.records, t.policy)
  BY <1>2, CleanInputs
<1>4. Selection(Cleaned(t)) = Selection(t)
  BY <1>2, <1>3 DEF Selection
<1> QED  BY <1>2, <1>4 DEF Grade

(* No result rests on what nobody has verified, or on what the scope       *)
(* leaves out, whatever the rule makes of the rest.                        *)
THEOREM UnverifiedIgnored == SpecBatch => []OnlyVerifiedCounts
<1>1. TaskInv => OnlyVerifiedCounts
  BY CleanSelection DEF TaskInv, OnlyVerifiedCounts, Scored, Cleaned
<1> QED  BY <1>1, TasksSound, PTL

-----------------------------------------------------------------------------
(* Conditions.  The least number argument stands in for induction: a       *)
(* condition has finitely many nodes, and every part comes before its      *)
(* whole.                                                                  *)
LEMMA LeastNumber ==
    ASSUME NEW S \in SUBSET Nat, S # {}
    PROVE  \E k \in S : \A j \in S : k <= j
<1> DEFINE R == OpToRel(<, Nat)
<1>1. IsWellFoundedOn(R, Nat)
  BY NatLessThanWellFounded
<1>2. \A x, y \in Nat : y < x => <<y, x>> \in R
  BY DEF OpToRel
<1> HIDE DEF R
<1>3. PICK k \in S : \A y \in S : <<y, k>> \notin R
  BY <1>1, WFMin
<1>4. ASSUME NEW j \in S PROVE k <= j
  <2>1. j \in Nat /\ k \in Nat
    OBVIOUS
  <2>2. ~(j < k)
    BY <1>2, <1>3, <2>1
  <2> QED  BY <2>1, <2>2
<1> QED  BY <1>4

(* What is made at every node of what was made at its parts exists.        *)
PartsFirst(parts, n) == \A i \in 1..n : parts[i] \subseteq 1..(i - 1)
MakesOf(G, n, V) == \A i \in 1..n, S \in SUBSET V : G[<<i, S>>] \in V
MadeBy(f, G, parts, n) == \A i \in 1..n : f[i] = G[<<i, {f[j] : j \in parts[i]}>>]

LEMMA NodeRecursion ==
    ASSUME NEW n \in Nat, NEW parts, PartsFirst(parts, n), NEW V, NEW G, MakesOf(G, n, V)
    PROVE  \E f \in [1..n -> V] : MadeBy(f, G, parts, n)
<1> USE DEF PartsFirst, MakesOf, MadeBy
<1> DEFINE Solves(f, m) == /\ f \in [1..m -> V]
                           /\ MadeBy(f, G, parts, m)
           Bad == {m \in 0..n : ~ \E f : Solves(f, m)}
<1>1. Bad = {}
  <2> SUFFICES ASSUME Bad # {} PROVE FALSE
    OBVIOUS
  <2>1. PICK k \in Bad : \A j \in Bad : k <= j
    <3>1. Bad \in SUBSET Nat
      OBVIOUS
    <3> QED  BY <3>1, LeastNumber
  <2>2. k \in 0..n /\ ~ \E f : Solves(f, k)
    OBVIOUS
  <2>3. k # 0
    <3>1. Solves([i \in 1..0 |-> 0], 0)
      OBVIOUS
    <3> QED  BY <3>1, <2>2
  <2>4. PICK f : Solves(f, k - 1)
    <3>1. k - 1 \in 0..n /\ ~(k <= k - 1)
      BY <2>2, <2>3
    <3>2. k - 1 \notin Bad
      <4> HIDE DEF Bad
      <4> QED  BY <2>1, <3>1
    <3>3. \E f : Solves(f, k - 1)
      <4> HIDE DEF Solves
      <4> QED  BY <3>1, <3>2
    <3> QED  BY <3>3
  <2> DEFINE last == G[<<k, {f[j] : j \in parts[k]}>>]
             g == [i \in 1..k |-> IF i = k THEN last ELSE f[i]]
  <2>5. ASSUME NEW i \in 1..k
        PROVE  g[i] = G[<<i, {g[j] : j \in parts[i]}>>] /\ g[i] \in V
    <3>1. parts[i] \subseteq 1..(i - 1) /\ i \in 1..n /\ k \in Nat
      BY <2>2
    <3>2. \A j \in parts[i] : g[j] = f[j] /\ f[j] \in V
      BY <3>1, <2>4
    <3>3. {g[j] : j \in parts[i]} = {f[j] : j \in parts[i]} /\ {f[j] : j \in parts[i]} \in SUBSET V
      BY <3>2
    <3>4. CASE i = k
      BY <3>1, <3>3, <3>4
    <3>5. CASE i # k
      <4>1. i \in 1..(k - 1) /\ g[i] = f[i]
        BY <3>1, <3>5
      <4>2. f[i] = G[<<i, {f[j] : j \in parts[i]}>>] /\ f[i] \in V
        BY <2>4, <4>1
      <4> QED  BY <4>1, <4>2, <3>3
    <3> QED  BY <3>4, <3>5
  <2>6. Solves(g, k)
    BY <2>5
  <2> QED  BY <2>2, <2>6
<1>2. \E f : Solves(f, n)
  <2>1. n \in 0..n
    OBVIOUS
  <2> HIDE DEF Solves
  <2> QED  BY <1>1, <2>1
<1> QED  BY <1>2

(* Every node has an outcome, made from those of its parts.                *)
LEMMA NodeOutcomeType ==
    ASSUME NEW node, NEW of, NEW facts, node.op \in {"leaf", "all", "any", "not"}
    PROVE  NodeOutcome(node, of, facts) \in Outcomes
<1>1. Compared(node, facts) \in Outcomes
  BY DEF Compared, Outcomes
<1>2. Negated(CHOOSE o \in of : TRUE) \in Outcomes
  BY DEF Negated, Outcomes
<1> QED  BY <1>1, <1>2 DEF NodeOutcome, Outcomes

LEMMA OutcomesDefined ==
    ASSUME NEW c, NEW names, NEW facts, ValidCondition(c, names)
    PROVE  /\ NodeOutcomes(c, facts) \in [1..Len(c) -> Outcomes]
           /\ \A i \in 1..Len(c) :
                NodeOutcomes(c, facts)[i] =
                  NodeOutcome(c[i], {NodeOutcomes(c, facts)[j] : j \in Parts(c[i])}, facts)
<1> DEFINE n == Len(c)
           parts == [i \in 1..n |-> Parts(c[i])]
           G == [x \in (1..n) \X SUBSET Outcomes |-> NodeOutcome(c[x[1]], x[2], facts)]
           Fits(o) == o = [i \in DOMAIN c |-> NodeOutcome(c[i], {o[j] : j \in Parts(c[i])}, facts)]
<1>1. /\ n \in Nat /\ DOMAIN c = 1..n
      /\ \A i \in 1..n : /\ Parts(c[i]) \subseteq 1..(i - 1)
                         /\ c[i].op \in {"leaf", "all", "any", "not"}
  BY DEF ValidCondition
<1>2. \A i \in 1..n, S \in SUBSET Outcomes :
        G[<<i, S>>] = NodeOutcome(c[i], S, facts) /\ G[<<i, S>>] \in Outcomes
  BY <1>1, NodeOutcomeType
<1>3. \A i \in 1..n : parts[i] = Parts(c[i]) /\ parts[i] \subseteq 1..(i - 1)
  BY <1>1
<1>4. \E f \in [1..n -> Outcomes] : MadeBy(f, G, parts, n)
  <2> HIDE DEF G, parts, n
  <2>1. n \in Nat /\ PartsFirst(parts, n) /\ MakesOf(G, n, Outcomes)
    BY <1>1, <1>2, <1>3 DEF PartsFirst, MakesOf
  <2> QED  BY <2>1, NodeRecursion
<1>5. PICK f \in [1..n -> Outcomes] : MadeBy(f, G, parts, n)
  BY <1>4
<1>6. Fits(f)
  <2>1. ASSUME NEW i \in 1..n
        PROVE  f[i] = NodeOutcome(c[i], {f[j] : j \in Parts(c[i])}, facts)
    <3>1. {f[j] : j \in Parts(c[i])} \in SUBSET Outcomes
      BY <1>1, <1>5
    <3> HIDE DEF G, parts, n
    <3>2. f[i] = G[<<i, {f[j] : j \in parts[i]}>>]
      BY <1>5 DEF MadeBy
    <3> QED  BY <3>1, <3>2, <1>2, <1>3
  <2> QED  BY <2>1, <1>1
<1>7. NodeOutcomes(c, facts) = CHOOSE o : Fits(o)
  BY DEF NodeOutcomes
<1>8. Fits(NodeOutcomes(c, facts))
  <2> HIDE DEF Fits
  <2> QED  BY <1>6, <1>7
<1> DEFINE o == NodeOutcomes(c, facts)
<1>9. o = [i \in 1..n |-> NodeOutcome(c[i], {o[j] : j \in Parts(c[i])}, facts)]
  BY <1>1, <1>8
<1> HIDE DEF o, n
<1>10. \A i \in 1..n : o[i] = NodeOutcome(c[i], {o[j] : j \in Parts(c[i])}, facts)
  BY <1>9
<1>11. o \in [1..n -> Outcomes]
  BY <1>1, <1>9, NodeOutcomeType
<1> QED  BY <1>10, <1>11 DEF o, n

Single(of) == \E x : of = {x}

(* An undecided node is one of a comparison without its fact, or has an    *)
(* undecided part.                                                         *)
LEMMA UndecidedPart ==
    ASSUME NEW node, NEW of \in SUBSET Outcomes, NEW facts,
           node.op \in {"leaf", "all", "any", "not"},
           node.op = "not" => Single(of),
           NodeOutcome(node, of, facts) = "UNKNOWN"
    PROVE  node.op = "leaf" \/ "UNKNOWN" \in of
<1>1. CASE node.op = "not"
  <2>1. PICK o : of = {o}
    BY <1>1 DEF Single
  <2>2. Negated(o) = "UNKNOWN" /\ o \in Outcomes
    <3>1. (CHOOSE x \in of : TRUE) = o
      BY <2>1
    <3> QED  BY <1>1, <2>1, <3>1 DEF NodeOutcome
  <2> QED  BY <2>1, <2>2 DEF Negated, Outcomes
<1>2. CASE node.op \in {"all", "any"}
  BY <1>2 DEF NodeOutcome
<1> QED  BY <1>1, <1>2

(* A condition waits for facts exactly when it is undecided.               *)
LEMMA UndecidedMisses ==
    ASSUME NEW c, NEW names, NEW facts, ValidCondition(c, names)
    PROVE  Outcome(c, facts) = "UNKNOWN" <=> MissingFacts(c, facts) # {}
<1> DEFINE n == Len(c)
           o == NodeOutcomes(c, facts)
           V == SUBSET names
           parts == [i \in 1..n |-> Parts(c[i])]
           G == [x \in (1..n) \X SUBSET V |-> NodeMissing(c[x[1]], o[x[1]], x[2])]
           Fits(m) == m = [i \in DOMAIN c |-> NodeMissing(c[i], o[i], {m[j] : j \in Parts(c[i])})]
<1>1. /\ n \in Nat \ {0} /\ DOMAIN c = 1..n
      /\ \A i \in 1..n : /\ Parts(c[i]) \subseteq 1..(i - 1)
                         /\ c[i].op \in {"leaf", "all", "any", "not"}
                         /\ c[i].op = "leaf" => c[i].fact \in names
                         /\ c[i].op = "not" => \E j \in 1..(i - 1) : Parts(c[i]) = {j}
  BY DEF ValidCondition
<1>2. \A i \in 1..n, S \in SUBSET V :
        G[<<i, S>>] = NodeMissing(c[i], o[i], S) /\ G[<<i, S>>] \in V
  <2>1. ASSUME NEW i \in 1..n, NEW S \in SUBSET V
        PROVE  NodeMissing(c[i], o[i], S) \in V
    <3> HIDE DEF o
    <3> QED  BY <1>1 DEF NodeMissing
  <2> HIDE DEF o, V
  <2> QED  BY <2>1
<1>3. \A i \in 1..n : parts[i] = Parts(c[i]) /\ parts[i] \subseteq 1..(i - 1)
  BY <1>1
<1>4. \E m \in [1..n -> V] : MadeBy(m, G, parts, n)
  <2> HIDE DEF G, parts, n, V
  <2>1. n \in Nat /\ PartsFirst(parts, n) /\ MakesOf(G, n, V)
    BY <1>1, <1>2, <1>3 DEF PartsFirst, MakesOf
  <2> QED  BY <2>1, NodeRecursion
<1>5. PICK f \in [1..n -> V] : MadeBy(f, G, parts, n)
  BY <1>4
<1>6. Fits(f)
  <2>1. ASSUME NEW i \in 1..n
        PROVE  f[i] = NodeMissing(c[i], o[i], {f[j] : j \in Parts(c[i])})
    <3>1. {f[j] : j \in Parts(c[i])} \in SUBSET V
      <4> HIDE DEF V, o
      <4> QED  BY <1>1, <1>5
    <3> HIDE DEF G, parts, n, V, o
    <3>2. f[i] = G[<<i, {f[j] : j \in parts[i]}>>]
      BY <1>5 DEF MadeBy
    <3> QED  BY <3>1, <3>2, <1>2, <1>3
  <2> HIDE DEF V, o
  <2> QED  BY <2>1, <1>1, <1>5
<1> DEFINE m == CHOOSE x : Fits(x)
<1>7. MissingFacts(c, facts) = m[n]
  BY DEF MissingFacts
<1>8. Fits(m)
  <2> HIDE DEF Fits
  <2> QED  BY <1>6
<1> HIDE DEF m
<1>9. \A i \in 1..n : m[i] = NodeMissing(c[i], o[i], {m[j] : j \in Parts(c[i])})
  <2>1. m = [i \in 1..n |-> NodeMissing(c[i], o[i], {m[j] : j \in Parts(c[i])})]
    BY <1>1, <1>8
  <2> HIDE DEF o, n
  <2> QED  BY <2>1
<1>10. \A i \in 1..n : /\ o[i] \in Outcomes
                       /\ o[i] = NodeOutcome(c[i], {o[j] : j \in Parts(c[i])}, facts)
  BY OutcomesDefined
<1> DEFINE Bad == {i \in 1..n : o[i] = "UNKNOWN" /\ m[i] = {}}
<1>11. Bad = {}
  <2> HIDE DEF o, n
  <2> SUFFICES ASSUME Bad # {} PROVE FALSE
    OBVIOUS
  <2>1. PICK k \in Bad : \A j \in Bad : k <= j
    <3>1. Bad \in SUBSET Nat
      BY <1>1
    <3> QED  BY <3>1, LeastNumber
  <2>2. k \in 1..n /\ o[k] = "UNKNOWN" /\ m[k] = {}
    OBVIOUS
  <2>3. c[k].op # "leaf"
    BY <1>9, <2>2 DEF NodeMissing
  <2>4. /\ Parts(c[k]) \subseteq 1..n /\ \A j \in Parts(c[k]) : ~(k <= j)
        /\ {o[j] : j \in Parts(c[k])} \in SUBSET Outcomes
    <3>1. Parts(c[k]) \subseteq 1..(k - 1)
      BY <1>1, <2>2
    <3>2. Parts(c[k]) \subseteq 1..n /\ \A j \in Parts(c[k]) : ~(k <= j)
      BY <1>1, <2>2, <3>1
    <3> QED  BY <1>10, <3>2
  <2>5. PICK j \in Parts(c[k]) : o[j] = "UNKNOWN"
    <3>1. c[k].op = "not" => Single({o[j] : j \in Parts(c[k])})
      <4> SUFFICES ASSUME c[k].op = "not" PROVE Single({o[j] : j \in Parts(c[k])})
        OBVIOUS
      <4>1. PICK y : Parts(c[k]) = {y}
        BY <1>1, <2>2
      <4>2. {o[j] : j \in Parts(c[k])} = {o[y]}
        BY <4>1
      <4> QED  BY <4>2 DEF Single
    <3>2. "UNKNOWN" \in {o[j] : j \in Parts(c[k])}
      <4>1. NodeOutcome(c[k], {o[j] : j \in Parts(c[k])}, facts) = "UNKNOWN"
        BY <1>10, <2>2
      <4>2. c[k].op \in {"leaf", "all", "any", "not"}
        BY <1>1, <2>2
      <4> DEFINE of == {o[j] : j \in Parts(c[k])}
      <4>3. /\ of \in SUBSET Outcomes /\ NodeOutcome(c[k], of, facts) = "UNKNOWN"
            /\ c[k].op = "not" => Single(of)
        BY <2>4, <3>1, <4>1
      <4>4. "UNKNOWN" \in of
        <5> HIDE DEF of
        <5> QED  BY <2>3, <4>2, <4>3, UndecidedPart
      <4> QED  BY <4>4
    <3> QED  BY <3>2
  <2>6. j \in 1..n /\ ~(k <= j)
    BY <2>4, <2>5
  <2>7. m[j] # {}
    <3>1. j \notin Bad
      <4> HIDE DEF Bad
      <4> QED  BY <2>1, <2>6
    <3> QED  BY <2>5, <2>6, <3>1
  <2>8. m[k] = UNION {m[x] : x \in Parts(c[k])}
    BY <1>9, <2>2, <2>3 DEF NodeMissing
  <2> QED  BY <2>2, <2>5, <2>7, <2>8
<1>12. n \in 1..n
  BY <1>1
<1>13. o[n] = "UNKNOWN" <=> m[n] # {}
  <2> HIDE DEF o, n
  <2>1. m[n] = NodeMissing(c[n], o[n], {m[j] : j \in Parts(c[n])})
    BY <1>9, <1>12
  <2> QED  BY <2>1, <1>11, <1>12 DEF NodeMissing
<1>14. Outcome(c, facts) = o[n]
  BY DEF Outcome
<1> HIDE DEF o, n
<1> QED  BY <1>7, <1>13, <1>14

-----------------------------------------------------------------------------
(* Stating a missing fact decides more and revises nothing.                *)
Firmer(of, then) ==
    /\ \A v \in of : v # "UNKNOWN" => v \in then
    /\ "UNKNOWN" \notin of => then = of

LEMMA FirmerNode ==
    ASSUME NEW node, NEW of \in SUBSET Outcomes, NEW then \in SUBSET Outcomes,
           NEW facts, NEW full,
           node.op \in {"leaf", "all", "any", "not"},
           node.op = "leaf" => (facts[node.fact] # Missing => full[node.fact] = facts[node.fact]),
           node.op = "not" => Single(of),
           Firmer(of, then),
           NodeOutcome(node, of, facts) # "UNKNOWN"
    PROVE  NodeOutcome(node, then, full) = NodeOutcome(node, of, facts)
<1>1. CASE node.op = "leaf"
  <2>1. /\ NodeOutcome(node, of, facts) = Compared(node, facts)
        /\ NodeOutcome(node, then, full) = Compared(node, full)
    BY <1>1 DEF NodeOutcome
  <2>2. facts[node.fact] # Missing
    BY <2>1 DEF Compared
  <2>3. full[node.fact] = facts[node.fact]
    BY <1>1, <2>2
  <2> QED  BY <2>1, <2>3 DEF Compared
<1>2. CASE node.op = "not"
  <2>1. PICK o : of = {o}
    BY <1>2 DEF Single
  <2>2. (CHOOSE x \in of : TRUE) = o
    BY <2>1
  <2>3. o # "UNKNOWN"
    BY <1>2, <2>2 DEF NodeOutcome, Negated
  <2>4. then = of
    BY <2>1, <2>3 DEF Firmer
  <2> QED  BY <1>2, <2>4 DEF NodeOutcome
<1>3. CASE node.op = "all"
  BY <1>3 DEF NodeOutcome, Firmer, Outcomes
<1>4. CASE node.op = "any"
  BY <1>4 DEF NodeOutcome, Firmer, Outcomes
<1> QED  BY <1>1, <1>2, <1>3, <1>4

LEMMA DecidedStays ==
    ASSUME NEW c, NEW names, NEW facts, NEW full, ValidCondition(c, names),
           \A n \in names : facts[n] # Missing => full[n] = facts[n],
           Outcome(c, facts) # "UNKNOWN"
    PROVE  Outcome(c, full) = Outcome(c, facts)
<1> DEFINE n == Len(c)
           a == NodeOutcomes(c, facts)
           b == NodeOutcomes(c, full)
           Bad == {i \in 1..n : a[i] # "UNKNOWN" /\ b[i] # a[i]}
<1>1. /\ n \in Nat \ {0}
      /\ \A i \in 1..n : /\ Parts(c[i]) \subseteq 1..(i - 1)
                         /\ c[i].op \in {"leaf", "all", "any", "not"}
                         /\ c[i].op = "leaf" => c[i].fact \in names
                         /\ c[i].op = "not" => \E j \in 1..(i - 1) : Parts(c[i]) = {j}
  BY DEF ValidCondition
<1>2. \A i \in 1..n : /\ a[i] \in Outcomes /\ b[i] \in Outcomes
                      /\ a[i] = NodeOutcome(c[i], {a[j] : j \in Parts(c[i])}, facts)
                      /\ b[i] = NodeOutcome(c[i], {b[j] : j \in Parts(c[i])}, full)
  BY OutcomesDefined
<1>3. Outcome(c, facts) = a[n] /\ Outcome(c, full) = b[n] /\ n \in 1..n
  BY <1>1 DEF Outcome
<1> HIDE DEF n, a, b
<1>4. Bad = {}
  <2> SUFFICES ASSUME Bad # {} PROVE FALSE
    OBVIOUS
  <2>1. PICK k \in Bad : \A j \in Bad : k <= j
    <3>1. Bad \in SUBSET Nat
      BY <1>1
    <3> QED  BY <3>1, LeastNumber
  <2>2. k \in 1..n /\ a[k] # "UNKNOWN" /\ b[k] # a[k]
    OBVIOUS
  <2> DEFINE of == {a[j] : j \in Parts(c[k])}
             then == {b[j] : j \in Parts(c[k])}
  <2>3. Parts(c[k]) \subseteq 1..n /\ \A j \in Parts(c[k]) : ~(k <= j)
    <3>1. Parts(c[k]) \subseteq 1..(k - 1)
      BY <1>1, <2>2
    <3> QED  BY <1>1, <2>2, <3>1
  <2>4. \A j \in Parts(c[k]) : a[j] # "UNKNOWN" => b[j] = a[j]
    <3>1. \A j \in Parts(c[k]) : j \in 1..n /\ j \notin Bad
      <4> HIDE DEF Bad
      <4> QED  BY <2>1, <2>3
    <3> QED  BY <3>1
  <2>5. of \in SUBSET Outcomes /\ then \in SUBSET Outcomes
    BY <1>2, <2>3
  <2>6. Firmer(of, then)
    <3>1. \A v \in of : v # "UNKNOWN" => v \in then
      BY <2>4
    <3>2. ASSUME "UNKNOWN" \notin of PROVE then = of
      <4>1. \A j \in Parts(c[k]) : b[j] = a[j]
        BY <2>4, <3>2
      <4> QED  BY <4>1
    <3> QED  BY <3>1, <3>2 DEF Firmer
  <2>7. ASSUME c[k].op = "not" PROVE Single(of)
    <3>1. PICK y : Parts(c[k]) = {y}
      BY <1>1, <2>2, <2>7
    <3>2. of = {a[y]}
      BY <3>1
    <3> QED  BY <3>2 DEF Single
  <2>8. /\ c[k].op \in {"leaf", "all", "any", "not"}
        /\ c[k].op = "leaf" => (facts[c[k].fact] # Missing => full[c[k].fact] = facts[c[k].fact])
        /\ NodeOutcome(c[k], of, facts) = a[k] /\ NodeOutcome(c[k], then, full) = b[k]
    BY <1>1, <1>2, <2>2
  <2> HIDE DEF of, then
  <2> QED  BY <2>2, <2>5, <2>6, <2>7, <2>8, FirmerNode
<1> QED  BY <1>3, <1>4

(* The three ways a rule decides: the first case that matches, a fact it   *)
(* waits for, or the default.                                              *)
RuleOf(rule, names) ==
    /\ Len(rule.cases) \in Nat /\ DOMAIN rule.cases = 1..Len(rule.cases)
    /\ \A i \in DOMAIN rule.cases : ValidCondition(rule.cases[i].when, names)
OutcomeOf(rule, i, facts) == Outcome(rule.cases[i].when, facts)
DecidedBy(rule, facts, k) ==
    /\ k \in DOMAIN rule.cases /\ OutcomeOf(rule, k, facts) = "MATCH"
    /\ \A i \in DOMAIN rule.cases : i < k => OutcomeOf(rule, i, facts) # "MATCH"
    /\ Decide(rule, facts) = [status |-> rule.cases[k].status, case |-> k, missing |-> {}]
Undecided(rule, facts) ==
    /\ \A i \in DOMAIN rule.cases : OutcomeOf(rule, i, facts) # "MATCH"
    /\ \E i \in DOMAIN rule.cases : OutcomeOf(rule, i, facts) = "UNKNOWN"
    /\ Decide(rule, facts).status = "INSUFFICIENT_DATA"
Defaulted(rule, facts) ==
    /\ \A i \in DOMAIN rule.cases : OutcomeOf(rule, i, facts) = "NO_MATCH"
    /\ Decide(rule, facts) = [status |-> rule.default, case |-> 0, missing |-> {}]

LEMMA WaysToDecide ==
    ASSUME NEW rule, NEW names, NEW facts, RuleOf(rule, names)
    PROVE  \/ \E k \in DOMAIN rule.cases : DecidedBy(rule, facts, k)
           \/ Undecided(rule, facts)
           \/ Defaulted(rule, facts)
<1> DEFINE cases == DOMAIN rule.cases
           matched == {i \in cases : OutcomeOf(rule, i, facts) = "MATCH"}
           missing == UNION {MissingFacts(rule.cases[i].when, facts) : i \in cases}
           first == CHOOSE i \in matched : \A j \in matched : i <= j
<1>1. cases \subseteq Nat
  BY DEF RuleOf
<1>2. Decide(rule, facts) =
        IF matched # {}
        THEN [status |-> rule.cases[first].status, case |-> first, missing |-> {}]
        ELSE IF missing # {}
        THEN [status |-> "INSUFFICIENT_DATA", case |-> 0, missing |-> missing]
        ELSE [status |-> rule.default, case |-> 0, missing |-> {}]
  BY DEF Decide, OutcomeOf
<1>3. \A i \in cases : /\ OutcomeOf(rule, i, facts) \in Outcomes
                       /\ OutcomeOf(rule, i, facts) = "UNKNOWN"
                            <=> MissingFacts(rule.cases[i].when, facts) # {}
  <2>1. ASSUME NEW i \in cases, NEW c, c = rule.cases[i].when
        PROVE  /\ Outcome(c, facts) \in Outcomes
               /\ Outcome(c, facts) = "UNKNOWN" <=> MissingFacts(c, facts) # {}
    <3>1. ValidCondition(c, names)
      BY <2>1 DEF RuleOf
    <3>2. Len(c) \in 1..Len(c)
      BY <3>1 DEF ValidCondition
    <3>3. NodeOutcomes(c, facts)[Len(c)] \in Outcomes
      BY <3>1, <3>2, OutcomesDefined
    <3> QED  BY <3>1, <3>3, UndecidedMisses DEF Outcome
  <2> QED  BY <2>1 DEF OutcomeOf
<1>4. CASE matched # {}
  <2>1. matched \in SUBSET Nat
    BY <1>1
  <2>2. \E k \in matched : \A j \in matched : k <= j
    <3> HIDE DEF matched
    <3> QED  BY <1>4, <2>1, LeastNumber
  <2>3. first \in matched /\ \A j \in matched : first <= j
    <3> HIDE DEF matched
    <3> QED  BY <2>2
  <2>4. PICK k : k = first
    OBVIOUS
  <2>5. Decide(rule, facts) = [status |-> rule.cases[k].status, case |-> k, missing |-> {}]
    BY <1>2, <1>4, <2>4
  <2>6. k \in matched /\ \A j \in matched : k <= j
    BY <2>3, <2>4
  <2>7. \A i \in cases : i < k => i \notin matched
    BY <1>1, <2>6
  <2>8. k \in cases /\ OutcomeOf(rule, k, facts) = "MATCH"
    BY <2>6
  <2> QED  BY <2>5, <2>7, <2>8 DEF DecidedBy
<1>5. CASE matched = {} /\ missing # {}
  <2>1. \E i \in cases : MissingFacts(rule.cases[i].when, facts) # {}
    BY <1>5
  <2>2. Decide(rule, facts).status = "INSUFFICIENT_DATA"
    <3> HIDE DEF matched, missing, first
    <3> QED  BY <1>2, <1>5
  <2> QED  BY <1>3, <1>5, <2>1, <2>2 DEF Undecided
<1>6. CASE matched = {} /\ missing = {}
  <2>1. \A i \in cases : MissingFacts(rule.cases[i].when, facts) = {}
    BY <1>6
  <2>2. Decide(rule, facts) = [status |-> rule.default, case |-> 0, missing |-> {}]
    <3> HIDE DEF matched, missing, first
    <3> QED  BY <1>2, <1>6
  <2> QED  BY <1>3, <1>6, <2>1, <2>2 DEF Defaulted, Outcomes
<1> QED  BY <1>4, <1>5, <1>6

(* A decision that rests on decided cases survives every completion.       *)
LEMMA DecisionSurvives ==
    ASSUME NEW rule, NEW names, NEW facts, NEW full, RuleOf(rule, names),
           \A n \in names : facts[n] # Missing => full[n] = facts[n],
           Decide(rule, facts).status # "INSUFFICIENT_DATA",
           \A i \in 1..(Decide(rule, facts).case - 1) : OutcomeOf(rule, i, facts) = "NO_MATCH"
    PROVE  Decide(rule, full).status = Decide(rule, facts).status
<1>1. \A i \in DOMAIN rule.cases :
        OutcomeOf(rule, i, facts) # "UNKNOWN" => OutcomeOf(rule, i, full) = OutcomeOf(rule, i, facts)
  BY DecidedStays DEF RuleOf, OutcomeOf
<1>2. DOMAIN rule.cases \subseteq Nat \ {0}
      /\ \A k \in DOMAIN rule.cases : \A i \in 1..(k - 1) : i \in DOMAIN rule.cases
  BY DEF RuleOf
<1>3. CASE \E k \in DOMAIN rule.cases : DecidedBy(rule, facts, k)
  <2>1. PICK k \in DOMAIN rule.cases : DecidedBy(rule, facts, k)
    BY <1>3
  <2>2. /\ OutcomeOf(rule, k, full) = "MATCH"
        /\ \A i \in DOMAIN rule.cases : i < k => OutcomeOf(rule, i, full) = "NO_MATCH"
    <3>1. \A i \in DOMAIN rule.cases : i < k => OutcomeOf(rule, i, facts) = "NO_MATCH"
      BY <1>2, <2>1 DEF DecidedBy
    <3> QED  BY <1>1, <2>1, <3>1 DEF DecidedBy
  <2>3. PICK l \in DOMAIN rule.cases : DecidedBy(rule, full, l)
    BY <2>2, WaysToDecide DEF Undecided, Defaulted
  <2>4. l = k
    <3>1. ~(k < l) /\ ~(l < k)
      BY <2>2, <2>3 DEF DecidedBy
    <3> QED  BY <1>2, <3>1
  <2> QED  BY <2>1, <2>3, <2>4 DEF DecidedBy
<1>4. CASE Defaulted(rule, facts)
  <2>1. \A i \in DOMAIN rule.cases : OutcomeOf(rule, i, full) = "NO_MATCH"
    BY <1>1, <1>4 DEF Defaulted
  <2>2. Defaulted(rule, full)
    BY <2>1, WaysToDecide DEF DecidedBy, Undecided
  <2> QED  BY <1>4, <2>2 DEF Defaulted
<1>5. ~Undecided(rule, facts)
  BY DEF Undecided
<1> QED  BY <1>3, <1>4, <1>5, WaysToDecide

(* An eligibility decision stands whatever the student has not said, for   *)
(* rules of any number of cases over conditions of any depth.              *)
THEOREM DecisionsStand == SpecBatch => []DecisionStable
<1>1. ASSUME TaskInv, task.kind = "ELIGIBILITY", result.done,
             result.decision.status # "INSUFFICIENT_DATA",
             \A i \in 1..(result.decision.case - 1) :
                Outcome(task.rule.cases[i].when, task.facts) = "NO_MATCH",
             NEW full \in Completions(task.facts, task.values)
      PROVE  Decide(task.rule, full).status = result.decision.status
  <2>1. /\ task \in Tasks /\ result.decision = Decide(task.rule, task.facts)
    BY <1>1 DEF TaskInv
  <2>2. RuleOf(task.rule, DOMAIN task.facts)
    BY <1>1, <2>1, TasksAssumption DEF RuleOf
  <2>3. \A n \in DOMAIN task.facts : task.facts[n] # Missing => full[n] = task.facts[n]
    BY DEF Completions
  <2> QED  BY <1>1, <2>1, <2>2, <2>3, DecisionSurvives DEF OutcomeOf
<1>2. TaskInv => DecisionStable
  BY <1>1 DEF DecisionStable
<1> QED  BY <1>2, TasksSound, PTL

-----------------------------------------------------------------------------
(* A strict order of a finite set has a first element in every part of it: *)
(* one with the fewest elements before it.                                 *)
StrictOn(R, I) ==
    /\ \A x \in I : <<x, x>> \notin R
    /\ \A x, y, z \in I : <<x, y>> \in R /\ <<y, z>> \in R => <<x, z>> \in R

LEMMA FirstOf ==
    ASSUME NEW I, IsFiniteSet(I), NEW R, StrictOn(R, I), NEW X \in SUBSET I, X # {}
    PROVE  \E x \in X : \A y \in X : <<y, x>> \notin R
<1> DEFINE before(x) == {y \in X : <<y, x>> \in R}
           counts == {n \in Nat : \E x \in X : n = Cardinality(before(x))}
<1>1. IsFiniteSet(X)
  BY FS_Subset
<1>2. \A x \in X : IsFiniteSet(before(x)) /\ Cardinality(before(x)) \in Nat
  BY <1>1, FS_Subset, FS_CardinalityType
<1>3. counts \in SUBSET Nat /\ counts # {}
  BY <1>2
<1>4. PICK n \in counts : \A m \in counts : n <= m
  <2> HIDE DEF counts
  <2> QED  BY <1>3, LeastNumber
<1>5. PICK x \in X : n = Cardinality(before(x))
  OBVIOUS
<1>6. ASSUME NEW y \in X, <<y, x>> \in R PROVE FALSE
  <2>1. before(y) \subseteq before(x) /\ y \in before(x) /\ y \notin before(y)
    BY <1>6 DEF StrictOn
  <2>2. Cardinality(before(y)) < Cardinality(before(x))
    <3>1. before(y) \in SUBSET before(x) /\ before(y) # before(x)
      BY <2>1
    <3> HIDE DEF before
    <3> QED  BY <1>2, <3>1, FS_Subset, FS_CardinalityType
  <2>3. Cardinality(before(y)) \in counts
    BY <1>2
  <2> HIDE DEF counts, before
  <2> QED  BY <1>2, <1>3, <1>4, <1>5, <2>2, <2>3
<1> QED  BY <1>6

LEMMA LastOf ==
    ASSUME NEW I, IsFiniteSet(I), NEW R, StrictOn(R, I), NEW X \in SUBSET I, X # {}
    PROVE  \E x \in X : \A y \in X : <<x, y>> \notin R
<1> DEFINE S == {p \in I \X I : <<p[2], p[1]>> \in R}
<1>1. \A x, y \in I : <<x, y>> \in S <=> <<y, x>> \in R
  OBVIOUS
<1> HIDE DEF S
<1>2. StrictOn(S, I)
  BY <1>1 DEF StrictOn
<1>3. \E x \in X : \A y \in X : <<y, x>> \notin S
  BY <1>2, FirstOf
<1> QED  BY <1>1, <1>3

-----------------------------------------------------------------------------
(* Z score tables: rows with numbers or blanks for bounds.                 *)
RowsOf(rows) ==
    /\ DOMAIN rows = 1..Len(rows) /\ Len(rows) \in Nat
    /\ \A i \in DOMAIN rows : rows[i].lo \in Int \cup {None} /\ rows[i].hi \in Int \cup {None}

LEMMA OrderOfRows ==
    ASSUME NEW rows, RowsOf(rows), NEW i \in DOMAIN rows, NEW j \in DOMAIN rows
    PROVE  TableOrder(rows, i, j) <=>
             \/ rows[i].lo = None /\ rows[j].lo # None
             \/ rows[i].lo = None /\ rows[j].lo = None /\ i < j
             \/ /\ rows[i].lo # None /\ rows[j].lo # None
                /\ rows[i].lo < rows[j].lo \/ (rows[i].lo = rows[j].lo /\ i < j)
  BY DEF RowsOf, TableOrder

(* The order of a file's rows is total and strict.                         *)
LEMMA RowsOrdered ==
    ASSUME NEW rows, RowsOf(rows)
    PROVE  /\ \A i \in DOMAIN rows : ~TableOrder(rows, i, i)
           /\ \A i, j, k \in DOMAIN rows :
                TableOrder(rows, i, j) /\ TableOrder(rows, j, k) => TableOrder(rows, i, k)
           /\ \A i, j \in DOMAIN rows : i # j => TableOrder(rows, i, j) \/ TableOrder(rows, j, i)
<1>1. \A i \in DOMAIN rows : i \in Int /\ rows[i].lo \in Int \cup {None}
  BY DEF RowsOf
<1>2. \A i, j \in DOMAIN rows : TableOrder(rows, i, j) <=>
             \/ rows[i].lo = None /\ rows[j].lo # None
             \/ rows[i].lo = None /\ rows[j].lo = None /\ i < j
             \/ /\ rows[i].lo # None /\ rows[j].lo # None
                /\ rows[i].lo < rows[j].lo \/ (rows[i].lo = rows[j].lo /\ i < j)
  BY OrderOfRows
<1>3. ASSUME NEW i \in DOMAIN rows PROVE ~TableOrder(rows, i, i)
  BY <1>1, <1>2
<1>4. ASSUME NEW i \in DOMAIN rows, NEW j \in DOMAIN rows, NEW k \in DOMAIN rows,
             TableOrder(rows, i, j), TableOrder(rows, j, k)
      PROVE  TableOrder(rows, i, k)
  BY <1>1, <1>2, <1>4
<1>5. ASSUME NEW i \in DOMAIN rows, NEW j \in DOMAIN rows, i # j
      PROVE  TableOrder(rows, i, j) \/ TableOrder(rows, j, i)
  BY <1>1, <1>2, <1>5
<1> QED  BY <1>3, <1>4, <1>5

(* last ends before next begins.                                           *)
Apart(last, next) ==
    /\ last.hi # None /\ next.lo # None
    /\ last.hi < next.lo \/ (last.hi = next.lo /\ ~(last.hi_in /\ next.lo_in))

LEMMA ApartShareNothing ==
    ASSUME NEW last, NEW next, NEW x \in Int,
           last.hi \in Int \cup {None}, next.lo \in Int \cup {None}, Apart(last, next)
    PROVE  ~(InInterval(last, x) /\ InInterval(next, x))
  BY DEF Apart, InInterval

(* The code compares each row with the one before it only; what it accepts *)
(* is apart from every row that follows, however many.                     *)
LEMMA FollowersApart ==
    ASSUME NEW rows, RowsOf(rows), NEW i \in ParsedTable(rows), NEW j \in ParsedTable(rows),
           rows[i].table = rows[j].table, TableOrder(rows, i, j)
    PROVE  Apart(rows[i], rows[j])
<1> DEFINE kept == {n \in DOMAIN rows : ValidTableRow(rows[n])}
           of == {n \in kept : rows[n].table = rows[i].table}
           after == {n \in of : TableOrder(rows, i, n)}
           R == {p \in (DOMAIN rows) \X (DOMAIN rows) : TableOrder(rows, p[1], p[2])}
           Bad == {n \in after : ~Apart(rows[i], rows[n])}
<1>1. /\ ParsedTable(rows) = kept
      /\ \A a, b \in kept : RightAfter(rows, kept, a, b) => ~Overlap(rows[a], rows[b])
  BY DEF ParsedTable
<1>2. \A a, b \in DOMAIN rows : <<a, b>> \in R <=> TableOrder(rows, a, b)
  OBVIOUS
<1>3. IsFiniteSet(DOMAIN rows) /\ StrictOn(R, DOMAIN rows)
  <2>1. IsFiniteSet(DOMAIN rows)
    BY FS_Interval DEF RowsOf
  <2> HIDE DEF R
  <2>2. StrictOn(R, DOMAIN rows)
    BY <1>2, RowsOrdered DEF StrictOn
  <2> QED  BY <2>1, <2>2
<1>4. of \subseteq DOMAIN rows /\ i \in of /\ j \in after /\ after \subseteq of
  BY <1>1
<1>5. \A n \in of : /\ rows[n].lo \in Int \cup {None} /\ rows[n].hi \in Int \cup {None}
                    /\ rows[n].lo # None /\ rows[n].hi # None => rows[n].lo < rows[n].hi
  BY <1>4 DEF RowsOf, ValidTableRow
<1>6. \A a, b \in of : RightAfter(rows, kept, a, b) => Apart(rows[a], rows[b])
  <2>1. ASSUME NEW a \in of, NEW b \in of, RightAfter(rows, kept, a, b)
        PROVE  Apart(rows[a], rows[b])
    <3>1. ~Overlap(rows[a], rows[b])
      BY <1>1, <2>1
    <3> HIDE DEF of
    <3> QED  BY <3>1, <1>5, BlankAssumption DEF Overlap, Apart
  <2> QED  BY <2>1
<1>7. Bad = {}
  <2> SUFFICES ASSUME Bad # {} PROVE FALSE
    OBVIOUS
  <2>1. PICK k \in Bad : \A n \in Bad : <<n, k>> \notin R
    <3>1. Bad \in SUBSET DOMAIN rows
      BY <1>4
    <3> HIDE DEF Bad, R
    <3> QED  BY <1>3, <3>1, FirstOf
  <2>2. k \in after /\ ~Apart(rows[i], rows[k]) /\ k \in of
    BY <1>4
  <2> DEFINE before == {n \in of : TableOrder(rows, n, k)}
  <2>3. PICK p \in before : \A n \in before : <<p, n>> \notin R
    <3>1. before \in SUBSET DOMAIN rows /\ before # {}
      BY <1>4, <2>2
    <3> HIDE DEF before, R
    <3> QED  BY <1>3, <3>1, LastOf
  <2>4. p \in of /\ TableOrder(rows, p, k)
    OBVIOUS
  <2>5. RightAfter(rows, kept, p, k)
    <3>1. {n \in kept : rows[n].table = rows[p].table} = of
      BY <2>4
    <3>2. \A n \in of : ~(TableOrder(rows, p, n) /\ TableOrder(rows, n, k))
      BY <1>2, <1>4, <2>3
    <3> QED  BY <2>2, <2>4, <3>1, <3>2 DEF RightAfter
  <2>6. Apart(rows[p], rows[k])
    <3> HIDE DEF of
    <3> QED  BY <1>6, <2>2, <2>4, <2>5
  <2>7. p # i
    BY <2>2, <2>6
  <2>8. TableOrder(rows, i, p)
    <3>1. i \in before
      BY <1>4, <2>2
    <3>2. ~TableOrder(rows, p, i)
      BY <1>2, <1>4, <2>3, <2>4, <3>1
    <3> QED  BY <1>4, <2>4, <2>7, <3>2, RowsOrdered
  <2>9. Apart(rows[i], rows[p])
    <3>1. p \in after /\ <<p, k>> \in R
      BY <1>2, <1>4, <2>2, <2>4, <2>8
    <3>2. p \notin Bad
      <4> HIDE DEF Bad, R
      <4> QED  BY <2>1, <3>1
    <3> QED  BY <3>1, <3>2
  <2>10. Apart(rows[i], rows[k])
    <3> HIDE DEF of
    <3> QED  BY <1>4, <1>5, <2>2, <2>4, <2>6, <2>9, BlankAssumption DEF Apart
  <2> QED  BY <2>2, <2>10
<1> QED  BY <1>4, <1>7

(* A table that parse_z_score_table_csv accepts, of any length, gives      *)
(* every Z score of it one grade at most: its comparison of each row with  *)
(* the one before it is enough.                                            *)
THEOREM TablesUnambiguous == SpecBatch => []TableUnambiguous
<1>1. ASSUME TaskInv, task.kind = "TABLE", result.done,
             NEW i \in result.rows, NEW j \in result.rows, NEW x \in task.points,
             task.rows[i].table = task.rows[j].table,
             InInterval(task.rows[i], x), InInterval(task.rows[j], x)
      PROVE  i = j
  <2>1. RowsOf(task.rows) /\ task.points \subseteq Int
    BY <1>1, TasksAssumption DEF TaskInv, RowsOf
  <2>2. i \in ParsedTable(task.rows) /\ j \in ParsedTable(task.rows)
    BY <1>1 DEF TaskInv
  <2>3. i \in DOMAIN task.rows /\ j \in DOMAIN task.rows
    BY <2>2 DEF ParsedTable
  <2>4. /\ task.rows[i].lo \in Int \cup {None} /\ task.rows[i].hi \in Int \cup {None}
        /\ task.rows[j].lo \in Int \cup {None} /\ task.rows[j].hi \in Int \cup {None}
    BY <2>1, <2>3 DEF RowsOf
  <2>5. ~TableOrder(task.rows, i, j)
    BY <1>1, <2>1, <2>2, <2>4, FollowersApart, ApartShareNothing
  <2>6. ~TableOrder(task.rows, j, i)
    BY <1>1, <2>1, <2>2, <2>4, FollowersApart, ApartShareNothing
  <2> QED  BY <2>1, <2>3, <2>5, <2>6, RowsOrdered
<1>2. ASSUME TaskInv PROVE TableUnambiguous
  <2> SUFFICES ASSUME task.kind = "TABLE", result.done,
                      NEW i \in result.rows, NEW j \in result.rows, NEW x \in task.points,
                      task.rows[i].table = task.rows[j].table,
                      InInterval(task.rows[i], x), InInterval(task.rows[j], x)
               PROVE  i = j
    BY DEF TableUnambiguous
  <2> QED  BY <1>1, <1>2
<1> QED  BY <1>2, TasksSound, PTL

-----------------------------------------------------------------------------
(* Finite sets: what holds of {}, and with T of T and one element more,    *)
(* holds of all.  P is the set of the sets it holds of.                    *)
GrowsIn(P, S) == \A T \in P : \A x \in S \ T : T \cup {x} \in P

LEMMA SetInduction ==
    ASSUME NEW S, IsFiniteSet(S), NEW P \in SUBSET (SUBSET S), {} \in P, GrowsIn(P, S)
    PROVE  S \in P
<1> DEFINE rest == (SUBSET S) \ P
           counts == {n \in Nat : \E T \in rest : n = Cardinality(T)}
<1>1. \A T \in SUBSET S : IsFiniteSet(T) /\ Cardinality(T) \in Nat
  BY FS_Subset, FS_CardinalityType
<1> SUFFICES ASSUME rest # {} PROVE FALSE
  OBVIOUS
<1>2. counts \in SUBSET Nat /\ counts # {}
  BY <1>1
<1>3. PICK n \in counts : \A m \in counts : n <= m
  <2> HIDE DEF counts
  <2> QED  BY <1>2, LeastNumber
<1>4. PICK T \in rest : n = Cardinality(T)
  OBVIOUS
<1>5. PICK x \in T : TRUE
  OBVIOUS
<1> DEFINE U == T \ {x}
<1>6. U \in SUBSET S /\ Cardinality(U) = n - 1 /\ U \cup {x} = T /\ x \in S \ U /\ n \in Nat
  BY <1>1, <1>4, <1>5, FS_RemoveElement
<1>7. Cardinality(U) \notin counts
  <2>1. Cardinality(U) < n
    BY <1>6
  <2> HIDE DEF counts, U
  <2> QED  BY <1>1, <1>2, <1>3, <1>6, <2>1
<1>8. U \in P
  BY <1>1, <1>6, <1>7
<1> QED  BY <1>4, <1>6, <1>8 DEF GrowsIn

-----------------------------------------------------------------------------
(* Sums.  The fold of the community modules takes the elements of a set in *)
(* some order; a sum does not depend on it.                                *)
Ints(f, S) == \A x \in S : f[x] \in Int
OneOf(s) == CHOOSE x \in s : TRUE
IsFold(g, f, S) ==
    g = [s \in SUBSET S |-> IF s = {} THEN 0 ELSE f[OneOf(s)] + g[s \ {OneOf(s)}]]

LEMMA FoldExists ==
    ASSUME NEW S, IsFiniteSet(S), NEW f
    PROVE  \E g : IsFold(g, f, S)
<1> DEFINE upTo(n) == {s \in SUBSET S : Cardinality(s) <= n}
           solves(g, n) == g = [s \in upTo(n) |-> IF s = {} THEN 0 ELSE f[OneOf(s)] + g[s \ {OneOf(s)}]]
           bad == {n \in Nat : ~ \E g : solves(g, n)}
<1>1. \A T \in SUBSET S : IsFiniteSet(T) /\ Cardinality(T) \in Nat
  BY FS_Subset, FS_CardinalityType
<1>2. bad = {}
  <2> SUFFICES ASSUME bad # {} PROVE FALSE
    OBVIOUS
  <2>1. PICK k \in bad : \A j \in bad : k <= j
    <3>1. bad \in SUBSET Nat
      OBVIOUS
    <3> HIDE DEF bad
    <3> QED  BY <3>1, LeastNumber
  <2>2. k \in Nat /\ ~ \E g : solves(g, k)
    OBVIOUS
  <2>3. k # 0
    <3> DEFINE g == [s \in upTo(0) |-> 0]
    <3>1. \A s \in upTo(0) : s = {}
      BY <1>1, FS_EmptySet
    <3>2. solves(g, 0)
      BY <3>1
    <3> QED  BY <2>2, <3>2
  <2>4. k - 1 \in Nat /\ k - 1 \notin bad
    <3>1. k - 1 \in Nat /\ ~(k <= k - 1)
      BY <2>2, <2>3
    <3> HIDE DEF bad
    <3> QED  BY <2>1, <3>1
  <2>5. PICK h : solves(h, k - 1)
    <3> HIDE DEF solves
    <3> QED  BY <2>4
  <2> DEFINE g == [s \in upTo(k) |-> IF s = {} THEN 0 ELSE f[OneOf(s)] + h[s \ {OneOf(s)}]]
  <2>6. ASSUME NEW s \in upTo(k), s # {}
        PROVE  s \ {OneOf(s)} \in upTo(k - 1)
    <3>1. OneOf(s) \in s
      BY <2>6 DEF OneOf
    <3>2. Cardinality(s \ {OneOf(s)}) = Cardinality(s) - 1 /\ Cardinality(s) \in Nat
      BY <1>1, <3>1, FS_RemoveElement
    <3> QED  BY <2>2, <3>2
  <2>7. \A s \in upTo(k - 1) : s \in upTo(k) /\ g[s] = h[s]
    <3>1. \A s \in upTo(k - 1) : s \in upTo(k)
      BY <1>1, <2>2
    <3>2. \A s \in upTo(k - 1) : h[s] = IF s = {} THEN 0 ELSE f[OneOf(s)] + h[s \ {OneOf(s)}]
      BY <2>5
    <3> QED  BY <3>1, <3>2
  <2>8. solves(g, k)
    <3>1. \A s \in upTo(k) : s # {} => g[s \ {OneOf(s)}] = h[s \ {OneOf(s)}]
      BY <2>6, <2>7
    <3> HIDE DEF upTo
    <3> QED  BY <3>1
  <2> QED  BY <2>2, <2>8
<1>3. PICK g : solves(g, Cardinality(S))
  <2>1. Cardinality(S) \in Nat /\ Cardinality(S) \notin bad
    BY <1>1, <1>2
  <2> HIDE DEF solves
  <2> QED  BY <2>1
<1>4. upTo(Cardinality(S)) = SUBSET S
  BY FS_Subset
<1> QED  BY <1>3, <1>4 DEF IsFold

LEMMA SumIsFold ==
    ASSUME NEW S, IsFiniteSet(S), NEW f
    PROVE  \E g : IsFold(g, f, S) /\ SumFunctionOnSet(f, S) = g[S]
<1> DEFINE iter == CHOOSE g : IsFold(g, f, S)
<1>1. IsFold(iter, f, S)
  BY FoldExists
<1>2. SumFunctionOnSet(f, S) = iter[S]
  BY DEF SumFunctionOnSet, FoldFunctionOnSet, MapThenFoldSet, IsFold, OneOf
<1> QED  BY <1>1, <1>2

LEMMA FoldsAgree ==
    ASSUME NEW S, IsFiniteSet(S), NEW T \in SUBSET S, NEW f, NEW g, NEW h,
           IsFold(g, f, S), IsFold(h, f, T)
    PROVE  g[T] = h[T]
<1> DEFINE rest == {s \in SUBSET T : g[s] # h[s]}
           counts == {n \in Nat : \E s \in rest : n = Cardinality(s)}
<1>1. \A s \in SUBSET T : s \in SUBSET S /\ IsFiniteSet(s) /\ Cardinality(s) \in Nat
  BY FS_Subset, FS_CardinalityType
<1> SUFFICES ASSUME rest # {} PROVE FALSE
  OBVIOUS
<1>2. counts \in SUBSET Nat /\ counts # {}
  BY <1>1
<1>3. PICK n \in counts : \A m \in counts : n <= m
  <2> HIDE DEF counts
  <2> QED  BY <1>2, LeastNumber
<1>4. PICK s \in rest : n = Cardinality(s)
  OBVIOUS
<1>5. /\ g[s] = IF s = {} THEN 0 ELSE f[OneOf(s)] + g[s \ {OneOf(s)}]
      /\ h[s] = IF s = {} THEN 0 ELSE f[OneOf(s)] + h[s \ {OneOf(s)}]
  BY <1>1 DEF IsFold
<1>6. s # {} /\ g[s \ {OneOf(s)}] # h[s \ {OneOf(s)}]
  BY <1>5
<1>7. OneOf(s) \in s
  BY <1>6 DEF OneOf
<1> DEFINE U == s \ {OneOf(s)}
<1>8. U \in rest /\ Cardinality(U) = n - 1 /\ n \in Nat
  BY <1>1, <1>4, <1>6, <1>7, FS_RemoveElement
<1>9. Cardinality(U) \in counts /\ Cardinality(U) < n
  <2>1. Cardinality(U) \in Nat /\ U \in rest
    BY <1>1, <1>8
  <2>2. Cardinality(U) < n
    BY <1>8
  <2>3. \E r \in rest : Cardinality(U) = Cardinality(r)
    <3> HIDE DEF U, rest
    <3> QED  BY <2>1
  <2>4. Cardinality(U) \in counts
    <3> HIDE DEF U, rest
    <3> QED  BY <2>1, <2>3
  <2> QED  BY <2>2, <2>4
<1> HIDE DEF counts, U
<1> QED  BY <1>1, <1>2, <1>3, <1>8, <1>9

LEMMA SumEmpty == \A f : SumFunctionOnSet(f, {}) = 0
<1> TAKE f
<1>1. PICK g : IsFold(g, f, {}) /\ SumFunctionOnSet(f, {}) = g[{}]
  BY SumIsFold, FS_EmptySet
<1> QED  BY <1>1 DEF IsFold

LEMMA SumOfRest ==
    ASSUME NEW S, IsFiniteSet(S), S # {}, NEW f
    PROVE  OneOf(S) \in S /\ SumFunctionOnSet(f, S) = f[OneOf(S)] + SumFunctionOnSet(f, S \ {OneOf(S)})
<1> DEFINE U == S \ {OneOf(S)}
<1>1. OneOf(S) \in S
  BY DEF OneOf
<1>2. IsFiniteSet(U) /\ U \in SUBSET S
  BY FS_Subset
<1>3. PICK g : IsFold(g, f, S) /\ SumFunctionOnSet(f, S) = g[S]
  BY SumIsFold
<1>4. PICK h : IsFold(h, f, U) /\ SumFunctionOnSet(f, U) = h[U]
  <2> HIDE DEF U
  <2> QED  BY <1>2, SumIsFold
<1>5. g[U] = h[U]
  <2> HIDE DEF U
  <2> QED  BY <1>2, <1>3, <1>4, FoldsAgree
<1>6. g[S] = f[OneOf(S)] + g[U]
  BY <1>3 DEF IsFold
<1> QED  BY <1>1, <1>3, <1>4, <1>5, <1>6

LEMMA SumInt ==
    ASSUME NEW S, IsFiniteSet(S), NEW f, Ints(f, S)
    PROVE  SumFunctionOnSet(f, S) \in Int
<1> DEFINE rest == {s \in SUBSET S : SumFunctionOnSet(f, s) \notin Int}
           counts == {n \in Nat : \E s \in rest : n = Cardinality(s)}
<1>1. \A s \in SUBSET S : IsFiniteSet(s) /\ Cardinality(s) \in Nat
  BY FS_Subset, FS_CardinalityType
<1> SUFFICES ASSUME rest # {} PROVE FALSE
  BY FS_Subset
<1>2. counts \in SUBSET Nat /\ counts # {}
  BY <1>1
<1>3. PICK n \in counts : \A m \in counts : n <= m
  <2> HIDE DEF counts
  <2> QED  BY <1>2, LeastNumber
<1>4. PICK s \in rest : n = Cardinality(s)
  OBVIOUS
<1>5. s # {} /\ IsFiniteSet(s) /\ s \in SUBSET S
  BY <1>1, SumEmpty
<1> DEFINE U == s \ {OneOf(s)}
<1>6. OneOf(s) \in s /\ SumFunctionOnSet(f, s) = f[OneOf(s)] + SumFunctionOnSet(f, U)
  BY <1>5, SumOfRest
<1>7. U \in SUBSET S /\ Cardinality(U) = n - 1 /\ n \in Nat
  BY <1>1, <1>4, <1>5, <1>6, FS_RemoveElement
<1>8. SumFunctionOnSet(f, U) \notin Int
  BY <1>4, <1>5, <1>6 DEF Ints
<1>9. Cardinality(U) \in counts /\ Cardinality(U) < n
  BY <1>1, <1>7, <1>8
<1> HIDE DEF counts, U
<1> QED  BY <1>1, <1>2, <1>3, <1>7, <1>9

(* Whatever element is taken away, the rest of the sum is the same.        *)
Removable(f, s) ==
    \A a \in s : SumFunctionOnSet(f, s) = f[a] + SumFunctionOnSet(f, s \ {a})

LEMMA SumRemove ==
    ASSUME NEW S, IsFiniteSet(S), NEW f, Ints(f, S)
    PROVE  Removable(f, S)
<1> DEFINE sum(s) == SumFunctionOnSet(f, s)
           rest == {s \in SUBSET S : ~Removable(f, s)}
           counts == {n \in Nat : \E s \in rest : n = Cardinality(s)}
<1>1. \A s \in SUBSET S : IsFiniteSet(s) /\ Cardinality(s) \in Nat /\ sum(s) \in Int
  <2>1. \A s \in SUBSET S : IsFiniteSet(s) /\ Ints(f, s)
    BY FS_Subset DEF Ints
  <2> QED  BY <2>1, SumInt, FS_CardinalityType
<1> SUFFICES ASSUME rest # {} PROVE FALSE
  OBVIOUS
<1>2. counts \in SUBSET Nat /\ counts # {}
  BY <1>1
<1>3. PICK n \in counts : \A m \in counts : n <= m
  <2> HIDE DEF counts
  <2> QED  BY <1>2, LeastNumber
<1>4. PICK s \in rest : n = Cardinality(s)
  OBVIOUS
<1>5. PICK x \in s : sum(s) # f[x] + sum(s \ {x})
  BY DEF Removable
<1>6. IsFiniteSet(s) /\ s \in SUBSET S /\ n \in Nat /\ n = Cardinality(s)
  BY <1>1, <1>4
<1> DEFINE y == OneOf(s)
<1>7. y \in s /\ sum(s) = f[y] + sum(s \ {y})
  BY <1>5, <1>6, SumOfRest
<1>8. y # x
  BY <1>5, <1>7
<1>9. ASSUME NEW a \in s PROVE Removable(f, s \ {a})
  <2> DEFINE U == s \ {a}
  <2>1. U \in SUBSET S /\ Cardinality(U) = n - 1
    BY <1>6, FS_RemoveElement
  <2>2. Cardinality(U) \notin counts
    <3>1. Cardinality(U) < n /\ Cardinality(U) \in Int
      BY <1>6, <2>1
    <3> HIDE DEF counts, U
    <3> QED  BY <1>2, <1>3, <1>6, <3>1
  <2> QED  BY <1>1, <2>1, <2>2
<1>10. sum(s \ {x}) = f[y] + sum((s \ {x}) \ {y})
  BY <1>5, <1>7, <1>8, <1>9 DEF Removable
<1>11. sum(s \ {y}) = f[x] + sum((s \ {y}) \ {x})
  BY <1>5, <1>7, <1>8, <1>9 DEF Removable
<1>12. (s \ {x}) \ {y} = (s \ {y}) \ {x}
  OBVIOUS
<1>13. /\ f[x] \in Int /\ f[y] \in Int
       /\ (s \ {x}) \ {y} \in SUBSET S
       /\ sum((s \ {x}) \ {y}) \in Int /\ sum(s) \in Int
  BY <1>1, <1>6, <1>7 DEF Ints
<1>14. PICK z \in Int : z = sum((s \ {y}) \ {x})
  BY <1>12, <1>13
<1>15. sum(s \ {x}) = f[y] + z /\ sum(s \ {y}) = f[x] + z
  BY <1>10, <1>11, <1>12, <1>14
<1>16. sum(s) = f[y] + (f[x] + z) /\ sum(s) # f[x] + (f[y] + z)
  BY <1>5, <1>7, <1>15
<1> HIDE DEF sum, y
<1> QED  BY <1>13, <1>16

LEMMA SumAdd ==
    ASSUME NEW S, IsFiniteSet(S), NEW f, Ints(f, S), NEW T \in SUBSET S, NEW x \in S \ T
    PROVE  /\ SumFunctionOnSet(f, T \cup {x}) = SumFunctionOnSet(f, T) + f[x]
           /\ SumFunctionOnSet(f, T) \in Int /\ f[x] \in Int
<1>1. IsFiniteSet(T) /\ IsFiniteSet(T \cup {x}) /\ Ints(f, T) /\ Ints(f, T \cup {x})
  BY FS_Subset DEF Ints
<1>2. Removable(f, T \cup {x}) /\ SumFunctionOnSet(f, T) \in Int
  BY <1>1, SumRemove, SumInt
<1>3. (T \cup {x}) \ {x} = T
  OBVIOUS
<1>4. f[x] \in Int
  BY DEF Ints
<1>5. SumFunctionOnSet(f, T \cup {x}) = f[x] + SumFunctionOnSet(f, T)
  <2>1. SumFunctionOnSet(f, T \cup {x}) = f[x] + SumFunctionOnSet(f, (T \cup {x}) \ {x})
    BY <1>2 DEF Removable
  <2> QED  BY <1>3, <2>1
<1> QED  BY <1>2, <1>4, <1>5

(* Equal terms have equal sums, and terms in order have sums in order.     *)
Below(f, g, S) == \A x \in S : f[x] <= g[x]

LEMMA SumInOrder ==
    ASSUME NEW S, IsFiniteSet(S), NEW f, NEW g, Ints(f, S), Ints(g, S), Below(f, g, S)
    PROVE  SumFunctionOnSet(f, S) <= SumFunctionOnSet(g, S)
<1> DEFINE P == {T \in SUBSET S : SumFunctionOnSet(f, T) <= SumFunctionOnSet(g, T)}
<1>1. {} \in P
  BY SumEmpty
<1>2. ASSUME NEW T \in P, NEW x \in S \ T PROVE T \cup {x} \in P
  BY SumAdd DEF Below
<1>3. GrowsIn(P, S)
  BY <1>2 DEF GrowsIn
<1>4. P \in SUBSET (SUBSET S)
  OBVIOUS
<1>5. S \in P
  <2> HIDE DEF P
  <2> QED  BY <1>1, <1>3, <1>4, SetInduction
<1> QED  BY <1>5

LEMMA SumSame ==
    ASSUME NEW S, IsFiniteSet(S), NEW f, NEW g, Ints(f, S), \A x \in S : f[x] = g[x]
    PROVE  SumFunctionOnSet(f, S) = SumFunctionOnSet(g, S)
<1>1. Ints(g, S) /\ Below(f, g, S) /\ Below(g, f, S)
  BY DEF Ints, Below
<1>2. SumFunctionOnSet(f, S) <= SumFunctionOnSet(g, S)
  BY <1>1, SumInOrder
<1>3. SumFunctionOnSet(g, S) <= SumFunctionOnSet(f, S)
  BY <1>1, SumInOrder
<1>4. SumFunctionOnSet(f, S) \in Int /\ SumFunctionOnSet(g, S) \in Int
  BY <1>1, SumInt
<1> QED  BY <1>2, <1>3, <1>4

LEMMA SumConstant ==
    ASSUME NEW S, IsFiniteSet(S), NEW f, NEW c \in Int, \A x \in S : f[x] = c
    PROVE  SumFunctionOnSet(f, S) = Cardinality(S) * c
<1> DEFINE P == {T \in SUBSET S : SumFunctionOnSet(f, T) = Cardinality(T) * c}
<1>0. Ints(f, S)
  BY DEF Ints
<1>1. {} \in P
  BY SumEmpty, FS_EmptySet
<1>2. ASSUME NEW T \in P, NEW x \in S \ T PROVE T \cup {x} \in P
  <2>1. SumFunctionOnSet(f, T \cup {x}) = Cardinality(T) * c + c
    BY <1>0, SumAdd
  <2>2. Cardinality(T \cup {x}) = Cardinality(T) + 1 /\ Cardinality(T) \in Nat
    BY FS_Subset, FS_AddElement, FS_CardinalityType
  <2>3. \A k \in Nat : k * c + c = (k + 1) * c
    OBVIOUS
  <2> QED  BY <2>1, <2>2, <2>3
<1>3. GrowsIn(P, S)
  BY <1>2 DEF GrowsIn
<1>4. P \in SUBSET (SUBSET S)
  OBVIOUS
<1>5. S \in P
  <2> HIDE DEF P
  <2> QED  BY <1>1, <1>3, <1>4, SetInduction
<1> QED  BY <1>5

(* The sum of two parts.                                                   *)
LEMMA SumOfParts ==
    ASSUME NEW S, IsFiniteSet(S), NEW f, Ints(f, S), NEW A \in SUBSET S
    PROVE  SumFunctionOnSet(f, S) = SumFunctionOnSet(f, A) + SumFunctionOnSet(f, S \ A)
<1> DEFINE B == S \ A
           P == {T \in SUBSET B :
                   SumFunctionOnSet(f, A \cup T) = SumFunctionOnSet(f, A) + SumFunctionOnSet(f, T)}
<1>0. IsFiniteSet(A) /\ IsFiniteSet(B) /\ Ints(f, A) /\ Ints(f, B)
  BY FS_Subset DEF Ints
<1>1. {} \in P
  <2>1. SumFunctionOnSet(f, A) \in Int /\ A \cup {} = A
    BY <1>0, SumInt
  <2> QED  BY <2>1, SumEmpty
<1>2. ASSUME NEW T \in P, NEW x \in B \ T PROVE T \cup {x} \in P
  <2>1. A \cup T \in SUBSET S /\ x \in S \ (A \cup T) /\ A \cup (T \cup {x}) = (A \cup T) \cup {x}
    OBVIOUS
  <2>2. SumFunctionOnSet(f, (A \cup T) \cup {x}) = SumFunctionOnSet(f, A \cup T) + f[x]
    <3> DEFINE W == A \cup T
    <3>1. W \in SUBSET S /\ x \in S \ W
      BY <2>1
    <3> HIDE DEF W
    <3>2. SumFunctionOnSet(f, W \cup {x}) = SumFunctionOnSet(f, W) + f[x]
      BY <3>1, SumAdd
    <3> QED  BY <3>2 DEF W
  <2>3. SumFunctionOnSet(f, T \cup {x}) = SumFunctionOnSet(f, T) + f[x]
    BY <1>0, SumAdd
  <2>4. f[x] \in Int /\ SumFunctionOnSet(f, T) \in Int /\ SumFunctionOnSet(f, A) \in Int
    BY <1>0, SumAdd, SumInt
  <2>5. SumFunctionOnSet(f, A \cup T) = SumFunctionOnSet(f, A) + SumFunctionOnSet(f, T)
    OBVIOUS
  <2>6. SumFunctionOnSet(f, A \cup (T \cup {x}))
          = SumFunctionOnSet(f, A) + SumFunctionOnSet(f, T \cup {x})
    <3>1. SumFunctionOnSet(f, A \cup (T \cup {x})) = SumFunctionOnSet(f, A \cup T) + f[x]
      BY <2>1, <2>2
    <3> HIDE DEF P
    <3> QED  BY <2>3, <2>4, <2>5, <3>1
  <2> QED  BY <2>6
<1>3. GrowsIn(P, B)
  BY <1>2 DEF GrowsIn
<1>4. P \in SUBSET (SUBSET B)
  OBVIOUS
<1>5. B \in P
  <2> HIDE DEF P, B
  <2> QED  BY <1>0, <1>1, <1>3, <1>4, SetInduction
<1>6. A \cup B = S
  OBVIOUS
<1> QED  BY <1>5, <1>6
-----------------------------------------------------------------------------
(* The best of a finite set in a strict total order.                       *)
TotalOn(R, I) == \A x, y \in I : x # y => <<x, y>> \in R \/ <<y, x>> \in R

(* One more is counted: the first of those that were not.                  *)
LEMMA BestOneMore ==
    ASSUME NEW S, IsFiniteSet(S), NEW R, StrictOn(R, S), TotalOn(R, S),
           NEW n \in Nat, Cardinality(Best(S, n, R)) = n, n < Cardinality(S)
    PROVE  Cardinality(Best(S, n + 1, R)) = n + 1
<1> DEFINE before(x) == {y \in S : <<y, x>> \in R}
           B == Best(S, n, R)
<1>1. \A x \in S : /\ IsFiniteSet(before(x)) /\ Cardinality(before(x)) \in Nat
                   /\ before(x) \in SUBSET S
  BY FS_Subset, FS_CardinalityType
<1>2. \A k : Best(S, k, R) = {x \in S : Cardinality(before(x)) < k}
  BY DEF Best
<1>3. B \in SUBSET S /\ B # S /\ Cardinality(B) = n /\ IsFiniteSet(B)
  <2>1. B \in SUBSET S /\ Cardinality(B) = n
    BY <1>2
  <2> HIDE DEF B
  <2> QED  BY <2>1, FS_Subset
<1>4. PICK x \in S \ B : \A y \in S \ B : <<y, x>> \notin R
  <2> HIDE DEF B
  <2> QED  BY <1>3, FirstOf
<1> HIDE DEF before
<1>5. \A y \in S : <<y, x>> \in R <=> y \in before(x)
  BY DEF before
<1>6. \A y, z \in S : <<y, z>> \in R => before(y) \subseteq before(z)
  BY DEF before, StrictOn
<1>7. before(x) \in SUBSET B
  BY <1>1, <1>4, <1>5
<1>8. B \subseteq before(x)
  <2> SUFFICES ASSUME NEW y \in B, <<y, x>> \notin R PROVE FALSE
    BY <1>3, <1>5
  <2>1. <<x, y>> \in R
    BY <1>3, <1>4 DEF TotalOn
  <2>2. before(x) \in SUBSET before(y)
    BY <1>3, <1>6, <2>1
  <2>3. Cardinality(before(x)) <= Cardinality(before(y)) /\ Cardinality(before(y)) < n
    BY <1>1, <1>2, <1>3, <2>2, FS_Subset
  <2>4. x \in B
    BY <1>1, <1>2, <1>3, <2>3
  <2> QED  BY <1>4, <2>4
<1>9. before(x) = B /\ Cardinality(before(x)) = n
  BY <1>7, <1>8
<1>10. ASSUME NEW z \in S \ B, z # x PROVE Cardinality(before(z)) >= n + 1
  <2>1. <<x, z>> \in R
    BY <1>4, <1>10 DEF TotalOn
  <2>2. B \cup {x} \in SUBSET before(z)
    BY <1>4, <1>5, <1>6, <1>9, <2>1 DEF before
  <2>3. Cardinality(B \cup {x}) = n + 1
    <3> HIDE DEF B
    <3> QED  BY <1>3, <1>4, FS_AddElement
  <2>4. Cardinality(B \cup {x}) <= Cardinality(before(z))
    BY <1>1, <2>2, FS_Subset
  <2> QED  BY <1>1, <2>3, <2>4
<1>11. Best(S, n + 1, R) = B \cup {x}
  <2>1. \A z \in S \ B : z # x => ~(Cardinality(before(z)) < n + 1)
    BY <1>1, <1>10
  <2>2. \A z \in B : Cardinality(before(z)) < n + 1
    BY <1>1, <1>2, <1>3
  <2>3. Cardinality(before(x)) < n + 1
    BY <1>9
  <2> QED  BY <1>2, <1>3, <1>4, <2>1, <2>2, <2>3
<1>12. Cardinality(B \cup {x}) = n + 1
  <2> HIDE DEF B
  <2> QED  BY <1>3, <1>4, FS_AddElement
<1> QED  BY <1>11, <1>12

LEMMA BestCount ==
    ASSUME NEW S, IsFiniteSet(S), NEW R, StrictOn(R, S), TotalOn(R, S), NEW n \in Nat
    PROVE  Cardinality(Best(S, n, R)) = IF n < Cardinality(S) THEN n ELSE Cardinality(S)
<1> DEFINE bad == {k \in 0..Cardinality(S) : Cardinality(Best(S, k, R)) # k}
<1>0. Cardinality(S) \in Nat
  BY FS_CardinalityType
<1>1. bad = {}
  <2> SUFFICES ASSUME bad # {} PROVE FALSE
    OBVIOUS
  <2>1. PICK k \in bad : \A j \in bad : k <= j
    <3>1. bad \in SUBSET Nat
      BY <1>0
    <3> HIDE DEF bad
    <3> QED  BY <3>1, LeastNumber
  <2>2. k # 0
    <3>1. \A x \in S : Cardinality({y \in S : <<y, x>> \in R}) \in Nat
      BY FS_Subset, FS_CardinalityType
    <3>2. Best(S, 0, R) = {}
      BY <3>1 DEF Best
    <3>3. Cardinality(Best(S, 0, R)) = 0
      BY <3>2, FS_EmptySet
    <3> QED  BY <3>3
  <2>3. k - 1 \in Nat /\ k - 1 < Cardinality(S) /\ k - 1 \notin bad /\ k \in Nat
    <3>1. k \in 0..Cardinality(S)
      OBVIOUS
    <3>2. k - 1 \in 0..Cardinality(S) /\ ~(k <= k - 1)
      BY <1>0, <2>2, <3>1
    <3> HIDE DEF bad
    <3> QED  BY <1>0, <2>1, <3>1, <3>2
  <2>4. Cardinality(Best(S, k - 1, R)) = k - 1
    BY <1>0, <2>3
  <2>5. Cardinality(Best(S, (k - 1) + 1, R)) = (k - 1) + 1
    <3> DEFINE m == k - 1
    <3>1. m \in Nat /\ m < Cardinality(S) /\ Cardinality(Best(S, m, R)) = m
      BY <2>3, <2>4
    <3> HIDE DEF m, bad
    <3>2. Cardinality(Best(S, m + 1, R)) = m + 1
      BY <3>1, BestOneMore
    <3> QED  BY <3>2 DEF m
  <2>6. (k - 1) + 1 = k
    BY <2>3
  <2>7. k \notin bad
    BY <2>5, <2>6
  <2> QED  BY <2>7
<1>2. \A k \in 0..Cardinality(S) : Cardinality(Best(S, k, R)) = k
  BY <1>1
<1>3. CASE n < Cardinality(S)
  BY <1>0, <1>2, <1>3
<1>4. CASE ~(n < Cardinality(S))
  <2>1. Best(S, Cardinality(S), R) = S
    <3>1. Best(S, Cardinality(S), R) \in SUBSET S
      BY DEF Best
    <3>2. Cardinality(Best(S, Cardinality(S), R)) = Cardinality(S)
      BY <1>0, <1>2
    <3> QED  BY <3>1, <3>2, FS_Subset
  <2>2. ASSUME NEW x \in S PROVE Cardinality({y \in S : <<y, x>> \in R}) < n
    <3>1. Cardinality({y \in S : <<y, x>> \in R}) < Cardinality(S)
      BY <2>1 DEF Best
    <3>2. Cardinality({y \in S : <<y, x>> \in R}) \in Nat
      BY FS_Subset, FS_CardinalityType
    <3> QED  BY <1>0, <1>4, <3>1, <3>2
  <2>3. Best(S, n, R) = S
    BY <2>2 DEF Best
  <2> QED  BY <1>4, <2>3
<1> QED  BY <1>3, <1>4

(* What is not among the best comes after all of them.                     *)
LEMMA BestFirst ==
    ASSUME NEW S, IsFiniteSet(S), NEW R, StrictOn(R, S), TotalOn(R, S), NEW n \in Nat,
           NEW x \in Best(S, n, R), NEW y \in S \ Best(S, n, R)
    PROVE  <<x, y>> \in R
<1> DEFINE before(z) == {w \in S : <<w, z>> \in R}
<1>1. x \in S /\ y \in S /\ x # y
  BY DEF Best
<1> SUFFICES ASSUME <<y, x>> \in R PROVE FALSE
  BY <1>1 DEF TotalOn
<1>2. \A z \in S : IsFiniteSet(before(z)) /\ Cardinality(before(z)) \in Nat
  BY FS_Subset, FS_CardinalityType
<1>3. before(y) \in SUBSET before(x)
  BY <1>1 DEF StrictOn
<1>4. Cardinality(before(x)) < n /\ ~(Cardinality(before(y)) < n)
  BY DEF Best
<1> HIDE DEF before
<1> QED  BY <1>1, <1>2, <1>3, <1>4, FS_Subset

-----------------------------------------------------------------------------
(* Exchanging elements for greater ones makes the total no less.           *)
LEMMA GreatestOf ==
    ASSUME NEW S, IsFiniteSet(S), S # {}, NEW f, Ints(f, S)
    PROVE  \E x \in S : \A y \in S : f[y] <= f[x]
<1> DEFINE P == {T \in SUBSET S : T = {} \/ \E x \in T : \A y \in T : f[y] <= f[x]}
<1>1. {} \in P
  OBVIOUS
<1>2. ASSUME NEW T \in P, NEW x \in S \ T PROVE T \cup {x} \in P
  <2>0. \A y \in T \cup {x} : f[y] \in Int
    BY DEF Ints
  <2>1. CASE T = {}
    BY <2>0, <2>1
  <2>2. CASE T # {}
    <3>1. PICK z \in T : \A y \in T : f[y] <= f[z]
      BY <2>2
    <3>2. CASE f[x] <= f[z]
      BY <3>1, <3>2
    <3>3. CASE ~(f[x] <= f[z])
      <4>1. \A y \in T \cup {x} : f[y] <= f[x]
        BY <2>0, <3>1, <3>3
      <4> QED  BY <4>1
    <3> QED  BY <3>2, <3>3
  <2> QED  BY <2>1, <2>2
<1>3. GrowsIn(P, S)
  BY <1>2 DEF GrowsIn
<1>4. P \in SUBSET (SUBSET S)
  OBVIOUS
<1>5. S \in P
  <2> HIDE DEF P
  <2> QED  BY <1>1, <1>3, <1>4, SetInduction
<1> QED  BY <1>5

Lower(f, A, T) == \A a \in A, t \in T : f[a] <= f[t]

LEMMA LowerTotal ==
    ASSUME NEW A, IsFiniteSet(A), NEW T, IsFiniteSet(T), Cardinality(A) = Cardinality(T),
           NEW f, Ints(f, A), Ints(f, T), Lower(f, A, T)
    PROVE  SumFunctionOnSet(f, A) <= SumFunctionOnSet(f, T)
<1>1. CASE A = {}
  <2>1. T = {}
    BY <1>1, FS_EmptySet
  <2> QED  BY <1>1, <2>1, SumEmpty
<1>2. CASE A # {}
  <2>1. PICK a \in A : \A y \in A : f[y] <= f[a]
    BY <1>2, GreatestOf
  <2> DEFINE c == f[a]
             g == [x \in A \cup T |-> c]
  <2>2. c \in Int /\ Ints(g, A) /\ Ints(g, T) /\ \A x \in A \cup T : g[x] = c
    BY DEF Ints
  <2>3. Below(f, g, A) /\ Below(g, f, T)
    BY <2>1 DEF Below, Lower
  <2> HIDE DEF c, g
  <2>4. SumFunctionOnSet(f, A) <= SumFunctionOnSet(g, A)
    BY <2>2, <2>3, SumInOrder
  <2>5. SumFunctionOnSet(g, T) <= SumFunctionOnSet(f, T)
    BY <2>2, <2>3, SumInOrder
  <2>6. SumFunctionOnSet(g, A) = SumFunctionOnSet(g, T)
    <3>1. SumFunctionOnSet(g, A) = Cardinality(A) * c
      BY <2>2, SumConstant
    <3>2. SumFunctionOnSet(g, T) = Cardinality(T) * c
      BY <2>2, SumConstant
    <3> QED  BY <3>1, <3>2
  <2>7. /\ SumFunctionOnSet(f, A) \in Int /\ SumFunctionOnSet(f, T) \in Int
        /\ SumFunctionOnSet(g, A) \in Int
    BY <2>2, SumInt
  <2> QED  BY <2>4, <2>5, <2>6, <2>7
<1> QED  BY <1>1, <1>2

LEMMA Exchange ==
    ASSUME NEW S, IsFiniteSet(S), NEW f, Ints(f, S), NEW A \in SUBSET S, NEW T \in SUBSET S,
           Cardinality(A) = Cardinality(T), Lower(f, A \ T, T \ A)
    PROVE  SumFunctionOnSet(f, A) <= SumFunctionOnSet(f, T)
<1> DEFINE C == A \cap T
<1>1. /\ IsFiniteSet(A) /\ IsFiniteSet(T) /\ IsFiniteSet(A \ T) /\ IsFiniteSet(T \ A)
      /\ Ints(f, A) /\ Ints(f, T) /\ Ints(f, A \ T) /\ Ints(f, T \ A)
  BY FS_Subset DEF Ints
<1>2. C \in SUBSET A /\ C \in SUBSET T /\ A \ C = A \ T /\ T \ C = T \ A
  OBVIOUS
<1>3. SumFunctionOnSet(f, A) = SumFunctionOnSet(f, C) + SumFunctionOnSet(f, A \ T)
  <2> HIDE DEF C
  <2> QED  BY <1>1, <1>2, SumOfParts
<1>4. SumFunctionOnSet(f, T) = SumFunctionOnSet(f, C) + SumFunctionOnSet(f, T \ A)
  <2> HIDE DEF C
  <2> QED  BY <1>1, <1>2, SumOfParts
<1>5. Cardinality(A \ T) = Cardinality(T \ A)
  <2>1. Cardinality(A \ T) = Cardinality(A) - Cardinality(A \cap T)
    BY <1>1, FS_Difference
  <2>2. Cardinality(T \ A) = Cardinality(T) - Cardinality(T \cap A)
    BY <1>1, FS_Difference
  <2>3. A \cap T = T \cap A
    OBVIOUS
  <2> QED  BY <2>1, <2>2, <2>3
<1>6. SumFunctionOnSet(f, A \ T) <= SumFunctionOnSet(f, T \ A)
  BY <1>1, <1>5, LowerTotal
<1>7. /\ SumFunctionOnSet(f, A \ T) \in Int /\ SumFunctionOnSet(f, T \ A) \in Int
      /\ SumFunctionOnSet(f, C) \in Int
  <2>1. IsFiniteSet(C) /\ Ints(f, C)
    BY <1>1, FS_Subset DEF Ints
  <2> QED  BY <1>1, <2>1, SumInt
<1> QED  BY <1>3, <1>4, <1>6, <1>7

(* A rule that takes the best n semesters takes the best total of n.       *)
LEMMA BestTotal ==
    ASSUME NEW S, IsFiniteSet(S), NEW R, StrictOn(R, S), TotalOn(R, S), NEW n \in Nat,
           NEW direction \in {"LOWER_IS_BETTER", "HIGHER_IS_BETTER"},
           \A s \in S : s.value \in Int,
           \A s, t \in S : <<s, t>> \in R => s.value = t.value \/ Better(s.value, t.value, direction)
    PROVE  BestAmong(Best(S, n, R), S, n, direction)
<1> DEFINE A == Best(S, n, R)
           size == IF n < Cardinality(S) THEN n ELSE Cardinality(S)
           f == [s \in S |-> s.value]
           total(T) == SumFunction([s \in T |-> s.value])
<1>1. Cardinality(A) = size
  BY BestCount
<1>2. A \in SUBSET S
  BY DEF Best
<1>3. ASSUME NEW T \in SUBSET S
      PROVE  total(T) = SumFunctionOnSet(f, T) /\ SumFunctionOnSet(f, T) \in Int
  <2> DEFINE g == [s \in T |-> s.value]
  <2>1. DOMAIN g = T /\ Ints(g, T) /\ Ints(f, T) /\ IsFiniteSet(T) /\ \A s \in T : g[s] = f[s]
    BY FS_Subset DEF Ints
  <2> HIDE DEF f
  <2>2. SumFunctionOnSet(g, T) = SumFunctionOnSet(f, T)
    <3> HIDE DEF g
    <3> QED  BY <2>1, SumSame
  <2>3. total(T) = SumFunctionOnSet(g, T)
    BY <2>1 DEF SumFunction
  <2> QED  BY <2>1, <2>2, <2>3, SumInt
<1>4. Ints(f, S)
  BY DEF Ints
<1>5. \A a \in A, t \in S \ A : <<a, t>> \in R
  <2> HIDE DEF A
  <2> QED  BY BestFirst DEF A
<1>6. \A a \in A, t \in S \ A : IF direction = "LOWER_IS_BETTER" THEN f[a] <= f[t] ELSE f[t] <= f[a]
  <2> SUFFICES ASSUME NEW a \in A, NEW t \in S \ A
               PROVE  IF direction = "LOWER_IS_BETTER" THEN a.value <= t.value ELSE t.value <= a.value
    BY <1>2
  <2>1. a \in S /\ t \in S /\ <<a, t>> \in R
    BY <1>2, <1>5
  <2>2. a.value = t.value \/ Better(a.value, t.value, direction)
    BY <2>1
  <2>3. a.value \in Int /\ t.value \in Int
    BY <2>1
  <2> HIDE DEF A
  <2> QED  BY <2>2, <2>3 DEF Better
<1> HIDE DEF f, A
<1>7. ASSUME NEW T \in kSubset(size, S)
      PROVE  IF direction = "LOWER_IS_BETTER" THEN total(A) <= total(T) ELSE total(A) >= total(T)
  <2>1. T \in SUBSET S /\ Cardinality(T) = Cardinality(A)
    BY <1>1 DEF kSubset
  <2>2. /\ total(A) = SumFunctionOnSet(f, A) /\ SumFunctionOnSet(f, A) \in Int
        /\ total(T) = SumFunctionOnSet(f, T) /\ SumFunctionOnSet(f, T) \in Int
    BY <1>2, <1>3, <2>1
  <2> HIDE DEF total, size
  <2>3. CASE direction = "LOWER_IS_BETTER"
    <3>1. Lower(f, A \ T, T \ A)
      BY <1>6, <2>1, <2>3 DEF Lower
    <3>2. SumFunctionOnSet(f, A) <= SumFunctionOnSet(f, T)
      BY <1>2, <1>4, <2>1, <3>1, Exchange
    <3> QED  BY <2>2, <2>3, <3>2
  <2>4. CASE direction # "LOWER_IS_BETTER"
    <3>1. Lower(f, T \ A, A \ T)
      BY <1>6, <2>1, <2>4 DEF Lower
    <3>2. SumFunctionOnSet(f, T) <= SumFunctionOnSet(f, A)
      BY <1>2, <1>4, <2>1, <3>1, Exchange
    <3> QED  BY <2>2, <2>4, <3>2
  <2> QED  BY <2>3, <2>4
<1> QED  BY <1>1, <1>7 DEF BestAmong, A

-----------------------------------------------------------------------------
(* The order of the records: by five numbers, one after the other.         *)
Keys == [1..5 -> Int]
LexBefore(k, l) == \E n \in 1..5 : k[n] < l[n] /\ \A m \in 1..(n - 1) : k[m] = l[m]

LEMMA LexOrder ==
    /\ \A k \in Keys : ~LexBefore(k, k)
    /\ \A k, l, m \in Keys : LexBefore(k, l) /\ LexBefore(l, m) => LexBefore(k, m)
    /\ \A k, l \in Keys : k # l => LexBefore(k, l) \/ LexBefore(l, k)
<1>1. \A k \in Keys : ~LexBefore(k, k)
  BY DEF Keys, LexBefore
<1>2. ASSUME NEW k \in Keys, NEW l \in Keys, NEW m \in Keys, LexBefore(k, l), LexBefore(l, m)
      PROVE  LexBefore(k, m)
  <2>1. PICK a \in 1..5 : k[a] < l[a] /\ \A i \in 1..(a - 1) : k[i] = l[i]
    BY <1>2 DEF LexBefore
  <2>2. PICK b \in 1..5 : l[b] < m[b] /\ \A i \in 1..(b - 1) : l[i] = m[i]
    BY <1>2 DEF LexBefore
  <2>3. CASE a <= b
    <3>1. k[a] < m[a] /\ \A i \in 1..(a - 1) : k[i] = m[i]
      BY <2>1, <2>2, <2>3 DEF Keys
    <3> QED  BY <3>1 DEF LexBefore
  <2>4. CASE b < a
    <3>1. k[b] < m[b] /\ \A i \in 1..(b - 1) : k[i] = m[i]
      BY <2>1, <2>2, <2>4 DEF Keys
    <3> QED  BY <3>1 DEF LexBefore
  <2> QED  BY <2>3, <2>4
<1>3. ASSUME NEW k \in Keys, NEW l \in Keys, k # l
      PROVE  LexBefore(k, l) \/ LexBefore(l, k)
  <2> DEFINE differ == {i \in 1..5 : k[i] # l[i]}
  <2>1. differ # {}
    BY <1>3 DEF Keys
  <2>2. differ \in SUBSET Nat
    OBVIOUS
  <2>3. PICK a \in differ : \A j \in differ : a <= j
    <3> HIDE DEF differ
    <3> QED  BY <2>1, <2>2, LeastNumber
  <2>4. a \in 1..5 /\ k[a] # l[a] /\ k[a] \in Int /\ l[a] \in Int
    BY DEF Keys
  <2>5. \A m \in 1..(a - 1) : k[m] = l[m]
    <3> SUFFICES ASSUME NEW m \in 1..(a - 1), k[m] # l[m] PROVE FALSE
      OBVIOUS
    <3>1. m \in differ /\ ~(a <= m)
      BY <2>4
    <3> HIDE DEF differ
    <3> QED  BY <2>3, <3>1
  <2> HIDE DEF differ
  <2> QED  BY <2>4, <2>5 DEF LexBefore
<1> QED  BY <1>1, <1>2, <1>3

KeyOf(r) == <<r.grade, r.semester, r.year, SourceOrder[r.source], r.id>>

(* The records a selection is made from, and semesters with their values.  *)
IsInput(r) == IsStored(r) /\ r.source \in SchoolSources
IsScored(s) == s.value \in Int /\ IsInput(s.record)
OfDifferentRecords(S) == \A s, t \in S : s.record.id = t.record.id => s = t

LEMMA SemestersOrdered ==
    ASSUME NEW S, \A s \in S : IsScored(s), OfDifferentRecords(S), NEW d,
           d.value_direction \in {"LOWER_IS_BETTER", "HIGHER_IS_BETTER"}
    PROVE  LET R == {p \in S \X S : RankedBefore(p[1], p[2], d)}
           IN  StrictOn(R, S) /\ TotalOn(R, S)
<1> DEFINE R == {p \in S \X S : RankedBefore(p[1], p[2], d)}
           key(s) == KeyOf(s.record)
           better(s, t) == Better(s.value, t.value, d.value_direction)
<1>1. \A s, t \in S : <<s, t>> \in R <=> better(s, t) \/ (s.value = t.value /\ LexBefore(key(s), key(t)))
  BY DEF RankedBefore, Earlier, LexBefore, KeyOf
<1>2. \A s \in S : s.value \in Int
  BY DEF IsScored
<1>3. \A s \in S : key(s) \in Keys /\ key(s)[5] = s.record.id
  BY DEF IsScored, IsInput, IsStored, KeyOf, Keys, SourceOrder, SchoolSources, Grades
<1>4. \A s, t \in S : key(s) = key(t) => s = t
  BY <1>3 DEF OfDifferentRecords
<1>5. /\ \A s \in S : ~better(s, s)
      /\ \A s, t, u \in S : better(s, t) /\ better(t, u) => better(s, u)
      /\ \A s, t \in S : s.value # t.value => better(s, t) \/ better(t, s)
      /\ \A s, t, u \in S : better(s, t) /\ t.value = u.value => better(s, u)
      /\ \A s, t, u \in S : s.value = t.value /\ better(t, u) => better(s, u)
  BY <1>2 DEF Better
<1> HIDE DEF R, key, better
<1>6. StrictOn(R, S)
  BY <1>1, <1>3, <1>5, LexOrder DEF StrictOn
<1>7. TotalOn(R, S)
  BY <1>1, <1>3, <1>4, <1>5, LexOrder DEF TotalOn
<1> QED  BY <1>6, <1>7 DEF R

-----------------------------------------------------------------------------
(* The values of courses and semesters are numbers.                        *)
LEMMA ImageFinite ==
    ASSUME NEW S, IsFiniteSet(S), NEW f
    PROVE  IsFiniteSet({f[x] : x \in S})
<1> DEFINE g == [x \in S |-> f[x]]
           T == {f[x] : x \in S}
<1>1. g \in Surjection(S, T)
  BY DEF Surjection
<1> HIDE DEF g
<1> QED  BY <1>1, FS_Surjection

LEMMA DivideInt ==
    ASSUME NEW a \in Int, NEW b \in Nat \ {0}
    PROVE  Divide(a, b) \in Int
BY DEF Divide

LEMMA QuantizeInt ==
    ASSUME NEW a \in Int, NEW b \in Nat \ {0}, NEW mode, NEW step \in Nat \ {0}
    PROVE  QuantizeRatio(a, b, mode, step) \in Int
<1> DEFINE m == IF a < 0 THEN -a ELSE a
           unit == b * step
           q == m \div unit
           r == 2 * (m % unit)
           away == \/ mode = "ROUND_HALF_UP" /\ r >= unit
                   \/ mode = "ROUND_HALF_EVEN" /\ (r > unit \/ (r = unit /\ q % 2 = 1))
                   \/ mode = "ROUND_UP" /\ r > 0
           n == (IF away THEN q + 1 ELSE q) * step
<1>1. unit \in Nat \ {0} /\ m \in Nat
  <2>1. \A x, y \in Nat \ {0} : x * y \in Nat \ {0}
    OBVIOUS
  <2> QED  BY <2>1
<1>2. q \in Int
  <2> HIDE DEF unit, m
  <2> QED  BY <1>1
<1>3. n \in Int
  <2>1. (IF away THEN q + 1 ELSE q) \in Int
    <3> HIDE DEF away, q
    <3> QED  BY <1>2
  <2> HIDE DEF away, q
  <2> QED  BY <2>1
<1>4. QuantizeRatio(a, b, mode, step) = IF a < 0 THEN -n ELSE n
  BY DEF QuantizeRatio
<1> HIDE DEF n
<1> QED  BY <1>3, <1>4

LEMMA AverageInt ==
    ASSUME NEW sum \in Int, NEW count \in Nat \ {0}, NEW rounding, IsRounding(rounding)
    PROVE  Average(sum, count, rounding) \in Int
BY DivideInt, QuantizeInt DEF Average, IsRounding, RoundingStep

(* A sum over finitely many courses, and one of counts above zero.         *)
LEMMA SumOverInt ==
    ASSUME NEW S, IsFiniteSet(S), NEW f, DOMAIN f = S, Ints(f, S)
    PROVE  SumFunction(f) \in Int
BY SumInt DEF SumFunction

LEMMA SumOverPositive ==
    ASSUME NEW S, IsFiniteSet(S), S # {}, NEW f, DOMAIN f = S, \A x \in S : f[x] \in Nat \ {0}
    PROVE  SumFunction(f) \in Nat \ {0}
<1> DEFINE g == [x \in S |-> 1]
<1>1. Ints(f, S) /\ Ints(g, S) /\ Below(g, f, S) /\ \A x \in S : g[x] = 1
  BY DEF Ints, Below
<1> HIDE DEF g
<1>2. SumFunctionOnSet(g, S) <= SumFunctionOnSet(f, S)
  BY <1>1, SumInOrder
<1>3. SumFunctionOnSet(g, S) = Cardinality(S) * 1
  BY <1>1, SumConstant
<1>4. Cardinality(S) \in Nat /\ Cardinality(S) # 0
  BY FS_CardinalityType, FS_EmptySet
<1>5. SumFunctionOnSet(f, S) \in Int
  BY <1>1, SumInt
<1> QED  BY <1>2, <1>3, <1>4, <1>5 DEF SumFunction

(* Every course that has a value has a number.                             *)
NumbersFor(courses, values) == \A c \in courses : c.id \in DOMAIN values => values[c.id].value \in Int

LEMMA ConvertedNumber ==
    ASSUME NEW z, NEW settings, NEW table, \A row \in table : row.value \in Int
    PROVE  ConvertZ(z, settings, table) \in Int \cup {None}
<1> DEFINE rows == {r \in table : r.table = settings.table /\ InInterval(r, AppliedZ(z, settings))}
           row == OnlyRow(rows)
<1>1. row = None \/ row \in table
  <2>1. CASE Cardinality(rows) = 1
    <3>1. rows # {}
      BY <2>1, FS_EmptySet
    <3>2. row = CHOOSE r \in rows : TRUE
      BY <2>1 DEF OnlyRow
    <3>3. row \in rows
      <4> HIDE DEF rows, row
      <4> QED  BY <3>1, <3>2
    <3> QED  BY <3>3
  <2>2. CASE Cardinality(rows) # 1
    BY <2>2 DEF OnlyRow
  <2> QED  BY <2>1, <2>2
<1>2. \/ ConvertZ(z, settings, table) = None
      \/ row # None /\ ConvertZ(z, settings, table) = row.value
  BY DEF ConvertZ
<1> HIDE DEF row
<1> QED  BY <1>1, <1>2

LEMMA ValuesAreNumbers ==
    ASSUME NEW given, NEW d, NEW table, \A row \in table : row.value \in Int,
           \A r \in given : \A c \in r.courses : IsCourse(c)
    PROVE  NumbersFor(UNION {r.courses : r \in given}, CourseValues(given, d, table))
<1> DEFINE all == UNION {r.courses : r \in given}
           valued == {c \in all : CourseValue(c, d, table) # None}
           of(id) == CHOOSE c \in valued : c.id = id
           values == CourseValues(given, d, table)
<1>1. \A c \in valued : CourseValue(c, d, table) \in Int
  BY ConvertedNumber DEF CourseValue, IsCourse
<1>2. DOMAIN values = {c.id : c \in valued}
  BY DEF CourseValues
<1>3. \A id \in DOMAIN values : values[id].value = CourseValue(of(id), d, table)
  BY DEF CourseValues
<1>4. \A id \in DOMAIN values : of(id) \in valued
  <2> HIDE DEF valued
  <2> QED  BY <1>2
<1> HIDE DEF valued, of, values
<1>5. \A id \in DOMAIN values : values[id].value \in Int
  BY <1>1, <1>3, <1>4
<1> QED  BY <1>5 DEF NumbersFor, values

LEMMA SemesterNumber ==
    ASSUME NEW courses, IsFiniteSet(courses), courses # {}, \A c \in courses : IsCourse(c),
           NEW d, IsSettings(d), d.credit_weighted # None, ~CreditMissing(courses, d),
           NEW values, \A c \in courses : values[c.id].value \in Int
    PROVE  SemesterValue(courses, d, values) \in Int
<1>1. IsRounding(d.semester_rounding)
  BY DEF IsSettings, IsRounding
<1>2. CASE d.credit_weighted = TRUE
  <2>1. \A c \in courses : c.credits \in Nat \ {0}
    BY <1>2 DEF CreditMissing, HasCredit, IsCourse
  <2>2. Credits(courses) \in Nat \ {0}
    <3> DEFINE f == [c \in courses |-> c.credits]
    <3>1. DOMAIN f = courses /\ \A c \in courses : f[c] \in Nat \ {0}
      BY <2>1
    <3> HIDE DEF f
    <3>2. SumFunction(f) \in Nat \ {0}
      BY <3>1, SumOverPositive
    <3> QED  BY <3>2 DEF Credits, f
  <2> DEFINE f == [c \in courses |-> values[c.id].value * c.credits]
  <2>3. DOMAIN f = courses /\ Ints(f, courses)
    BY <2>1 DEF Ints
  <2> HIDE DEF f
  <2>4. Average(SumFunction(f), Credits(courses), d.semester_rounding) \in Int
    BY <1>1, <2>2, <2>3, SumOverInt, AverageInt
  <2> QED  BY <1>2, <2>4 DEF SemesterValue, f
<1>3. CASE d.credit_weighted = FALSE
  <2> DEFINE f == [c \in courses |-> values[c.id].value]
  <2>1. DOMAIN f = courses /\ Ints(f, courses)
    BY DEF Ints
  <2>2. Cardinality(courses) \in Nat \ {0}
    BY FS_CardinalityType, FS_EmptySet
  <2> HIDE DEF f
  <2>3. Average(SumFunction(f), Cardinality(courses), d.semester_rounding) \in Int
    BY <1>1, <2>1, <2>2, SumOverInt, AverageInt
  <2> QED  BY <1>3, <2>3 DEF SemesterValue, f
<1> QED  BY <1>2, <1>3 DEF IsSettings

-----------------------------------------------------------------------------
(* What select_score_inputs reads is stored, and of the school.            *)
LEMMA InputsAreStored ==
    ASSUME NEW given, IsHistory(given), NEW policy
    PROVE  LET read == SelectInputs(given, policy).records
           IN  /\ IsFiniteSet(read) /\ \A r \in read : IsInput(r)
               /\ \A r, q \in read : r.id = q.id => r = q
<1> DEFINE stripped == [r \in given |-> [r EXCEPT !.courses = VerifiedCourses(r)]]
           kept == {r \in given : InScope(r, policy) /\ VerifiedCourses(r) # {}}
           read == SelectInputs(given, policy).records
<1>1. read \subseteq {stripped[r] : r \in kept}
  BY DEF SelectInputs
<1>2. IsFiniteSet(read)
  <2>1. IsFiniteSet(kept)
    BY FS_Subset DEF IsHistory
  <2> HIDE DEF kept, stripped, read
  <2>2. IsFiniteSet({stripped[r] : r \in kept})
    BY <2>1, ImageFinite
  <2> QED  BY <1>1, <2>2, FS_Subset
<1>3. \A r \in given :
        /\ stripped[r].id = r.id /\ stripped[r].year = r.year /\ stripped[r].grade = r.grade
        /\ stripped[r].semester = r.semester /\ stripped[r].source = r.source
        /\ stripped[r].training = r.training /\ stripped[r].verified = r.verified
        /\ stripped[r].courses = VerifiedCourses(r)
        /\ DOMAIN stripped[r] = DOMAIN r
        /\ stripped[r] = [f \in DOMAIN stripped[r] |-> stripped[r][f]]
  BY DEF IsHistory, IsStored, IsRecord
<1>4. \A r \in kept : r \in given /\ r.source \in SchoolSources
  BY DEF InScope
<1> HIDE DEF stripped, kept
<1>5. ASSUME NEW r \in kept PROVE IsInput(stripped[r])
  <2>1. r \in given /\ IsStored(r) /\ r.source \in SchoolSources
    BY <1>4 DEF IsHistory
  <2>2. IsFiniteSet(VerifiedCourses(r)) /\ \A c \in VerifiedCourses(r) : IsCourse(c)
    BY <2>1, FS_Subset DEF IsStored, VerifiedCourses
  <2>3. IsRecord(stripped[r], {"id", "year", "grade", "semester", "source", "training",
                               "verified", "courses"})
    BY <1>3, <2>1 DEF IsStored, IsRecord
  <2> QED  BY <1>3, <2>1, <2>2, <2>3 DEF IsInput, IsStored
<1>6. \A r, q \in kept : stripped[r].id = stripped[q].id => stripped[r] = stripped[q]
  <2> SUFFICES ASSUME NEW r \in kept, NEW q \in kept, stripped[r].id = stripped[q].id PROVE r = q
    OBVIOUS
  <2>1. r \in given /\ q \in given /\ r.id = q.id
    BY <1>3, <1>4
  <2> QED  BY <2>1 DEF IsHistory
<1> HIDE DEF read
<1> QED  BY <1>1, <1>2, <1>5, <1>6 DEF read

(* The semesters a selection can be made of have numbers as values, and    *)
(* each is of one record.                                                  *)
LEMMA ScoredAreNumbers ==
    ASSUME NEW given, IsFiniteSet(given), \A r \in given : IsInput(r),
           \A r, q \in given : r.id = q.id => r = q,
           NEW d, IsSettings(d), NEW values, ~ForReview(given, d, values),
           NumbersFor(UNION {r.courses : r \in given}, values)
    PROVE  LET scored == ScoredSemesters(given, d, values)
           IN  IsFiniteSet(scored) /\ OfDifferentRecords(scored) /\ \A s \in scored : IsScored(s)
<1> DEFINE courses(r) == SelectedCourses(r, d, values)
           take == {r \in Offered(given, d, values) : ~BelowMinimum(courses(r), d)}
           f == [r \in take |-> [record |-> [r EXCEPT !.courses = courses(r)],
                                 value |-> SemesterValue(courses(r), d, values)]]
           scored == ScoredSemesters(given, d, values)
<1>1. scored = {f[r] : r \in take}
  BY DEF ScoredSemesters
<1>2. take \in SUBSET given /\ take \in SUBSET Included(given, d)
  BY DEF Offered, Included
<1>3. IsFiniteSet(scored)
  <2> HIDE DEF take, f, scored
  <2>1. IsFiniteSet(take)
    BY <1>2, FS_Subset
  <2>2. IsFiniteSet({f[r] : r \in take})
    BY <2>1, ImageFinite
  <2> QED  BY <1>1, <2>2
<1>4. ASSUME NEW r \in take
      PROVE  /\ courses(r) \subseteq r.courses /\ courses(r) # {}
             /\ ~CreditMissing(courses(r), d) /\ d.credit_weighted # None
             /\ \A c \in r.courses : c.id \in DOMAIN values
  <2>1. r \in Offered(given, d, values) /\ ~BelowMinimum(courses(r), d)
    OBVIOUS
  <2>2. r \in Included(given, d) /\ courses(r) # {}
    BY DEF Offered
  <2>3. courses(r) \subseteq r.courses
    BY DEF SelectedCourses, Best
  <2> HIDE DEF courses, take
  <2>4. ~CreditMissing(SelectedCourses(r, d, values), d)
    BY <2>1 DEF ForReview
  <2>5. d.credit_weighted # None
    BY <2>1 DEF ForReview, courses
  <2>6. \A c \in r.courses : c.id \in DOMAIN values
    BY <2>2 DEF ForReview
  <2> QED  BY <2>2, <2>3, <2>4, <2>5, <2>6 DEF courses
<1>5. \A r \in take : IsInput(r)
  BY <1>2
<1> HIDE DEF courses, take
<1>6. ASSUME NEW r \in take
      PROVE  /\ f[r].value = SemesterValue(courses(r), d, values)
             /\ f[r].record = [r EXCEPT !.courses = courses(r)]
             /\ f[r].record.id = r.id
  BY <1>5 DEF IsInput, IsStored, IsRecord
<1>7. ASSUME NEW r \in take PROVE IsScored(f[r])
  <2>1. /\ IsFiniteSet(courses(r)) /\ \A c \in courses(r) : IsCourse(c)
        /\ IsInput(r)
    BY <1>4, <1>5, FS_Subset DEF IsInput, IsStored
  <2>2. \A c \in courses(r) : values[c.id].value \in Int
    BY <1>2, <1>4 DEF NumbersFor
  <2>3. SemesterValue(courses(r), d, values) \in Int
    BY <1>4, <2>1, <2>2, SemesterNumber
  <2> DEFINE q == [r EXCEPT !.courses = courses(r)]
  <2>4. /\ q.id = r.id /\ q.year = r.year /\ q.grade = r.grade /\ q.semester = r.semester
        /\ q.source = r.source /\ q.training = r.training /\ q.verified = r.verified
        /\ q.courses = courses(r) /\ DOMAIN q = DOMAIN r
        /\ q = [x \in DOMAIN q |-> q[x]]
    BY <2>1 DEF IsInput, IsStored, IsRecord
  <2> HIDE DEF q
  <2>5. IsRecord(q, {"id", "year", "grade", "semester", "source", "training", "verified", "courses"})
    BY <2>1, <2>4 DEF IsInput, IsStored, IsRecord
  <2>6. IsInput(q)
    BY <2>1, <2>4, <2>5 DEF IsInput, IsStored
  <2>7. f[r].value = SemesterValue(courses(r), d, values) /\ f[r].record = q
    BY <1>6 DEF q
  <2> HIDE DEF f
  <2> QED  BY <2>3, <2>6, <2>7 DEF IsScored
<1>8. \A r, q \in take : f[r].record.id = f[q].record.id => r = q
  <2> SUFFICES ASSUME NEW r \in take, NEW q \in take, f[r].record.id = f[q].record.id PROVE r = q
    OBVIOUS
  <2>1. r.id = q.id
    <3> HIDE DEF f
    <3> QED  BY <1>6
  <2> QED  BY <1>2, <2>1
<1> HIDE DEF f, scored
<1>9. OfDifferentRecords(scored)
  BY <1>1, <1>8 DEF OfDifferentRecords
<1> QED  BY <1>1, <1>3, <1>7, <1>9 DEF scored

(* The same rule that takes every semester takes the same ones to choose   *)
(* from.                                                                   *)
TakesAll(d) == [d EXCEPT !.semester_method = "ALL", !.semester_scope = "GLOBAL"]

LEMMA SameSettings ==
    ASSUME NEW d, IsSettings(d)
    PROVE  LET all == TakesAll(d)
           IN  /\ all.included = d.included /\ all.value_direction = d.value_direction
               /\ all.subject_method = d.subject_method
               /\ all.best_subject_count = d.best_subject_count
               /\ all.subject_scope = d.subject_scope
               /\ all.credit_weighted = d.credit_weighted
               /\ all.minimum_credits = d.minimum_credits
               /\ all.semester_rounding = d.semester_rounding
               /\ all.semester_method = "ALL" /\ all.semester_scope = "GLOBAL"
BY DEF IsSettings, IsRecord, TakesAll

LEMMA SameOffer ==
    ASSUME NEW given, NEW d, IsSettings(d), NEW values,
           d.semester_method # "MANUAL_REVIEW"
    PROVE  /\ ScoredSemesters(given, TakesAll(d), values) = ScoredSemesters(given, d, values)
           /\ ForReview(given, TakesAll(d), values) = ForReview(given, d, values)
<1> DEFINE all == TakesAll(d)
<1>1. /\ all.included = d.included /\ all.value_direction = d.value_direction
      /\ all.subject_method = d.subject_method
      /\ all.best_subject_count = d.best_subject_count
      /\ all.subject_scope = d.subject_scope
      /\ all.credit_weighted = d.credit_weighted
      /\ all.minimum_credits = d.minimum_credits
      /\ all.semester_rounding = d.semester_rounding
      /\ all.semester_method = "ALL"
  BY SameSettings
<1> HIDE DEF all
<1>2. \A r : SelectedCourses(r, all, values) = SelectedCourses(r, d, values)
  BY <1>1 DEF SelectedCourses, InSubjectScope
<1>3. Included(given, all) = Included(given, d)
  BY <1>1 DEF Included, Inclusion
<1>4. Offered(given, all, values) = Offered(given, d, values)
  BY <1>2, <1>3 DEF Offered
<1>5. Scales(given, all, values) = Scales(given, d, values)
  BY <1>1, <1>3 DEF Scales, InSubjectScope
<1>6. \A courses : /\ BelowMinimum(courses, all) = BelowMinimum(courses, d)
                   /\ CreditMissing(courses, all) = CreditMissing(courses, d)
                   /\ SemesterValue(courses, all, values) = SemesterValue(courses, d, values)
  BY <1>1 DEF BelowMinimum, CreditMissing, SemesterValue
<1>7. ScoredSemesters(given, all, values) = ScoredSemesters(given, d, values)
  BY <1>2, <1>4, <1>6 DEF ScoredSemesters
<1>8. ForReview(given, all, values) = ForReview(given, d, values)
  <2>1. \A r \in given : Inclusion(r, all) = Inclusion(r, d)
    BY <1>1 DEF Inclusion
  <2> QED  BY <1>1, <1>2, <1>3, <1>4, <1>5, <1>6, <2>1 DEF ForReview
<1> QED  BY <1>7, <1>8 DEF all

-----------------------------------------------------------------------------
LEMMA OrderOfPart ==
    ASSUME NEW S, NEW R, StrictOn(R, S), TotalOn(R, S), NEW T \in SUBSET S
    PROVE  StrictOn(R, T) /\ TotalOn(R, T)
BY DEF StrictOn, TotalOn

(* A ready selection of a task.                                            *)
Inputs(t) == SelectInputs(t.records, t.policy)
ValuesOf(t) == CourseValues(Inputs(t).records, t.d, t.table)
OfferTo(t) == ScoredSemesters(Inputs(t).records, t.d, ValuesOf(t))

LEMMA ReadySelection ==
    ASSUME NEW t, Selection(t).status = "READY"
    PROVE  /\ Inputs(t).status = "READY" /\ ValidPayload(t.d)
           /\ ~ForReview(Inputs(t).records, t.d, ValuesOf(t))
           /\ OfferTo(t) # {}
           /\ Selection(t).semesters = SelectSemesters(OfferTo(t), t.d)
<1>1. /\ Inputs(t).status = "READY" /\ ValidPayload(t.d)
      /\ Selection(t) = SelectTerms(Inputs(t), t.d, ValuesOf(t))
  BY DEF Selection, Unready, Inputs, ValuesOf
<1> QED  BY <1>1 DEF SelectTerms, OfferTo

LEMMA EligibleSemesters ==
    ASSUME NEW t, IsSettings(t.d), Selection(t).status = "READY",
           t.d.semester_method # "MANUAL_REVIEW"
    PROVE  Eligible(t).semesters = OfferTo(t)
<1> DEFINE all == TakesAll(t.d)
<1>1. Eligible(t) = SelectTerms(Inputs(t), all, ValuesOf(t))
  BY DEF Eligible, Inputs, ValuesOf, TakesAll
<1>2. /\ Inputs(t).status = "READY"
      /\ ~ForReview(Inputs(t).records, all, ValuesOf(t))
      /\ ScoredSemesters(Inputs(t).records, all, ValuesOf(t)) = OfferTo(t)
      /\ OfferTo(t) # {}
  BY ReadySelection, SameOffer DEF OfferTo
<1>3. all.semester_method = "ALL"
  BY SameSettings
<1> HIDE DEF all
<1>4. Eligible(t).semesters = SelectSemesters(OfferTo(t), all)
  BY <1>1, <1>2 DEF SelectTerms
<1> QED  BY <1>3, <1>4 DEF SelectSemesters

LEMMA BestOfTask ==
    ASSUME NEW t \in Tasks, t.kind = "SCORE", Selection(t).status = "READY",
           t.d.semester_method = "BEST_N"
    PROVE  LET chosen == Selection(t).semesters
               offered == Eligible(t).semesters
               of(S, g) == {s \in S : s.record.grade = g}
               n == t.d.best_semester_count
           IN  IF t.d.semester_scope = "GLOBAL" THEN BestAmong(chosen, offered, n, t.d.value_direction)
               ELSE \A g \in Grades : BestAmong(of(chosen, g), of(offered, g), n, t.d.value_direction)
<1> DEFINE d == t.d
           n == d.best_semester_count
           S == OfferTo(t)
           R == {p \in S \X S : RankedBefore(p[1], p[2], d)}
           of(T, g) == {s \in T : s.record.grade = g}
<1>1. IsHistory(t.records) /\ IsSettings(t.d) /\ \A row \in t.table : row.value \in Int
  BY TasksAssumption
<1>2. Eligible(t).semesters = S
  BY <1>1, EligibleSemesters
<1>3. /\ ValidPayload(d) /\ ~ForReview(Inputs(t).records, d, ValuesOf(t))
      /\ Selection(t).semesters = SelectSemesters(S, d)
  BY ReadySelection
<1>4. n \in Nat
  <2>1. n # None /\ (n # None => n > 0) /\ n \in Int \cup {None}
    BY <1>1, <1>3 DEF ValidPayload, ValidCount, IsSettings
  <2> HIDE DEF n
  <2> QED  BY <2>1
<1>5. IsFiniteSet(S) /\ OfDifferentRecords(S) /\ \A s \in S : IsScored(s)
  <2> DEFINE given == Inputs(t).records
  <2>1. /\ IsFiniteSet(given) /\ \A r \in given : IsInput(r)
        /\ \A r, q \in given : r.id = q.id => r = q
    BY <1>1, InputsAreStored DEF Inputs
  <2> HIDE DEF given
  <2>2. NumbersFor(UNION {r.courses : r \in given}, CourseValues(given, d, t.table))
    <3>1. \A r \in given : \A c \in r.courses : IsCourse(c)
      BY <2>1 DEF IsInput, IsStored
    <3> QED  BY <1>1, <3>1, ValuesAreNumbers
  <2>3. NumbersFor(UNION {r.courses : r \in given}, ValuesOf(t))
    BY <2>2 DEF ValuesOf, given
  <2>4. ~ForReview(given, d, ValuesOf(t))
    BY <1>3 DEF given
  <2>5. LET scored == ScoredSemesters(given, d, ValuesOf(t))
        IN  IsFiniteSet(scored) /\ OfDifferentRecords(scored) /\ \A s \in scored : IsScored(s)
    <3> HIDE DEF d
    <3>1. IsSettings(d)
      BY <1>1 DEF d
    <3> QED  BY <2>1, <2>3, <2>4, <3>1, ScoredAreNumbers
  <2> QED  BY <2>5 DEF OfferTo, given
<1>6. d.value_direction \in {"LOWER_IS_BETTER", "HIGHER_IS_BETTER"}
  BY <1>1 DEF IsSettings
<1> HIDE DEF S, d, n
<1>7. StrictOn(R, S) /\ TotalOn(R, S)
  BY <1>5, <1>6, SemestersOrdered
<1>8. \A s \in S : s.value \in Int
  BY <1>5 DEF IsScored
<1>9. \A s, u \in S : <<s, u>> \in R => s.value = u.value \/ Better(s.value, u.value, d.value_direction)
  BY DEF RankedBefore
<1>10. ASSUME NEW T \in SUBSET S
       PROVE  BestAmong(Best(T, n, R), T, n, d.value_direction)
  <2>1. IsFiniteSet(T) /\ StrictOn(R, T) /\ TotalOn(R, T)
    <3> HIDE DEF R
    <3> QED  BY <1>5, <1>7, FS_Subset, OrderOfPart
  <2> HIDE DEF R
  <2>2. \A s \in T : s.value \in Int
    BY <1>8
  <2>3. \A s, u \in T : <<s, u>> \in R => s.value = u.value \/ Better(s.value, u.value, d.value_direction)
    BY <1>9
  <2> QED  BY <1>4, <1>6, <2>1, <2>2, <2>3, BestTotal
<1>11. CASE d.semester_scope = "GLOBAL"
  <2>1. SelectSemesters(S, d) = Best(S, n, R)
    BY <1>11 DEF SelectSemesters, d, n
  <2>2. BestAmong(Best(S, n, R), S, n, d.value_direction)
    <3> HIDE DEF R
    <3> QED  BY <1>10
  <2>3. BestAmong(Selection(t).semesters, Eligible(t).semesters, n, d.value_direction)
    BY <1>2, <1>3, <2>1, <2>2
  <2> QED  BY <1>11, <2>3 DEF d, n
<1>12. CASE d.semester_scope = "PER_GRADE"
  <2>1. SelectSemesters(S, d) = UNION {Best(of(S, g), n, R) : g \in Grades}
    BY <1>12 DEF SelectSemesters, d, n
  <2>2. ASSUME NEW g \in Grades PROVE of(SelectSemesters(S, d), g) = Best(of(S, g), n, R)
    <3>1. \A k \in Grades : \A s \in Best(of(S, k), n, R) : s.record.grade = k
      BY DEF Best
    <3> DEFINE taken == [k \in Grades |-> Best(of(S, k), n, R)]
    <3>2. /\ \A k \in Grades : \A s \in taken[k] : s.record.grade = k
          /\ SelectSemesters(S, d) = UNION {taken[k] : k \in Grades}
      BY <2>1, <3>1
    <3>3. {s \in UNION {taken[k] : k \in Grades} : s.record.grade = g} = taken[g]
      <4> HIDE DEF taken
      <4> QED  BY <3>2
    <3> QED  BY <3>2, <3>3
  <2>3. ASSUME NEW g \in Grades
        PROVE  BestAmong(of(SelectSemesters(S, d), g), of(S, g), n, d.value_direction)
    <3> HIDE DEF R
    <3>1. BestAmong(Best(of(S, g), n, R), of(S, g), n, d.value_direction)
      BY <1>10
    <3> QED  BY <2>2, <3>1
  <2>4. \A g \in Grades : BestAmong(of(Selection(t).semesters, g), of(Eligible(t).semesters, g), n,
                                    d.value_direction)
    BY <1>2, <1>3, <2>3
  <2> QED  BY <1>12, <2>4 DEF d, n
<1> QED  BY <1>1, <1>11, <1>12 DEF IsSettings, d

(* A rule that takes the best semesters takes, of the records a student    *)
(* has, the best total there is: globally or in every grade, whatever the  *)
(* records, the roundings and the ties are.                                *)
THEOREM SelectionBest == SpecBatch => []SelectionOptimal
<1>1. TaskInv => SelectionOptimal
  BY BestOfTask DEF TaskInv, SelectionOptimal, Scored
<1> QED  BY <1>1, TasksSound, PTL

-----------------------------------------------------------------------------
(* Averages.  Rounding moves one by less than the weight of the last digit *)
(* kept, and the nearest whole number not at all past a whole number.      *)
LEMMA TimesOrder ==
    ASSUME NEW x \in Int, NEW y \in Int, NEW b \in Nat \ {0}
    PROVE  x < y <=> b * x < b * y
<1>1. \A k \in Nat \ {0} : b * k > 0
  OBVIOUS
<1>2. ASSUME NEW u \in Int, NEW v \in Int, u < v PROVE b * u < b * v
  <2>1. v - u \in Nat \ {0}
    BY <1>2
  <2>2. b * (v - u) > 0
    BY <1>1, <2>1
  <2>3. b * (v - u) = b * v - b * u
    OBVIOUS
  <2> QED  BY <2>2, <2>3
<1>3. CASE x < y
  BY <1>2, <1>3
<1>4. CASE x = y
  BY <1>4
<1>5. CASE y < x
  BY <1>2, <1>5
<1> QED  BY <1>3, <1>4, <1>5

LEMMA DivideBetween ==
    ASSUME NEW a \in Int, NEW b \in Nat \ {0}, NEW low \in Int, NEW high \in Int,
           b * low <= a, a <= b * high
    PROVE  low <= Divide(a, b) /\ Divide(a, b) <= high
<1> DEFINE q == a \div b
           rest == a % b
<1>1. q \in Int /\ rest \in Int /\ 0 <= rest /\ rest < b /\ a = b * q + rest
  OBVIOUS
<1>2. Divide(a, b) = IF 2 * rest > b \/ (2 * rest = b /\ q % 2 = 1) THEN q + 1 ELSE q
  BY DEF Divide
<1> HIDE DEF q, rest
<1>3. low <= q
  <2>1. b * (q + 1) = b * q + b
    BY <1>1
  <2>2. b * low < b * (q + 1)
    BY <1>1, <2>1
  <2>3. low < q + 1
    BY <1>1, <2>2, TimesOrder
  <2> QED  BY <1>1, <2>3
<1>4. q <= high
  <2>1. ~(b * high < b * q)
    BY <1>1
  <2>2. ~(high < q)
    BY <1>1, <2>1, TimesOrder
  <2> QED  BY <1>1, <2>2
<1>5. q = high => rest = 0
  BY <1>1
<1>6. CASE q = high
  <2>1. ~(2 * rest > b) /\ 2 * rest # b
    BY <1>1, <1>5, <1>6
  <2> QED  BY <1>1, <1>2, <1>3, <1>6, <2>1
<1>7. CASE q < high
  BY <1>1, <1>2, <1>3, <1>7
<1> QED  BY <1>1, <1>4, <1>6, <1>7

LEMMA QuantizeBetween ==
    ASSUME NEW a \in Nat, NEW b \in Nat \ {0}, NEW mode, NEW step \in Nat \ {0},
           NEW low \in Int, NEW high \in Int, b * low <= a, a <= b * high
    PROVE  /\ low - step <= QuantizeRatio(a, b, mode, step)
           /\ QuantizeRatio(a, b, mode, step) <= high + step
<1> DEFINE unit == b * step
           q == a \div unit
           r == 2 * (a % unit)
           away == \/ mode = "ROUND_HALF_UP" /\ r >= unit
                   \/ mode = "ROUND_HALF_EVEN" /\ (r > unit \/ (r = unit /\ q % 2 = 1))
                   \/ mode = "ROUND_UP" /\ r > 0
           n == (IF away THEN q + 1 ELSE q) * step
<1>1. QuantizeRatio(a, b, mode, step) = n
  BY DEF QuantizeRatio
<1>2. unit \in Nat \ {0}
  <2>1. \A x, y \in Nat \ {0} : x * y \in Nat \ {0}
    OBVIOUS
  <2> QED  BY <2>1
<1>3. q \in Int /\ unit * q <= a /\ a < unit * q + unit
  <2> HIDE DEF unit
  <2> QED  BY <1>2
<1>4. n = q * step \/ n = (q + 1) * step
  <2> HIDE DEF away, q
  <2> QED  OBVIOUS
<1> HIDE DEF q, away, n
<1>5. (q + 1) * step = q * step + step /\ q * step \in Int
  BY <1>3
<1>6. b * (q * step) = unit * q /\ b * (q * step + step) = unit * q + unit
  BY <1>3
<1> HIDE DEF unit
<1>7. low < q * step + step
  <2>1. b * low < b * (q * step + step)
    BY <1>2, <1>3, <1>6
  <2> DEFINE m == q * step + step
  <2>2. m \in Int /\ b * low < b * m
    BY <1>5, <2>1
  <2> HIDE DEF m
  <2>3. low < m
    BY <2>2, TimesOrder
  <2> QED  BY <2>3 DEF m
<1>8. ~(high < q * step)
  <2> DEFINE m == q * step
  <2>1. m \in Int /\ ~(b * high < b * m)
    BY <1>2, <1>3, <1>5, <1>6
  <2> HIDE DEF m
  <2>2. ~(high < m)
    BY <2>1, TimesOrder
  <2> QED  BY <2>2 DEF m
<1> DEFINE m == q * step
<1>9. m \in Int /\ low < m + step /\ ~(high < m) /\ (n = m \/ n = m + step)
  BY <1>4, <1>5, <1>7, <1>8
<1> HIDE DEF m
<1> QED  BY <1>1, <1>9

LEMMA AverageBetween ==
    ASSUME NEW sum \in Nat, NEW count \in Nat \ {0}, NEW rounding, IsRounding(rounding),
           NEW low \in Int, NEW high \in Int, count * low <= sum, sum <= count * high
    PROVE  /\ low - RoundingStep(rounding) <= Average(sum, count, rounding)
           /\ Average(sum, count, rounding) <= high + RoundingStep(rounding)
<1>1. CASE rounding = None
  <2>0. sum \in Int
    OBVIOUS
  <2>1. low <= Divide(sum, count) /\ Divide(sum, count) <= high
    BY <2>0, DivideBetween
  <2>2. Divide(sum, count) \in Int
    BY <2>0, DivideInt
  <2> QED  BY <1>1, <2>1, <2>2 DEF Average, RoundingStep
<1>2. CASE rounding # None
  <2>1. Step(Unit, rounding.digits) \in Nat \ {0}
    BY <1>2 DEF IsRounding, RoundingStep
  <2> QED  BY <1>2, <2>1, QuantizeBetween DEF Average, RoundingStep
<1> QED  BY <1>1, <1>2

-----------------------------------------------------------------------------
(* Sums of products, of groups and of renamed elements.                    *)
LEMMA SumScaled ==
    ASSUME NEW S, IsFiniteSet(S), NEW f, Ints(f, S), NEW c \in Int, NEW g,
           \A x \in S : g[x] = c * f[x]
    PROVE  SumFunctionOnSet(g, S) = c * SumFunctionOnSet(f, S)
<1> DEFINE P == {T \in SUBSET S : SumFunctionOnSet(g, T) = c * SumFunctionOnSet(f, T)}
<1>0. Ints(g, S)
  BY DEF Ints
<1>1. {} \in P
  BY SumEmpty
<1>2. ASSUME NEW T \in P, NEW x \in S \ T PROVE T \cup {x} \in P
  <2>1. SumFunctionOnSet(g, T \cup {x}) = SumFunctionOnSet(g, T) + g[x]
    BY <1>0, SumAdd
  <2>2. /\ SumFunctionOnSet(f, T \cup {x}) = SumFunctionOnSet(f, T) + f[x]
        /\ SumFunctionOnSet(f, T) \in Int /\ f[x] \in Int
    BY SumAdd
  <2>3. \A u, v \in Int : c * (u + v) = c * u + c * v
    OBVIOUS
  <2> QED  BY <2>1, <2>2, <2>3
<1>3. GrowsIn(P, S)
  BY <1>2 DEF GrowsIn
<1>4. P \in SUBSET (SUBSET S)
  OBVIOUS
<1>5. S \in P
  <2> HIDE DEF P
  <2> QED  BY <1>1, <1>3, <1>4, SetInduction
<1> QED  BY <1>5

(* With weights that are not negative, a weighted sum lies between the     *)
(* least and the greatest value, as often as the weights say.              *)
LEMMA WeightedBetween ==
    ASSUME NEW S, IsFiniteSet(S), NEW w, \A x \in S : w[x] \in Nat,
           NEW low \in Int, NEW high \in Int, NEW f,
           \A x \in S : \E v \in Int : low <= v /\ v <= high /\ f[x] = v * w[x]
    PROVE  LET total == SumFunctionOnSet(w, S)
           IN  /\ total \in Int /\ SumFunctionOnSet(f, S) \in Int
               /\ total * low <= SumFunctionOnSet(f, S) /\ SumFunctionOnSet(f, S) <= total * high
<1> DEFINE l == [x \in S |-> low * w[x]]
           h == [x \in S |-> high * w[x]]
<1>1. ASSUME NEW x \in S PROVE f[x] \in Int /\ low * w[x] <= f[x] /\ f[x] <= high * w[x]
  <2>1. PICK v \in Int : low <= v /\ v <= high /\ f[x] = v * w[x]
    OBVIOUS
  <2>2. PICK k \in Nat : k = w[x]
    OBVIOUS
  <2>3. ASSUME NEW u \in Int, NEW t \in Int, u <= t PROVE u * k <= t * k
    <3>1. t - u \in Nat
      BY <2>3
    <3>2. (t - u) * k >= 0
      BY <3>1
    <3>3. (t - u) * k = t * k - u * k
      OBVIOUS
    <3> QED  BY <3>2, <3>3
  <2> QED  BY <2>1, <2>2, <2>3
<1>2. Ints(w, S) /\ Ints(f, S) /\ Ints(l, S) /\ Ints(h, S) /\ Below(l, f, S) /\ Below(f, h, S)
  BY <1>1 DEF Ints, Below
<1>3. \A x \in S : l[x] = low * w[x] /\ h[x] = high * w[x]
  OBVIOUS
<1> HIDE DEF l, h
<1>4. SumFunctionOnSet(l, S) <= SumFunctionOnSet(f, S)
  BY <1>2, SumInOrder
<1>5. SumFunctionOnSet(f, S) <= SumFunctionOnSet(h, S)
  BY <1>2, SumInOrder
<1>6. SumFunctionOnSet(l, S) = low * SumFunctionOnSet(w, S)
  BY <1>2, <1>3, SumScaled
<1>7. SumFunctionOnSet(h, S) = high * SumFunctionOnSet(w, S)
  BY <1>2, <1>3, SumScaled
<1>8. SumFunctionOnSet(w, S) \in Int /\ SumFunctionOnSet(f, S) \in Int
  BY <1>2, SumInt
<1> QED  BY <1>4, <1>5, <1>6, <1>7, <1>8

(* A sum is the sum of its groups.                                         *)
Image(h, S) == {h[x] : x \in S}
Group(h, S, y) == {x \in S : h[x] = y}

LEMMA SumOfGroups ==
    ASSUME NEW S, IsFiniteSet(S), NEW h, NEW f, Ints(f, S), NEW g,
           \A y \in Image(h, S) : g[y] = SumFunctionOnSet(f, Group(h, S, y))
    PROVE  SumFunctionOnSet(f, S) = SumFunctionOnSet(g, Image(h, S))
<1> DEFINE I == Image(h, S)
           in(K) == {x \in S : h[x] \in K}
           P == {K \in SUBSET I : SumFunctionOnSet(f, in(K)) = SumFunctionOnSet(g, K)}
<1>0. IsFiniteSet(I) /\ \A T \in SUBSET S : IsFiniteSet(T) /\ Ints(f, T)
  BY ImageFinite, FS_Subset DEF Image, Ints
<1>1. Ints(g, I)
  <2>1. \A y \in I : Group(h, S, y) \in SUBSET S
    BY DEF Group
  <2>2. \A y \in I : SumFunctionOnSet(f, Group(h, S, y)) \in Int
    <3> HIDE DEF I
    <3> QED  BY <1>0, <2>1, SumInt
  <2> QED  BY <2>2 DEF Ints
<1>2. {} \in P
  <2>1. in({}) = {}
    OBVIOUS
  <2> QED  BY <2>1, SumEmpty
<1>3. ASSUME NEW K \in P, NEW y \in I \ K PROVE K \cup {y} \in P
  <2> DEFINE A == in(K)
             B == in(K \cup {y})
  <2>1. A \in SUBSET B /\ B \in SUBSET S /\ B \ A = Group(h, S, y)
    BY DEF Group
  <2>2. SumFunctionOnSet(f, B) = SumFunctionOnSet(f, A) + SumFunctionOnSet(f, Group(h, S, y))
    <3>1. IsFiniteSet(B) /\ Ints(f, B)
      BY <1>0, <2>1
    <3> HIDE DEF A, B
    <3>2. SumFunctionOnSet(f, B) = SumFunctionOnSet(f, A) + SumFunctionOnSet(f, B \ A)
      BY <2>1, <3>1, SumOfParts
    <3> QED  BY <2>1, <3>2
  <2>3. SumFunctionOnSet(g, K \cup {y}) = SumFunctionOnSet(g, K) + g[y]
    <3> HIDE DEF I
    <3> QED  BY <1>0, <1>1, SumAdd
  <2>4. SumFunctionOnSet(f, A) = SumFunctionOnSet(g, K) /\ g[y] = SumFunctionOnSet(f, Group(h, S, y))
    OBVIOUS
  <2>5. SumFunctionOnSet(f, B) = SumFunctionOnSet(g, K \cup {y})
    BY <2>2, <2>3, <2>4
  <2> QED  BY <2>5
<1>4. GrowsIn(P, I)
  BY <1>3 DEF GrowsIn
<1>5. P \in SUBSET (SUBSET I)
  OBVIOUS
<1>6. I \in P
  <2> HIDE DEF P, I
  <2> QED  BY <1>0, <1>2, <1>4, <1>5, SetInduction
<1>7. in(I) = S
  BY DEF Image
<1> QED  BY <1>6, <1>7

LEMMA SumRenamed ==
    ASSUME NEW S, IsFiniteSet(S), NEW h, \A x, y \in S : h[x] = h[y] => x = y,
           NEW g, Ints(g, Image(h, S)), NEW f, \A x \in S : f[x] = g[h[x]]
    PROVE  SumFunctionOnSet(f, S) = SumFunctionOnSet(g, Image(h, S))
<1>1. Ints(f, S)
  BY DEF Ints, Image
<1>2. ASSUME NEW y \in Image(h, S)
      PROVE  g[y] = SumFunctionOnSet(f, Group(h, S, y))
  <2>1. PICK x \in S : y = h[x]
    BY DEF Image
  <2>2. Group(h, S, y) = {x}
    BY <2>1 DEF Group
  <2>3. IsFiniteSet({x}) /\ Ints(f, {x}) /\ f[x] \in Int
    BY <1>1, FS_Singleton DEF Ints
  <2>4. SumFunctionOnSet(f, {x}) = f[x] + SumFunctionOnSet(f, {x} \ {x})
    BY <2>3, SumRemove DEF Removable
  <2>5. {x} \ {x} = {}
    OBVIOUS
  <2> QED  BY <2>1, <2>2, <2>3, <2>4, <2>5, SumEmpty
<1> QED  BY <1>1, <1>2, SumOfGroups

-----------------------------------------------------------------------------
(* An average lies between two of the values it is made from.              *)
LEMMA LeastOf ==
    ASSUME NEW S, IsFiniteSet(S), S # {}, NEW f, Ints(f, S)
    PROVE  \E x \in S : \A y \in S : f[x] <= f[y]
<1> DEFINE g == [x \in S |-> -f[x]]
<1>1. Ints(g, S) /\ \A x \in S : g[x] = -f[x] /\ f[x] \in Int
  BY DEF Ints
<1> HIDE DEF g
<1>2. PICK x \in S : \A y \in S : g[y] <= g[x]
  BY <1>1, GreatestOf
<1>3. ASSUME NEW y \in S PROVE f[x] <= f[y]
  <2>1. g[y] <= g[x] /\ g[y] = -f[y] /\ g[x] = -f[x] /\ f[x] \in Int /\ f[y] \in Int
    BY <1>1, <1>2
  <2> QED  BY <2>1
<1> QED  BY <1>3

LEMMA RoundingStepNat ==
    ASSUME NEW rounding, IsRounding(rounding)
    PROVE  RoundingStep(rounding) \in Nat
BY DEF IsRounding, RoundingStep

LEMMA PositiveTotal ==
    ASSUME NEW S, IsFiniteSet(S), S # {}, NEW w, \A x \in S : w[x] \in Nat \ {0}
    PROVE  SumFunctionOnSet(w, S) \in Nat \ {0}
<1> DEFINE g == [x \in S |-> w[x]]
<1>1. DOMAIN g = S /\ Ints(g, S) /\ \A x \in S : g[x] \in Nat \ {0} /\ g[x] = w[x]
  BY DEF Ints
<1> HIDE DEF g
<1>2. SumFunction(g) \in Nat \ {0}
  BY <1>1, SumOverPositive
<1>3. SumFunctionOnSet(g, S) = SumFunctionOnSet(w, S)
  BY <1>1, SumSame
<1> QED  BY <1>1, <1>2, <1>3 DEF SumFunction

LEMMA AverageWithin ==
    ASSUME NEW S, IsFiniteSet(S), S # {}, NEW v, NEW w, NEW f, NEW rounding, IsRounding(rounding),
           \A x \in S : v[x] \in Nat /\ w[x] \in Nat \ {0} /\ f[x] = v[x] * w[x]
    PROVE  LET average == Average(SumFunctionOnSet(f, S), SumFunctionOnSet(w, S), rounding)
           IN  /\ average \in Int
               /\ \E x \in S : v[x] - RoundingStep(rounding) <= average
               /\ \E x \in S : average <= v[x] + RoundingStep(rounding)
<1> DEFINE sum == SumFunctionOnSet(f, S)
           count == SumFunctionOnSet(w, S)
<1>1. Ints(v, S)
  BY DEF Ints
<1>2. PICK a \in S : \A x \in S : v[a] <= v[x]
  BY <1>1, LeastOf
<1>3. PICK b \in S : \A x \in S : v[x] <= v[b]
  BY <1>1, GreatestOf
<1>4. v[a] \in Nat /\ v[b] \in Nat
  OBVIOUS
<1>5. count \in Int /\ sum \in Int /\ count * v[a] <= sum /\ sum <= count * v[b]
  <2>1. \A x \in S : w[x] \in Nat
    OBVIOUS
  <2>2. PICK low \in Int, high \in Int : low = v[a] /\ high = v[b]
    BY <1>4
  <2>3. \A x \in S : \E k \in Int : low <= k /\ k <= high /\ f[x] = k * w[x]
    BY <1>2, <1>3, <2>2
  <2>4. /\ SumFunctionOnSet(w, S) \in Int /\ SumFunctionOnSet(f, S) \in Int
        /\ SumFunctionOnSet(w, S) * low <= SumFunctionOnSet(f, S)
        /\ SumFunctionOnSet(f, S) <= SumFunctionOnSet(w, S) * high
    BY <2>1, <2>3, WeightedBetween
  <2> QED  BY <2>2, <2>4
<1>6. count \in Nat \ {0}
  BY PositiveTotal
<1> HIDE DEF sum, count
<1>7. sum \in Nat
  <2>1. \A k, m \in Nat : k * m >= 0
    OBVIOUS
  <2>2. count * v[a] >= 0
    BY <1>4, <1>6, <2>1
  <2>3. count * v[a] \in Int
    BY <1>4, <1>6
  <2> QED  BY <1>5, <2>2, <2>3
<1>8. /\ v[a] - RoundingStep(rounding) <= Average(sum, count, rounding)
      /\ Average(sum, count, rounding) <= v[b] + RoundingStep(rounding)
  BY <1>4, <1>5, <1>6, <1>7, AverageBetween
<1>9. Average(sum, count, rounding) \in Int
  BY <1>5, <1>6, AverageInt
<1> QED  BY <1>8, <1>9 DEF sum, count

(* The value of a semester is an average of ranks, weighted by credits or  *)
(* not.                                                                    *)
LEMMA SemesterIsAverage ==
    ASSUME NEW courses, IsFiniteSet(courses), courses # {}, \A c \in courses : IsCourse(c),
           NEW d, IsSettings(d), d.credit_weighted # None, ~CreditMissing(courses, d), NEW values,
           \A c \in courses : c.rank \in Nat /\ values[c.id].value = c.rank
    PROVE  \E f, w :
             /\ SemesterValue(courses, d, values)
                  = Average(SumFunctionOnSet(f, courses), SumFunctionOnSet(w, courses), d.semester_rounding)
             /\ \A c \in courses : w[c] \in Nat \ {0} /\ f[c] = c.rank * w[c]
<1>1. CASE d.credit_weighted = TRUE
  <2> DEFINE w == [c \in courses |-> c.credits]
             f == [c \in courses |-> values[c.id].value * c.credits]
  <2>1. \A c \in courses : c.credits \in Nat \ {0}
    BY <1>1 DEF CreditMissing, HasCredit, IsCourse
  <2>2. \A c \in courses : w[c] \in Nat \ {0} /\ f[c] = c.rank * w[c]
    BY <2>1
  <2>3. DOMAIN w = courses /\ DOMAIN f = courses
    OBVIOUS
  <2>4. SemesterValue(courses, d, values) = Average(SumFunction(f), SumFunction(w), d.semester_rounding)
    BY <1>1 DEF SemesterValue, Credits
  <2> HIDE DEF w, f
  <2> QED  BY <2>2, <2>3, <2>4 DEF SumFunction
<1>2. CASE d.credit_weighted = FALSE
  <2> DEFINE w == [c \in courses |-> 1]
             f == [c \in courses |-> values[c.id].value]
  <2>1. \A c \in courses : w[c] = 1 /\ f[c] = c.rank /\ c.rank \in Nat
    OBVIOUS
  <2>2. DOMAIN f = courses
    OBVIOUS
  <2>3. SemesterValue(courses, d, values)
          = Average(SumFunction(f), Cardinality(courses), d.semester_rounding)
    BY <1>2 DEF SemesterValue
  <2> HIDE DEF w, f
  <2>4. SumFunctionOnSet(w, courses) = Cardinality(courses)
    <3>1. SumFunctionOnSet(w, courses) = Cardinality(courses) * 1
      BY <2>1, SumConstant
    <3> QED  BY <3>1, FS_CardinalityType
  <2>5. \A c \in courses : w[c] \in Nat \ {0} /\ f[c] = c.rank * w[c]
    BY <2>1
  <2> QED  BY <2>2, <2>3, <2>4, <2>5 DEF SumFunction
<1> QED  BY <1>1, <1>2 DEF IsSettings

LEMMA SemesterWithin ==
    ASSUME NEW courses, IsFiniteSet(courses), courses # {}, \A c \in courses : IsCourse(c),
           NEW d, IsSettings(d), d.credit_weighted # None, ~CreditMissing(courses, d), NEW values,
           \A c \in courses : c.rank \in Nat /\ values[c.id].value = c.rank
    PROVE  /\ \E c \in courses : c.rank - RoundingStep(d.semester_rounding)
                                   <= SemesterValue(courses, d, values)
           /\ \E c \in courses : SemesterValue(courses, d, values)
                                   <= c.rank + RoundingStep(d.semester_rounding)
<1> DEFINE v == [c \in courses |-> c.rank]
<1>1. PICK f, w :
        /\ SemesterValue(courses, d, values)
             = Average(SumFunctionOnSet(f, courses), SumFunctionOnSet(w, courses), d.semester_rounding)
        /\ \A c \in courses : w[c] \in Nat \ {0} /\ f[c] = c.rank * w[c]
  BY SemesterIsAverage
<1>2. \A c \in courses : v[c] = c.rank /\ v[c] \in Nat /\ w[c] \in Nat \ {0} /\ f[c] = v[c] * w[c]
  BY <1>1
<1>3. IsRounding(d.semester_rounding)
  BY DEF IsSettings
<1> HIDE DEF v
<1>4. LET average == Average(SumFunctionOnSet(f, courses), SumFunctionOnSet(w, courses), d.semester_rounding)
      IN  /\ average \in Int
          /\ \E c \in courses : v[c] - RoundingStep(d.semester_rounding) <= average
          /\ \E c \in courses : average <= v[c] + RoundingStep(d.semester_rounding)
  BY <1>2, <1>3, AverageWithin
<1> QED  BY <1>1, <1>2, <1>4

-----------------------------------------------------------------------------
(* The components of a grade: finitely many, with weights that are not     *)
(* negative, and each an average of the values of semesters.               *)
WeightIn(C) == SumFunctionOnSet([k \in DOMAIN C |-> C[k].weight], DOMAIN C)
Averages(C, S, step) ==
    /\ IsFiniteSet(DOMAIN C)
    /\ \A k \in DOMAIN C : /\ C[k].weight \in Nat /\ C[k].value \in Int
                           /\ \E s \in S : s.value - step <= C[k].value
                           /\ \E s \in S : C[k].value <= s.value + step

LEMMA AggregateWithin ==
    ASSUME NEW C, NEW S, NEW step, Averages(C, S, step), DOMAIN C # {}
    PROVE  /\ WeightIn(C) \in Int /\ Aggregate(C) \in Int
           /\ \E k \in DOMAIN C : WeightIn(C) * C[k].value <= Aggregate(C)
           /\ \E k \in DOMAIN C : Aggregate(C) <= WeightIn(C) * C[k].value
<1> DEFINE K == DOMAIN C
           v == [k \in K |-> C[k].value]
           w == [k \in K |-> C[k].weight]
           f == [k \in K |-> C[k].value * C[k].weight]
<1>1. IsFiniteSet(K) /\ \A k \in K : w[k] \in Nat /\ v[k] \in Int /\ v[k] = C[k].value /\ f[k] = v[k] * w[k]
  BY DEF Averages
<1>2. Aggregate(C) = SumFunctionOnSet(f, K)
  BY DEF Aggregate, SumFunction
<1>3. WeightIn(C) = SumFunctionOnSet(w, K)
  BY DEF WeightIn
<1>4. Ints(v, K)
  BY <1>1 DEF Ints
<1> HIDE DEF K, v, w, f
<1>5. PICK a \in K : \A k \in K : v[a] <= v[k]
  BY <1>1, <1>4, LeastOf DEF K
<1>6. PICK b \in K : \A k \in K : v[k] <= v[b]
  BY <1>1, <1>4, GreatestOf DEF K
<1>7. \A k \in K : w[k] \in Nat
  BY <1>1
<1>8. \A k \in K : \E m \in Int : v[a] <= m /\ m <= v[b] /\ f[k] = m * w[k]
  BY <1>1, <1>5, <1>6
<1>9. v[a] \in Int /\ v[b] \in Int
  BY <1>1
<1>10. /\ SumFunctionOnSet(w, K) \in Int /\ SumFunctionOnSet(f, K) \in Int
       /\ SumFunctionOnSet(w, K) * v[a] <= SumFunctionOnSet(f, K)
       /\ SumFunctionOnSet(f, K) <= SumFunctionOnSet(w, K) * v[b]
  BY <1>1, <1>7, <1>8, <1>9, WeightedBetween
<1> QED  BY <1>1, <1>2, <1>3, <1>10 DEF K

(* The selected semesters of a grade: their values are numbers from 1 up,  *)
(* their terms ones that can have a weight.                                *)
IsGraded(s) == s.value \in Nat /\ s.record.grade \in Grades /\ s.record.semester \in 1..2
Weighable(d) ==
    /\ InRange(d.grade_weights) /\ InRange(d.semester_weights)
    /\ DOMAIN d.grade_weights = Grades /\ DOMAIN d.semester_weights = Terms

LEMMA EqualAverages ==
    ASSUME NEW S, IsFiniteSet(S), S # {}, \A s \in S : IsGraded(s)
    PROVE  /\ Averages(EqualComponents(S), S, 0)
           /\ Unit * Unit - Cardinality(S) <= WeightIn(EqualComponents(S))
           /\ WeightIn(EqualComponents(S)) <= Unit * Unit + Cardinality(S)
<1> DEFINE n == Cardinality(S)
           a == Unit * Unit
           C == EqualComponents(S)
           w == [s \in S |-> C[s].weight]
<1>1. n \in Nat \ {0} /\ a \in Nat
  BY FS_CardinalityType, FS_EmptySet, UnitAssumption
<1>2. DOMAIN C = S /\ \A s \in S : C[s].value = s.value /\ C[s].weight = Divide(a, n)
  BY DEF EqualComponents
<1>3. Divide(a, n) \in Nat /\ a - n <= n * Divide(a, n) /\ n * Divide(a, n) <= a + n
  <2> DEFINE q == a \div n
  <2>1. q \in Nat /\ n * q <= a /\ a < n * q + n
    <3> HIDE DEF a, n
    <3> QED  BY <1>1
  <2>2. Divide(a, n) = q \/ Divide(a, n) = q + 1
    BY DEF Divide
  <2> HIDE DEF q, a, n
  <2>3. n * (q + 1) = n * q + n
    BY <1>1, <2>1
  <2> QED  BY <1>1, <2>1, <2>2, <2>3
<1> HIDE DEF C, n, a
<1>4. WeightIn(C) = n * Divide(a, n)
  <2>1. WeightIn(C) = SumFunctionOnSet(w, S)
    BY <1>2 DEF WeightIn
  <2>2. \A s \in S : w[s] = Divide(a, n)
    BY <1>2
  <2> HIDE DEF w
  <2>3. Divide(a, n) \in Int
    BY <1>3
  <2>4. SumFunctionOnSet(w, S) = Cardinality(S) * Divide(a, n)
    BY <2>2, <2>3, SumConstant
  <2> QED  BY <2>1, <2>4 DEF n
<1>5. Averages(C, S, 0)
  BY <1>2, <1>3 DEF Averages, IsGraded
<1> QED  BY <1>3, <1>4, <1>5 DEF C, n, a

(* Grades that each weigh as much as the rule says, all together 1.        *)
LEMMA TermsWeighable ==
    ASSUME NEW d, Weighable(d), NEW s, IsGraded(s)
    PROVE  /\ d.grade_weights[s.record.grade] # None => d.grade_weights[s.record.grade] \in Nat
           /\ d.semester_weights[TermOf(s)] # None => d.semester_weights[TermOf(s)] \in Nat
<1>1. s.record.grade \in Grades /\ TermOf(s) \in Terms
  BY DEF IsGraded, TermOf, Terms
<1>2. \A k \in 0..Unit : k \in Nat
  BY UnitAssumption
<1> QED  BY <1>1, <1>2 DEF Weighable, InRange, Given

LEMMA GradeAverages ==
    ASSUME NEW S, IsFiniteSet(S), \A s \in S : IsGraded(s), NEW d, Weighable(d),
           IsRounding(d.grade_rounding), UsableWeights(d.grade_weights, GradesOf(S))
    PROVE  /\ Averages(GradeComponents(S, d), S, RoundingStep(d.grade_rounding))
           /\ WeightIn(GradeComponents(S, d)) = Unit * Unit
<1> DEFINE C == GradeComponents(S, d)
           G == GradesOf(S)
           terms(g) == {s \in S : s.record.grade = g}
           w == d.grade_weights
           weights == [g \in G |-> C[g].weight]
<1>1. /\ DOMAIN C = G
      /\ \A g \in G : /\ C[g].value = Average(SumFunction([s \in terms(g) |-> s.value]),
                                             Cardinality(terms(g)), d.grade_rounding)
                      /\ C[g].weight = w[g] * Unit
  BY DEF GradeComponents
<1>2. IsFiniteSet(G)
  <2> DEFINE h == [s \in S |-> s.record.grade]
  <2>1. G = {h[s] : s \in S}
    BY DEF GradesOf
  <2> HIDE DEF h, G
  <2>2. IsFiniteSet({h[s] : s \in S})
    BY ImageFinite
  <2> QED  BY <2>1, <2>2
<1>3. \A g \in G : w[g] \in Nat
  BY TermsWeighable DEF GradesOf, UsableWeights
<1>4. Unit \in Nat
  BY UnitAssumption
<1>5. WeightIn(C) = Unit * Unit
  <2>1. WeightIn(C) = SumFunctionOnSet(weights, G)
    BY <1>1 DEF WeightIn
  <2>2. \A g \in G : weights[g] = Unit * w[g]
    <3>1. \A x, y \in Nat : x * y = y * x
      OBVIOUS
    <3>2. \A g \in G : weights[g] = w[g] * Unit
      BY <1>1
    <3> HIDE DEF weights, C, w, G
    <3> QED  BY <1>3, <1>4, <3>1, <3>2
  <2>3. Ints(w, G)
    BY <1>3 DEF Ints
  <2>4. SumFunctionOnSet(w, G) = Unit
    BY DEF UsableWeights
  <2> HIDE DEF weights, G, w, C
  <2>5. SumFunctionOnSet(weights, G) = Unit * SumFunctionOnSet(w, G)
    BY <1>2, <1>4, <2>2, <2>3, SumScaled
  <2> QED  BY <2>1, <2>4, <2>5
<1>6. ASSUME NEW g \in G
      PROVE  /\ C[g].value \in Int
             /\ \E s \in S : s.value - RoundingStep(d.grade_rounding) <= C[g].value
             /\ \E s \in S : C[g].value <= s.value + RoundingStep(d.grade_rounding)
  <2> DEFINE T == terms(g)
             f == [s \in T |-> s.value]
             one == [s \in T |-> 1]
  <2>1. T \in SUBSET S /\ T # {} /\ IsFiniteSet(T)
    BY FS_Subset DEF GradesOf
  <2>2. \A s \in T : f[s] = s.value /\ f[s] \in Nat /\ one[s] = 1
    BY <2>1 DEF IsGraded
  <2>3. C[g].value = Average(SumFunction(f), Cardinality(T), d.grade_rounding) /\ DOMAIN f = T
    BY <1>1
  <2> HIDE DEF T, f, one, C
  <2>4. SumFunctionOnSet(one, T) = Cardinality(T)
    <3>1. SumFunctionOnSet(one, T) = Cardinality(T) * 1
      BY <2>1, <2>2, SumConstant
    <3> QED  BY <2>1, <3>1, FS_CardinalityType
  <2>5. C[g].value = Average(SumFunctionOnSet(f, T), SumFunctionOnSet(one, T), d.grade_rounding)
    BY <2>3, <2>4 DEF SumFunction
  <2>6. \A s \in T : f[s] \in Nat /\ one[s] \in Nat \ {0} /\ f[s] = f[s] * one[s]
    BY <2>2
  <2>7. LET average == Average(SumFunctionOnSet(f, T), SumFunctionOnSet(one, T), d.grade_rounding)
        IN  /\ average \in Int
            /\ \E s \in T : f[s] - RoundingStep(d.grade_rounding) <= average
            /\ \E s \in T : average <= f[s] + RoundingStep(d.grade_rounding)
    BY <2>1, <2>6, AverageWithin
  <2> QED  BY <2>1, <2>2, <2>5, <2>7
<1>7. \A g \in G : C[g].weight \in Nat
  <2>1. \A x, y \in Nat : x * y \in Nat
    OBVIOUS
  <2> HIDE DEF C, w, G
  <2> QED  BY <1>1, <1>3, <1>4, <2>1
<1> QED  BY <1>1, <1>2, <1>5, <1>6, <1>7 DEF Averages

(* Terms of which the selection has one semester each.                     *)
LEMMA TermAverages ==
    ASSUME NEW S, IsFiniteSet(S), \A s \in S : IsGraded(s), NEW d, Weighable(d),
           OnePerTerm(S), UsableWeights(d.semester_weights, {TermOf(s) : s \in S})
    PROVE  /\ Averages(SemesterComponents(S, d), S, 0)
           /\ WeightIn(SemesterComponents(S, d)) = Unit * Unit
<1> DEFINE C == SemesterComponents(S, d)
           w == d.semester_weights
           term == [s \in S |-> TermOf(s)]
           own == [s \in S |-> w[TermOf(s)]]
           weights == [s \in S |-> C[s].weight]
<1>1. DOMAIN C = S /\ \A s \in S : C[s].value = s.value /\ C[s].weight = w[TermOf(s)] * Unit
  BY DEF SemesterComponents
<1>2. \A s \in S : w[TermOf(s)] \in Nat
  BY TermsWeighable DEF UsableWeights
<1>3. Unit \in Nat
  BY UnitAssumption
<1>4. Image(term, S) = {TermOf(s) : s \in S}
  BY DEF Image
<1>5. SumFunctionOnSet(own, S) = Unit
  <2>1. \A x, y \in S : term[x] = term[y] => x = y
    BY DEF OnePerTerm
  <2>2. Ints(w, Image(term, S))
    BY <1>2, <1>4 DEF Ints
  <2>3. \A s \in S : own[s] = w[term[s]]
    OBVIOUS
  <2>4. SumFunctionOnSet(w, Image(term, S)) = Unit
    BY <1>4 DEF UsableWeights
  <2> HIDE DEF own, term, w
  <2> QED  BY <2>1, <2>2, <2>3, <2>4, SumRenamed
<1>6. WeightIn(C) = Unit * Unit
  <2>1. WeightIn(C) = SumFunctionOnSet(weights, S)
    BY <1>1 DEF WeightIn
  <2>2. Ints(own, S) /\ \A s \in S : weights[s] = Unit * own[s]
    BY <1>1, <1>2, <1>3 DEF Ints
  <2> HIDE DEF own, weights, C
  <2>3. SumFunctionOnSet(weights, S) = Unit * SumFunctionOnSet(own, S)
    BY <1>3, <2>2, SumScaled
  <2> QED  BY <1>5, <2>1, <2>3
<1>7. \A s \in S : C[s].weight \in Nat
  BY <1>1, <1>2, <1>3
<1> HIDE DEF C
<1>8. Averages(C, S, 0)
  BY <1>1, <1>7 DEF Averages, IsGraded
<1> QED  BY <1>6, <1>8 DEF C

(* Terms that weigh within their grade: the grades weigh 1 together, and   *)
(* the terms of each grade do.                                             *)
LEMMA LocalAverages ==
    ASSUME NEW S, IsFiniteSet(S), \A s \in S : IsGraded(s), NEW d, Weighable(d),
           UsableWeights(d.grade_weights, GradesOf(S)), UsableLocalWeights(S, d)
    PROVE  /\ Averages(LocalComponents(S, d), S, 0)
           /\ WeightIn(LocalComponents(S, d)) = Unit * Unit
<1> DEFINE C == LocalComponents(S, d)
           gw == d.grade_weights
           tw == d.semester_weights
           grade == [s \in S |-> s.record.grade]
           weights == [s \in S |-> C[s].weight]
           byGrade == [g \in GradesOf(S) |-> Unit * gw[g]]
<1>1. /\ DOMAIN C = S
      /\ \A s \in S : C[s].value = s.value /\ C[s].weight = gw[s.record.grade] * tw[TermOf(s)]
  BY DEF LocalComponents
<1>2. \A s \in S : gw[s.record.grade] \in Nat /\ tw[TermOf(s)] \in Nat
  BY TermsWeighable DEF UsableWeights, UsableLocalWeights, GradesOf
<1>3. Unit \in Nat
  BY UnitAssumption
<1>4. Image(grade, S) = GradesOf(S)
  BY DEF Image, GradesOf
<1>5. \A s \in S : weights[s] = gw[s.record.grade] * tw[TermOf(s)] /\ weights[s] \in Nat
  <2>1. \A x, y \in Nat : x * y \in Nat
    OBVIOUS
  <2> QED  BY <1>1, <1>2, <2>1
<1>6. ASSUME NEW g \in GradesOf(S)
      PROVE  /\ Unit * gw[g] = SumFunctionOnSet(weights, Group(grade, S, g))
             /\ gw[g] \in Int
  <2> DEFINE T == {s \in S : s.record.grade = g}
             own == [s \in T |-> tw[TermOf(s)]]
  <2>1. T = Group(grade, S, g) /\ IsFiniteSet(T) /\ DOMAIN own = T
    BY FS_Subset DEF Group
  <2>2. gw[g] \in Nat
    BY <1>2 DEF GradesOf
  <2>3. \A s \in T : own[s] \in Nat /\ weights[s] = gw[g] * own[s]
    BY <1>2, <1>5
  <2>4. SumFunction(own) = Unit
    BY DEF UsableLocalWeights
  <2> HIDE DEF own, T, weights, gw
  <2>5. Ints(own, T)
    BY <2>3 DEF Ints
  <2>6. SumFunctionOnSet(weights, T) = gw[g] * SumFunctionOnSet(own, T)
    BY <2>1, <2>2, <2>3, <2>5, SumScaled
  <2>7. SumFunctionOnSet(own, T) = Unit
    BY <2>1, <2>4 DEF SumFunction
  <2> QED  BY <1>3, <2>1, <2>2, <2>6, <2>7
<1>7. SumFunctionOnSet(weights, S) = SumFunctionOnSet(byGrade, GradesOf(S))
  <2>1. Ints(weights, S)
    BY <1>5 DEF Ints
  <2>2. \A g \in Image(grade, S) : byGrade[g] = SumFunctionOnSet(weights, Group(grade, S, g))
    BY <1>4, <1>6
  <2> HIDE DEF weights, byGrade, grade
  <2>3. SumFunctionOnSet(weights, S) = SumFunctionOnSet(byGrade, Image(grade, S))
    BY <2>1, <2>2, SumOfGroups
  <2> QED  BY <1>4, <2>3
<1>8. SumFunctionOnSet(byGrade, GradesOf(S)) = Unit * Unit
  <2>1. IsFiniteSet(GradesOf(S))
    <3>1. IsFiniteSet({grade[s] : s \in S})
      <4> HIDE DEF grade
      <4> QED  BY ImageFinite
    <3> QED  BY <1>4, <3>1 DEF Image
  <2>2. Ints(gw, GradesOf(S)) /\ \A g \in GradesOf(S) : byGrade[g] = Unit * gw[g]
    BY <1>6 DEF Ints
  <2>3. SumFunctionOnSet(gw, GradesOf(S)) = Unit
    BY DEF UsableWeights
  <2> HIDE DEF byGrade, gw
  <2>4. SumFunctionOnSet(byGrade, GradesOf(S)) = Unit * SumFunctionOnSet(gw, GradesOf(S))
    BY <1>3, <2>1, <2>2, SumScaled
  <2> QED  BY <2>3, <2>4
<1>9. WeightIn(C) = SumFunctionOnSet(weights, S)
  BY <1>1 DEF WeightIn
<1>10. \A s \in S : C[s].weight \in Nat
  BY <1>5
<1> HIDE DEF C
<1>11. Averages(C, S, 0)
  BY <1>1, <1>10 DEF Averages, IsGraded
<1> QED  BY <1>7, <1>8, <1>9, <1>11 DEF C

(* In every weighting mode: averages of the selected semesters, whose      *)
(* weights make up 1 (or, when it is divided, nearly).                     *)
NearlyOne(C, S, d) ==
    LET lost == IF d.weighting_mode = "EQUAL" THEN Cardinality(S) ELSE 0
    IN  Unit * Unit - lost <= WeightIn(C) /\ WeightIn(C) <= Unit * Unit + lost

LEMMA ComponentsAverage ==
    ASSUME NEW S, IsFiniteSet(S), S # {}, \A s \in S : IsGraded(s), NEW d, IsSettings(d),
           Weighable(d), WeightsFit(S, d)
    PROVE  /\ Averages(Components(S, d), S, RoundingStep(d.grade_rounding))
           /\ NearlyOne(Components(S, d), S, d)
<1> DEFINE step == RoundingStep(d.grade_rounding)
<1>1. IsRounding(d.grade_rounding) /\ step \in Nat
  BY RoundingStepNat DEF IsSettings
<1>2. ASSUME NEW C, Averages(C, S, 0) PROVE Averages(C, S, step)
  <2>1. ASSUME NEW k \in DOMAIN C
        PROVE  /\ \E s \in S : s.value - step <= C[k].value
               /\ \E s \in S : C[k].value <= s.value + step
    <3>1. PICK s \in S : s.value - 0 <= C[k].value
      BY <1>2 DEF Averages
    <3>2. PICK u \in S : C[k].value <= u.value + 0
      BY <1>2 DEF Averages
    <3>3. s.value \in Nat /\ u.value \in Nat /\ C[k].value \in Int
      BY <1>2 DEF Averages, IsGraded
    <3> HIDE DEF step
    <3> QED  BY <1>1, <3>1, <3>2, <3>3
  <2> HIDE DEF step
  <2> QED  BY <1>2, <2>1 DEF Averages
<1>3. Cardinality(S) \in Nat /\ Unit * Unit \in Nat
  BY FS_CardinalityType, UnitAssumption
<1> HIDE DEF step
<1>4. CASE d.weighting_mode = "EQUAL"
  <2>1. Components(S, d) = EqualComponents(S)
    BY <1>4 DEF Components, WeightsFit
  <2> QED  BY <1>2, <1>4, <2>1, EqualAverages DEF NearlyOne, step
<1>5. CASE d.weighting_mode = "GRADE_ONLY"
  <2>1. /\ Components(S, d) = GradeComponents(S, d)
        /\ UsableWeights(d.grade_weights, GradesOf(S))
    BY <1>5 DEF Components, WeightsFit
  <2> QED  BY <1>1, <1>3, <1>5, <2>1, GradeAverages DEF NearlyOne, step
<1>6. CASE d.weighting_mode = "GLOBAL_SEMESTER"
  <2>1. /\ Components(S, d) = SemesterComponents(S, d)
        /\ OnePerTerm(S) /\ UsableWeights(d.semester_weights, {TermOf(s) : s \in S})
    BY <1>6 DEF Components, WeightsFit
  <2>2. Averages(Components(S, d), S, 0) /\ WeightIn(Components(S, d)) = Unit * Unit
    BY <2>1, TermAverages
  <2> QED  BY <1>2, <1>3, <1>6, <2>2 DEF NearlyOne, step
<1>7. CASE d.weighting_mode = "GRADE_WITHIN_SEMESTER"
  <2>1. /\ Components(S, d) = LocalComponents(S, d)
        /\ UsableWeights(d.grade_weights, GradesOf(S)) /\ UsableLocalWeights(S, d)
    BY <1>7 DEF Components, WeightsFit
  <2>2. Averages(Components(S, d), S, 0) /\ WeightIn(Components(S, d)) = Unit * Unit
    BY <2>1, LocalAverages
  <2> QED  BY <1>2, <1>3, <1>7, <2>2 DEF NearlyOne, step
<1> QED  BY <1>4, <1>5, <1>6, <1>7 DEF IsSettings

LEMMA NothingWeighs ==
    ASSUME NEW C, DOMAIN C = {}
    PROVE  Aggregate(C) = 0
<1> DEFINE f == [k \in DOMAIN C |-> C[k].value * C[k].weight]
<1>1. DOMAIN f = {} /\ Aggregate(C) = SumFunctionOnSet(f, DOMAIN f)
  BY DEF Aggregate, SumFunction
<1> HIDE DEF f
<1> QED  BY <1>1, SumEmpty

LEMMA NoComponents ==
    ASSUME NEW d, IsSettings(d)
    PROVE  DOMAIN Components({}, d) = {}
<1>1. /\ DOMAIN EqualComponents({}) = {} /\ DOMAIN GradeComponents({}, d) = {}
      /\ DOMAIN SemesterComponents({}, d) = {} /\ DOMAIN LocalComponents({}, d) = {}
  BY DEF EqualComponents, GradeComponents, SemesterComponents, LocalComponents, GradesOf
<1> QED  BY <1>1 DEF Components, IsSettings

-----------------------------------------------------------------------------
(* What a selected semester is made of.                                    *)
LEMMA ScoredMadeOf ==
    ASSUME NEW given, \A r \in given : IsInput(r), NEW d, NEW values, ~ForReview(given, d, values),
           NEW s \in ScoredSemesters(given, d, values)
    PROVE  \E r \in given :
             LET courses == s.record.courses
             IN  /\ courses \subseteq r.courses /\ courses # {}
                 /\ s.record.grade = r.grade /\ s.record.semester = r.semester
                 /\ s.value = SemesterValue(courses, d, values)
                 /\ ~CreditMissing(courses, d) /\ d.credit_weighted # None
<1> DEFINE courses(r) == SelectedCourses(r, d, values)
<1>1. PICK r \in Offered(given, d, values) :
        /\ ~BelowMinimum(courses(r), d)
        /\ s = [record |-> [r EXCEPT !.courses = courses(r)],
                value |-> SemesterValue(courses(r), d, values)]
  BY DEF ScoredSemesters
<1>2. r \in given /\ courses(r) # {}
  BY DEF Offered, Included
<1>3. courses(r) \subseteq r.courses
  BY DEF SelectedCourses, Best
<1> HIDE DEF courses
<1>4. ~CreditMissing(courses(r), d)
  BY DEF ForReview, courses
<1>5. d.credit_weighted # None
  BY <1>1 DEF ForReview, courses
<1>6. /\ s.value = SemesterValue(courses(r), d, values)
      /\ s.record = [r EXCEPT !.courses = courses(r)]
  BY <1>1
<1>7. s.record.courses = courses(r) /\ s.record.grade = r.grade /\ s.record.semester = r.semester
  BY <1>2, <1>6 DEF IsInput, IsStored, IsRecord
<1> QED  BY <1>2, <1>3, <1>4, <1>5, <1>6, <1>7

LEMMA ValueIsRank ==
    ASSUME NEW given, NEW d, NEW table,
           \A c, e \in UNION {r.courses : r \in given} : c.id = e.id => c = e,
           NEW c \in UNION {r.courses : r \in given}, c.rank # None
    PROVE  CourseValues(given, d, table)[c.id].value = c.rank
<1> DEFINE all == UNION {r.courses : r \in given}
           valued == {e \in all : CourseValue(e, d, table) # None}
           of(id) == CHOOSE e \in valued : e.id = id
           values == CourseValues(given, d, table)
<1>1. CourseValue(c, d, table) = c.rank
  BY DEF CourseValue
<1>2. c \in valued
  BY <1>1
<1>3. DOMAIN values = {e.id : e \in valued}
      /\ \A id \in DOMAIN values : values[id].value = CourseValue(of(id), d, table)
  BY DEF CourseValues
<1>4. of(c.id) = c
  <2>1. valued \subseteq all
    OBVIOUS
  <2> HIDE DEF valued
  <2>2. of(c.id) \in valued /\ of(c.id).id = c.id
    BY <1>2
  <2> HIDE DEF of
  <2> QED  BY <2>1, <2>2
<1>5. c.id \in DOMAIN values
  BY <1>2, <1>3
<1> HIDE DEF values, of, valued
<1> QED  BY <1>1, <1>3, <1>4, <1>5 DEF values

LEMMA InputCourses ==
    ASSUME NEW given, IsHistory(given), NEW policy
    PROVE  UNION {r.courses : r \in SelectInputs(given, policy).records}
             \subseteq UNION {r.courses : r \in given}
<1> DEFINE stripped(r) == [r EXCEPT !.courses = VerifiedCourses(r)]
<1>1. ASSUME NEW q \in SelectInputs(given, policy).records
      PROVE  \E r \in given : q.courses \subseteq r.courses
  <2>1. PICK r \in given : q = stripped(r)
    BY DEF SelectInputs
  <2>2. stripped(r).courses = VerifiedCourses(r)
    BY DEF IsHistory, IsStored, IsRecord
  <2> QED  BY <2>1, <2>2 DEF VerifiedCourses
<1> QED  BY <1>1

LEMMA SelectedAreScored ==
    ASSUME NEW S, NEW d, IsSettings(d), d.semester_method # "MANUAL_REVIEW"
    PROVE  SelectSemesters(S, d) \subseteq S
<1>1. \A T, n, R : Best(T, n, R) \subseteq T
  BY DEF Best
<1> DEFINE n == d.best_semester_count
           earlier == {p \in S \X S : Earlier(p[1].record, p[2].record)}
           later == {p \in S \X S : Earlier(p[2].record, p[1].record)}
           better == {p \in S \X S : RankedBefore(p[1], p[2], d)}
           of(g) == {s \in S : s.record.grade = g}
<1>2. \/ SelectSemesters(S, d) = S
      \/ \E R : SelectSemesters(S, d) = Best(S, n, R)
      \/ SelectSemesters(S, d) = UNION {Best(of(g), n, better) : g \in Grades}
  <2>1. SelectSemesters(S, d) =
          CASE d.semester_method = "ALL" -> S
            [] d.semester_method = "FIRST_N" -> Best(S, n, earlier)
            [] d.semester_method = "RECENT_N" -> Best(S, n, later)
            [] d.semester_method = "BEST_N" /\ d.semester_scope = "GLOBAL" -> Best(S, n, better)
            [] d.semester_method = "BEST_N" /\ d.semester_scope = "PER_GRADE" ->
                 UNION {Best(of(g), n, better) : g \in Grades}
    BY DEF SelectSemesters
  <2>2. /\ d.semester_method \in {"ALL", "BEST_N", "FIRST_N", "RECENT_N"}
        /\ d.semester_scope \in {"GLOBAL", "PER_GRADE"}
    BY DEF IsSettings
  <2> HIDE DEF n, earlier, later, better, of
  <2> QED  BY <2>1, <2>2
<1>3. \A g : of(g) \subseteq S
  OBVIOUS
<1> HIDE DEF better, of
<1> QED  BY <1>1, <1>2, <1>3

(* What a selection is made from are scored semesters, of records that     *)
(* have their own ids.                                                     *)
LEMMA OfferedAreScored ==
    ASSUME NEW t \in Tasks, t.kind = "SCORE", Selection(t).status = "READY"
    PROVE  /\ IsFiniteSet(OfferTo(t)) /\ OfDifferentRecords(OfferTo(t))
           /\ \A s \in OfferTo(t) : IsScored(s)
<1> DEFINE given == Inputs(t).records
           d == t.d
<1>1. IsHistory(t.records) /\ IsSettings(t.d) /\ \A row \in t.table : row.value \in Int
  BY TasksAssumption
<1>2. /\ IsFiniteSet(given) /\ \A r \in given : IsInput(r)
      /\ \A r, q \in given : r.id = q.id => r = q
  BY <1>1, InputsAreStored DEF Inputs
<1>3. ~ForReview(given, d, ValuesOf(t)) /\ IsSettings(d)
  BY <1>1, ReadySelection
<1> HIDE DEF given
<1>4. NumbersFor(UNION {r.courses : r \in given}, ValuesOf(t))
  <2>1. \A r \in given : \A c \in r.courses : IsCourse(c)
    BY <1>2 DEF IsInput, IsStored
  <2>2. NumbersFor(UNION {r.courses : r \in given}, CourseValues(given, d, t.table))
    BY <1>1, <2>1, ValuesAreNumbers
  <2> QED  BY <2>2 DEF ValuesOf, given
<1> HIDE DEF d
<1>5. LET scored == ScoredSemesters(given, d, ValuesOf(t))
      IN  IsFiniteSet(scored) /\ OfDifferentRecords(scored) /\ \A s \in scored : IsScored(s)
  BY <1>2, <1>3, <1>4, ScoredAreNumbers
<1> QED  BY <1>5 DEF OfferTo, given, d

(* The value of a semester whose courses all have ranks lies between two   *)
(* of them.                                                                *)
LEMMA OfferedWithin ==
    ASSUME NEW t \in Tasks, t.kind = "SCORE", Selection(t).status = "READY",
           NEW s \in OfferTo(t), \A c \in s.record.courses : c.rank # None /\ IsRankGrade(c.rank)
    PROVE  /\ s.record.grade \in Grades /\ s.record.semester \in 1..2
           /\ \A c \in s.record.courses : c.rank \in Nat
           /\ \E c \in s.record.courses : c.rank - RoundingStep(t.d.semester_rounding) <= s.value
           /\ \E c \in s.record.courses : s.value <= c.rank + RoundingStep(t.d.semester_rounding)
<1> DEFINE given == Inputs(t).records
           d == t.d
           courses == s.record.courses
<1>1. IsHistory(t.records) /\ IsSettings(d)
  BY TasksAssumption
<1>2. \A r \in given : IsInput(r)
  BY <1>1, InputsAreStored DEF Inputs
<1>3. ~ForReview(given, d, ValuesOf(t))
  BY ReadySelection
<1>4. PICK r \in given :
        /\ courses \subseteq r.courses /\ courses # {}
        /\ s.record.grade = r.grade /\ s.record.semester = r.semester
        /\ s.value = SemesterValue(courses, d, ValuesOf(t))
        /\ ~CreditMissing(courses, d) /\ d.credit_weighted # None
  <2> HIDE DEF given, d
  <2>1. s \in ScoredSemesters(given, d, ValuesOf(t))
    BY DEF OfferTo, given, d
  <2> QED  BY <1>2, <1>3, <2>1, ScoredMadeOf
<1>5. /\ r.grade \in Grades /\ r.semester \in 1..2
      /\ IsFiniteSet(courses) /\ \A c \in courses : IsCourse(c)
  <2> HIDE DEF courses, given
  <2> QED  BY <1>2, <1>4, FS_Subset DEF IsInput, IsStored
<1>6. \A c, e \in UNION {q.courses : q \in given} : c.id = e.id => c = e
  <2>1. UNION {q.courses : q \in given} \subseteq UNION {q.courses : q \in t.records}
    BY <1>1, InputCourses DEF Inputs
  <2>2. \A c, e \in UNION {q.courses : q \in t.records} : c.id = e.id => c = e
    BY <1>1 DEF IsHistory
  <2> HIDE DEF given
  <2> QED  BY <2>1, <2>2
<1>7. \A k \in Unit..(9 * Unit) : k \in Nat
  BY UnitAssumption
<1>8. \A c \in courses : c.rank \in Nat /\ ValuesOf(t)[c.id].value = c.rank
  <2> SUFFICES ASSUME NEW c \in courses
               PROVE  c.rank \in Nat /\ ValuesOf(t)[c.id].value = c.rank
    OBVIOUS
  <2>1. c \in UNION {q.courses : q \in given} /\ c.rank # None /\ c.rank \in Nat
    BY <1>4, <1>7 DEF IsRankGrade
  <2> HIDE DEF given
  <2>2. CourseValues(given, t.d, t.table)[c.id].value = c.rank
    BY <1>6, <2>1, ValueIsRank
  <2> QED  BY <2>1, <2>2 DEF ValuesOf, given
<1> HIDE DEF courses, d
<1>9. /\ \E c \in courses : c.rank - RoundingStep(d.semester_rounding) <= s.value
      /\ \E c \in courses : s.value <= c.rank + RoundingStep(d.semester_rounding)
  BY <1>1, <1>4, <1>5, <1>8, SemesterWithin
<1> QED  BY <1>4, <1>5, <1>8, <1>9 DEF courses, d

LEMMA TimesBounds ==
    ASSUME NEW a \in Nat, NEW lost \in Nat, NEW cap \in Nat, NEW v \in Nat, v <= cap,
           NEW total \in Int, a - lost <= total, total <= a + lost, NEW k \in Int
    PROVE  /\ v <= k => total * v <= a * k + lost * cap
           /\ k <= v => a * k - lost * cap <= total * v
<1>1. ASSUME NEW x \in Int, NEW y \in Int, NEW z \in Nat, x <= y
      PROVE  x * z <= y * z /\ z * x <= z * y
  <2>1. y - x \in Nat
    BY <1>1
  <2>2. (y - x) * z >= 0
    BY <2>1
  <2>3. (y - x) * z = y * z - x * z /\ z * x = x * z /\ z * y = y * z
    OBVIOUS
  <2> QED  BY <2>2, <2>3
<1>2. (a + lost) * v = a * v + lost * v /\ (a - lost) * v = a * v - lost * v
  OBVIOUS
<1>3. total * v <= (a + lost) * v /\ (a - lost) * v <= total * v
  BY <1>1
<1>4. lost * v <= lost * cap
  BY <1>1
<1>5. ASSUME v <= k PROVE total * v <= a * k + lost * cap
  <2>1. a * v <= a * k
    BY <1>1, <1>5
  <2> QED  BY <1>2, <1>3, <1>4, <2>1
<1>6. ASSUME k <= v PROVE a * k - lost * cap <= total * v
  <2>1. a * k <= a * v
    BY <1>1, <1>6
  <2> QED  BY <1>2, <1>3, <1>4, <2>1
<1> QED  BY <1>5, <1>6

LEMMA GradeOfTask ==
    ASSUME NEW t \in Tasks, t.kind = "SCORE", Grade(t) # None
    PROVE  LET S == Selection(t).semesters
               courses == UNION {s.record.courses : s \in S}
               slack == (RoundingStep(t.d.semester_rounding) + RoundingStep(t.d.grade_rounding))
                          * Unit * Unit
                        + (IF t.d.weighting_mode = "EQUAL" THEN Cardinality(S) * 9 * Unit ELSE 0)
           IN  /\ \E c \in courses : c.rank * Unit * Unit - slack <= Grade(t).unrounded
               /\ \E c \in courses : Grade(t).unrounded <= c.rank * Unit * Unit + slack
<1> DEFINE S == Selection(t).semesters
           d == t.d
           C == Components(S, d)
           sum == Aggregate(C)
           courses == UNION {s.record.courses : s \in S}
           st == RoundingStep(d.semester_rounding)
           gs == RoundingStep(d.grade_rounding)
           lost == IF d.weighting_mode = "EQUAL" THEN Cardinality(S) ELSE 0
<1>1. /\ Selection(t).status = "READY" /\ RankedThroughout(S) /\ WeightsFit(S, d)
      /\ \A k \in DOMAIN C : IsRankGrade(C[k].value)
      /\ IsReflectedGrade(sum) /\ Grade(t).unrounded = sum
  BY DEF Grade, ReflectedGrade
<1>2. IsSettings(d) /\ IsRounding(d.semester_rounding) /\ IsRounding(d.grade_rounding)
  BY TasksAssumption DEF IsSettings
<1>3. st \in Nat /\ gs \in Nat
  BY <1>2, RoundingStepNat
<1>4. /\ S \subseteq OfferTo(t) /\ IsFiniteSet(S) /\ Weighable(d)
  <2>1. /\ ValidPayload(d) /\ ~ForReview(Inputs(t).records, d, ValuesOf(t))
        /\ S = SelectSemesters(OfferTo(t), d)
    BY <1>1, ReadySelection
  <2>2. d.semester_method # "MANUAL_REVIEW"
    BY <2>1 DEF ForReview
  <2>3. S \subseteq OfferTo(t)
    BY <1>2, <2>1, <2>2, SelectedAreScored
  <2>4. IsFiniteSet(OfferTo(t))
    BY <1>1, OfferedAreScored
  <2>5. Weighable(d)
    BY <1>2, <2>1 DEF ValidPayload, ValidShared, ValidWeightingMode, Weighable, IsSettings
  <2> HIDE DEF S, d
  <2> QED  BY <2>3, <2>4, <2>5, FS_Subset
<1>5. \A k \in Unit..(9 * Unit) : k \in Nat /\ k <= 9 * Unit
  BY UnitAssumption
<1>6. ASSUME NEW s \in S
      PROVE  /\ IsGraded(s) /\ \A c \in s.record.courses : c.rank \in Nat
             /\ \E c \in courses : c.rank \in Nat /\ c.rank - st <= s.value
             /\ \E c \in courses : c.rank \in Nat /\ s.value <= c.rank + st
  <2>1. s \in OfferTo(t) /\ \A c \in s.record.courses : c.rank # None /\ IsRankGrade(c.rank)
    BY <1>1, <1>4 DEF RankedThroughout
  <2>2. s.value \in Nat
    BY <1>1, <1>5 DEF RankedThroughout, IsRankGrade
  <2>3. /\ s.record.grade \in Grades /\ s.record.semester \in 1..2
        /\ \A c \in s.record.courses : c.rank \in Nat
        /\ \E c \in s.record.courses : c.rank - st <= s.value
        /\ \E c \in s.record.courses : s.value <= c.rank + st
    BY <1>1, <2>1, OfferedWithin
  <2>4. s.record.courses \subseteq courses
    OBVIOUS
  <2> HIDE DEF courses, st, S
  <2> QED  BY <2>2, <2>3, <2>4 DEF IsGraded
<1> HIDE DEF S, d, courses, st, gs
<1>7. sum # 0
  <2>1. One > 0 /\ \A k \in One..(9 * One) : k # 0
    BY UnitAssumption DEF One
  <2> QED  BY <1>1, <2>1 DEF IsReflectedGrade
<1>8. DOMAIN C # {} /\ S # {}
  <2>1. DOMAIN C # {}
    <3> HIDE DEF C
    <3> QED  BY <1>7, NothingWeighs
  <2> QED  BY <1>1, <1>2, <2>1, NoComponents
<1>9. Averages(C, S, gs) /\ NearlyOne(C, S, d)
  BY <1>1, <1>2, <1>4, <1>6, <1>8, ComponentsAverage DEF gs
<1> HIDE DEF C
<1>10. /\ WeightIn(C) \in Int /\ sum \in Int
       /\ \E k \in DOMAIN C : WeightIn(C) * C[k].value <= sum
       /\ \E k \in DOMAIN C : sum <= WeightIn(C) * C[k].value
  BY <1>8, <1>9, AggregateWithin
<1> HIDE DEF sum
<1>11. ASSUME NEW k \in DOMAIN C
       PROVE  /\ C[k].value \in Nat /\ C[k].value <= 9 * Unit
              /\ \E c \in courses : c.rank \in Nat /\ c.rank - (st + gs) <= C[k].value
              /\ \E c \in courses : c.rank \in Nat /\ C[k].value <= c.rank + (st + gs)
  <2>1. C[k].value \in Nat /\ C[k].value <= 9 * Unit
    BY <1>1, <1>5 DEF IsRankGrade
  <2>2. PICK s \in S : s.value - gs <= C[k].value
    BY <1>9 DEF Averages
  <2>3. PICK u \in S : C[k].value <= u.value + gs
    BY <1>9 DEF Averages
  <2>4. s.value \in Nat /\ u.value \in Nat
    BY <1>6 DEF IsGraded
  <2>5. PICK c \in courses : c.rank \in Nat /\ c.rank - st <= s.value
    BY <1>6
  <2>6. PICK e \in courses : e.rank \in Nat /\ u.value <= e.rank + st
    BY <1>6
  <2>7. c.rank - (st + gs) <= C[k].value /\ C[k].value <= e.rank + (st + gs)
    BY <1>3, <2>1, <2>2, <2>3, <2>4, <2>5, <2>6
  <2> QED  BY <2>1, <2>5, <2>6, <2>7
<1>12. /\ lost \in Nat /\ Unit \in Nat /\ Unit * Unit \in Nat /\ 9 * Unit \in Nat
       /\ Unit * Unit - lost <= WeightIn(C) /\ WeightIn(C) <= Unit * Unit + lost
  <2>1. Cardinality(S) \in Nat /\ Unit \in Nat /\ Unit * Unit \in Nat /\ 9 * Unit \in Nat
    BY <1>4, FS_CardinalityType, UnitAssumption
  <2> QED  BY <1>9, <2>1 DEF NearlyOne
<1> DEFINE slack == (st + gs) * Unit * Unit
                    + (IF d.weighting_mode = "EQUAL" THEN Cardinality(S) * 9 * Unit ELSE 0)
<1>13. slack = (Unit * Unit) * (st + gs) + lost * (9 * Unit)
  <2>1. PICK g \in Nat : g = st + gs
    BY <1>3
  <2>2. PICK n \in Nat : n = Cardinality(S)
    BY <1>4, FS_CardinalityType
  <2>3. g * Unit * Unit = (Unit * Unit) * g /\ n * 9 * Unit = n * (9 * Unit) /\ 0 * (9 * Unit) = 0
    BY <1>12
  <2> QED  BY <2>1, <2>2, <2>3
<1> HIDE DEF slack, lost
<1>14. PICK g \in Nat, a \in Nat, cap \in Nat : g = st + gs /\ a = Unit * Unit /\ cap = 9 * Unit
  BY <1>3, <1>12
<1>15. ASSUME NEW v \in Nat, v <= cap, NEW k \in Int
       PROVE  /\ v <= k => WeightIn(C) * v <= a * k + lost * cap
              /\ k <= v => a * k - lost * cap <= WeightIn(C) * v
  <2>1. a - lost <= WeightIn(C) /\ WeightIn(C) <= a + lost /\ WeightIn(C) \in Int /\ lost \in Nat
    BY <1>10, <1>12, <1>14
  <2> QED  BY <1>15, <2>1, TimesBounds
<1>16. ASSUME NEW r \in Nat
       PROVE  /\ a * (r + g) = r * Unit * Unit + a * g /\ a * (r - g) = r * Unit * Unit - a * g
              /\ r * Unit * Unit \in Nat
  <2>1. a * r = r * Unit * Unit
    BY <1>12, <1>14
  <2> QED  BY <2>1
<1>17. slack = a * g + lost * cap /\ a * g \in Nat /\ lost * cap \in Nat
  <2>1. slack = a * g + lost * cap
    BY <1>13, <1>14
  <2>2. lost \in Nat
    BY <1>12
  <2> QED  BY <2>1, <2>2
<1>18. \E c \in courses : sum <= c.rank * Unit * Unit + slack
  <2>1. PICK k \in DOMAIN C : sum <= WeightIn(C) * C[k].value
    BY <1>10
  <2>2. PICK c \in courses : c.rank \in Nat /\ C[k].value <= c.rank + (st + gs)
    BY <1>11
  <2>3. PICK r \in Nat : r = c.rank
    BY <2>2
  <2>4. PICK v \in Nat : v = C[k].value /\ v <= cap
    BY <1>11, <1>14
  <2>5. v <= r + g /\ r + g \in Int
    BY <1>14, <2>2, <2>3, <2>4
  <2>6. WeightIn(C) * v <= a * (r + g) + lost * cap
    BY <1>15, <2>4, <2>5
  <2>7. WeightIn(C) * v <= r * Unit * Unit + slack
    BY <1>16, <1>17, <2>6
  <2>8. sum <= WeightIn(C) * v /\ WeightIn(C) * v \in Int /\ r * Unit * Unit + slack \in Int
    BY <1>10, <1>16, <1>17, <2>1, <2>4
  <2>9. sum <= r * Unit * Unit + slack
    BY <1>10, <2>7, <2>8
  <2> QED  BY <2>3, <2>9
<1>19. \E c \in courses : c.rank * Unit * Unit - slack <= sum
  <2>1. PICK k \in DOMAIN C : WeightIn(C) * C[k].value <= sum
    BY <1>10
  <2>2. PICK c \in courses : c.rank \in Nat /\ c.rank - (st + gs) <= C[k].value
    BY <1>11
  <2>3. PICK r \in Nat : r = c.rank
    BY <2>2
  <2>4. PICK v \in Nat : v = C[k].value /\ v <= cap
    BY <1>11, <1>14
  <2>5. r - g <= v /\ r - g \in Int
    BY <1>14, <2>2, <2>3, <2>4
  <2>6. a * (r - g) - lost * cap <= WeightIn(C) * v
    BY <1>15, <2>4, <2>5
  <2>7. r * Unit * Unit - slack <= WeightIn(C) * v
    BY <1>16, <1>17, <2>6
  <2>8. WeightIn(C) * v <= sum /\ WeightIn(C) * v \in Int /\ r * Unit * Unit - slack \in Int
    BY <1>10, <1>16, <1>17, <2>1, <2>4
  <2>9. r * Unit * Unit - slack <= sum
    BY <1>10, <2>7, <2>8
  <2> QED  BY <2>3, <2>9
<1> QED  BY <1>1, <1>18, <1>19 DEF S, d, courses, st, gs, slack

(* A reflected grade lies between the best and the worst rank of the       *)
(* courses it came from, up to what the two roundings and, with equal      *)
(* shares, the cut of the quotients can move it: for every history, rule   *)
(* and request, the weights that add to less than one included.            *)
THEOREM GradesWithin == SpecBatch => []GradeWithinGrades
<1>1. TaskInv => GradeWithinGrades
  BY GradeOfTask DEF TaskInv, GradeWithinGrades, Graded, Scored
<1> QED  BY <1>1, TasksSound, PTL

-----------------------------------------------------------------------------
(* Averages of ranks are ranks: a rounding to digits that Unit has stays   *)
(* between 1 and 9.                                                        *)
LEMMA TimesBounded ==
    ASSUME NEW x \in Nat, NEW y \in Nat, NEW b \in Nat, x <= y
    PROVE  x * b <= y * b
<1>1. y - x \in Nat
  OBVIOUS
<1>2. (y - x) * b >= 0
  BY <1>1
<1>3. (y - x) * b = y * b - x * b
  OBVIOUS
<1> QED  BY <1>2, <1>3

LEMMA Multiple ==
    ASSUME NEW u \in Nat, NEW step \in Nat \ {0}, u % step = 0
    PROVE  \E k \in Nat : u = k * step
<1> DEFINE k == u \div step
           r == u % step
<1>1. k \in Int /\ r \in Int /\ u = step * k + r /\ k >= 0
  OBVIOUS
<1> HIDE DEF k, r
<1>2. k \in Nat /\ u = k * step
  <2>1. r = 0
    BY DEF r
  <2>2. step * k = k * step /\ step * k \in Int /\ u = step * k
    BY <1>1, <2>1
  <2> QED  BY <1>1, <2>2
<1> QED  BY <1>2

LEMMA QuantizeWhole ==
    ASSUME NEW a \in Nat, NEW b \in Nat \ {0}, NEW mode, NEW step \in Nat \ {0}, NEW k \in Nat
    PROVE  /\ b * (k * step) <= a => k * step <= QuantizeRatio(a, b, mode, step)
           /\ a <= b * (k * step) => QuantizeRatio(a, b, mode, step) <= k * step
<1> DEFINE unit == b * step
           q == a \div unit
           r == a % unit
           away == \/ mode = "ROUND_HALF_UP" /\ 2 * r >= unit
                   \/ mode = "ROUND_HALF_EVEN" /\ (2 * r > unit \/ (2 * r = unit /\ q % 2 = 1))
                   \/ mode = "ROUND_UP" /\ 2 * r > 0
           n == IF away THEN q + 1 ELSE q
<1>1. unit \in Nat \ {0}
  <2>1. \A x, y \in Nat \ {0} : x * y \in Nat \ {0}
    OBVIOUS
  <2> QED  BY <2>1
<1>2. QuantizeRatio(a, b, mode, step) = n * step
  BY DEF QuantizeRatio
<1>3. b * (k * step) = k * unit
  OBVIOUS
<1> HIDE DEF unit
<1>4. q \in Nat /\ r \in Nat /\ r < unit /\ a = unit * q + r
  BY <1>1
<1>5. away => r > 0
  <2> HIDE DEF r, q
  <2> QED  BY <1>1, <1>4
<1> HIDE DEF q, r, away
<1>6. n \in Nat /\ q <= n /\ n <= q + 1
  BY <1>4
<1>7. \A x, y \in Nat : x <= y => x * step <= y * step
  BY TimesBounded
<1>8. ASSUME k * unit <= a PROVE k <= n
  <2>1. ASSUME q + 1 <= k PROVE FALSE
    <3>1. (q + 1) * unit <= k * unit
      BY <1>1, <1>4, <2>1, TimesBounded
    <3>2. (q + 1) * unit = unit * q + unit
      BY <1>1, <1>4
    <3>3. k * unit \in Nat /\ unit * q \in Nat
      BY <1>1, <1>4
    <3> QED  BY <1>1, <1>4, <1>8, <3>1, <3>2, <3>3
  <2> QED  BY <1>4, <1>6, <2>1
<1>9. ASSUME a <= k * unit PROVE n <= k
  <2>1. ASSUME k < q PROVE FALSE
    <3>1. (k + 1) * unit <= q * unit
      BY <1>1, <1>4, <2>1, TimesBounded
    <3>2. (k + 1) * unit = k * unit + unit /\ q * unit = unit * q
      BY <1>1, <1>4
    <3>3. k * unit \in Nat /\ unit * q \in Nat
      BY <1>1, <1>4
    <3> QED  BY <1>1, <1>4, <1>9, <3>1, <3>2, <3>3
  <2>2. CASE q = k
    <3>1. k * unit = unit * q /\ unit * q \in Nat
      BY <1>1, <1>4, <2>2
    <3>2. r = 0
      BY <1>4, <1>9, <3>1
    <3> QED  BY <1>4, <1>5, <2>2, <3>2
  <2> QED  BY <1>4, <1>6, <2>1, <2>2
<1> HIDE DEF n
<1> QED  BY <1>2, <1>3, <1>6, <1>7, <1>8, <1>9

LEMMA AverageOfRanks ==
    ASSUME NEW S, IsFiniteSet(S), S # {}, NEW v, NEW w, NEW f, NEW rounding, IsRounding(rounding),
           \A x \in S : IsRankGrade(v[x]) /\ w[x] \in Nat \ {0} /\ f[x] = v[x] * w[x]
    PROVE  IsRankGrade(Average(SumFunctionOnSet(f, S), SumFunctionOnSet(w, S), rounding))
<1> DEFINE sum == SumFunctionOnSet(f, S)
           count == SumFunctionOnSet(w, S)
           average == Average(sum, count, rounding)
<1>1. PICK low \in Nat, high \in Nat : low = Unit /\ high = 9 * Unit
  BY UnitAssumption
<1>2. \A x \in S : w[x] \in Nat
  OBVIOUS
<1>3. \A x \in S : \E k \in Int : low <= k /\ k <= high /\ f[x] = k * w[x]
  BY <1>1 DEF IsRankGrade
<1>4. sum \in Int /\ count * low <= sum /\ sum <= count * high
  <2>1. low \in Int /\ high \in Int
    OBVIOUS
  <2>2. /\ SumFunctionOnSet(w, S) \in Int /\ SumFunctionOnSet(f, S) \in Int
        /\ SumFunctionOnSet(w, S) * low <= SumFunctionOnSet(f, S)
        /\ SumFunctionOnSet(f, S) <= SumFunctionOnSet(w, S) * high
    BY <1>2, <1>3, <2>1, WeightedBetween
  <2> QED  BY <2>2
<1>5. count \in Nat \ {0}
  BY PositiveTotal
<1> HIDE DEF sum, count
<1>6. sum \in Nat
  <2>1. \A k, m \in Nat : k * m \in Nat
    OBVIOUS
  <2>2. count * low \in Nat
    BY <1>5, <2>1
  <2> QED  BY <1>4, <2>2
<1>7. average \in Int
  BY <1>4, <1>5, AverageInt
<1>8. low <= average /\ average <= high
  <2>1. CASE rounding = None
    <3>1. average = Divide(sum, count)
      BY <2>1 DEF Average
    <3> HIDE DEF average
    <3> QED  BY <1>4, <1>5, <3>1, DivideBetween
  <2>2. CASE rounding # None
    <3>1. PICK step \in Nat \ {0} : step = RoundingStep(rounding)
      BY <2>2 DEF IsRounding
    <3>2. average = QuantizeRatio(sum, count, rounding.mode, step)
      BY <2>2, <3>1 DEF Average, RoundingStep
    <3>3. Unit % step = 0
      BY <2>2, <3>1 DEF IsRounding
    <3>4. PICK k \in Nat : Unit = k * step
      <4>1. Unit \in Nat
        BY UnitAssumption
      <4> QED  BY <3>3, <4>1, Multiple
    <3>5. low = k * step /\ high = (9 * k) * step /\ 9 * k \in Nat
      BY <1>1, <3>1, <3>4
    <3> HIDE DEF average
    <3>6. low <= QuantizeRatio(sum, count, rounding.mode, step)
      BY <1>4, <1>5, <1>6, <3>1, <3>5, QuantizeWhole
    <3>7. QuantizeRatio(sum, count, rounding.mode, step) <= high
      BY <1>4, <1>5, <1>6, <3>1, <3>5, QuantizeWhole
    <3> QED  BY <3>2, <3>6, <3>7
  <2> QED  BY <2>1, <2>2
<1> HIDE DEF average
<1>9. IsRankGrade(average)
  BY <1>1, <1>7, <1>8 DEF IsRankGrade
<1> QED  BY <1>9 DEF average, sum, count

(* The values of semesters and grades of ranked courses are ranks.         *)
LEMMA SemesterRanked ==
    ASSUME NEW courses, IsFiniteSet(courses), courses # {}, \A c \in courses : IsCourse(c),
           NEW d, IsSettings(d), d.credit_weighted # None, ~CreditMissing(courses, d), NEW values,
           \A c \in courses : IsRankGrade(c.rank) /\ values[c.id].value = c.rank
    PROVE  IsRankGrade(SemesterValue(courses, d, values))
<1>1. \A k \in Unit..(9 * Unit) : k \in Nat
  BY UnitAssumption
<1>2. PICK f, w :
        /\ SemesterValue(courses, d, values)
             = Average(SumFunctionOnSet(f, courses), SumFunctionOnSet(w, courses), d.semester_rounding)
        /\ \A c \in courses : w[c] \in Nat \ {0} /\ f[c] = c.rank * w[c]
  BY <1>1, SemesterIsAverage DEF IsRankGrade
<1> DEFINE v == [c \in courses |-> c.rank]
<1>3. \A c \in courses : IsRankGrade(v[c]) /\ w[c] \in Nat \ {0} /\ f[c] = v[c] * w[c]
  BY <1>2
<1>4. IsRounding(d.semester_rounding)
  BY DEF IsSettings
<1> HIDE DEF v
<1> QED  BY <1>2, <1>3, <1>4, AverageOfRanks

(* So are the components of a grade.                                       *)
LEMMA ComponentsRanked ==
    ASSUME NEW S, IsFiniteSet(S), NEW d, IsSettings(d), \A s \in S : IsRankGrade(s.value),
           NEW k \in DOMAIN Components(S, d)
    PROVE  IsRankGrade(Components(S, d)[k].value)
<1>1. CASE d.weighting_mode = "GRADE_ONLY"
  <2> DEFINE T == {s \in S : s.record.grade = k}
             v == [s \in T |-> s.value]
             w == [s \in T |-> 1]
  <2>1. Components(S, d) = GradeComponents(S, d)
    BY <1>1 DEF Components
  <2>2. k \in GradesOf(S)
    BY <2>1 DEF GradeComponents
  <2>3. Components(S, d)[k].value = Average(SumFunction(v), Cardinality(T), d.grade_rounding)
    BY <2>1, <2>2 DEF GradeComponents
  <2>4. T # {} /\ IsFiniteSet(T)
    BY <2>2, FS_Subset DEF GradesOf
  <2>5. \A s \in T : IsRankGrade(v[s]) /\ w[s] = 1
    OBVIOUS
  <2>6. DOMAIN v = T
    OBVIOUS
  <2> HIDE DEF T, v, w
  <2>7. SumFunctionOnSet(w, T) = Cardinality(T)
    <3>1. SumFunctionOnSet(w, T) = Cardinality(T) * 1
      BY <2>4, <2>5, SumConstant
    <3> QED  BY <2>4, <3>1, FS_CardinalityType
  <2>8. \A s \in T : v[s] \in Int
    BY <2>5 DEF IsRankGrade
  <2>9. \A s \in T : IsRankGrade(v[s]) /\ w[s] \in Nat \ {0} /\ v[s] = v[s] * w[s]
    BY <2>5, <2>8
  <2>10. IsRounding(d.grade_rounding)
    BY DEF IsSettings
  <2>11. IsRankGrade(Average(SumFunctionOnSet(v, T), SumFunctionOnSet(w, T), d.grade_rounding))
    BY <2>4, <2>9, <2>10, AverageOfRanks
  <2> QED  BY <2>3, <2>6, <2>7, <2>11 DEF SumFunction
<1>2. CASE d.weighting_mode # "GRADE_ONLY"
  <2>1. \/ Components(S, d) = EqualComponents(S) \/ Components(S, d) = SemesterComponents(S, d)
        \/ Components(S, d) = LocalComponents(S, d)
    BY <1>2 DEF Components, IsSettings
  <2>2. k \in S /\ Components(S, d)[k].value = k.value
    BY <2>1 DEF EqualComponents, SemesterComponents, LocalComponents
  <2> QED  BY <2>2
<1> QED  BY <1>1, <1>2

(* Components that weigh 1 together and are ranks make up a grade.         *)
LEMMA RankedAggregate ==
    ASSUME NEW C, NEW S, NEW step, Averages(C, S, step), DOMAIN C # {}, WeightIn(C) = Unit * Unit,
           \A k \in DOMAIN C : IsRankGrade(C[k].value)
    PROVE  IsReflectedGrade(Aggregate(C))
<1>1. PICK k \in DOMAIN C : WeightIn(C) * C[k].value <= Aggregate(C)
  BY AggregateWithin
<1>2. PICK m \in DOMAIN C : Aggregate(C) <= WeightIn(C) * C[m].value
  BY AggregateWithin
<1>3. Aggregate(C) \in Int
  BY AggregateWithin
<1>4. PICK x \in Int, y \in Int : /\ x = C[k].value /\ Unit <= x
                                  /\ y = C[m].value /\ y <= 9 * Unit
  BY DEF IsRankGrade
<1>5. One <= Unit * Unit * x /\ Unit * Unit * y <= 9 * One
  BY <1>4, UnitAssumption DEF One
<1>6. Unit * Unit * x <= Aggregate(C) /\ Aggregate(C) <= Unit * Unit * y
  BY <1>1, <1>2, <1>4
<1>7. Unit * Unit * x \in Int /\ Unit * Unit * y \in Int /\ One \in Int
  BY <1>4, UnitAssumption DEF One
<1> HIDE DEF One
<1>8. Aggregate(C) \in One..(9 * One)
  BY <1>3, <1>5, <1>6, <1>7
<1> QED  BY <1>8 DEF IsReflectedGrade

-----------------------------------------------------------------------------
(* Weights that are covered fit: what is selected has all the weight.      *)
Covers(w, keys) ==
    /\ keys \subseteq Given(w)
    /\ \A k \in DOMAIN w \ keys : w[k] \in {None, 0}

LEMMA CoveredWeights ==
    ASSUME NEW w, IsFiniteSet(DOMAIN w), InRange(w), Total(w) = Unit, NEW keys, Covers(w, keys)
    PROVE  UsableWeights(w, keys)
<1>1. IsFiniteSet(Given(w)) /\ keys \in SUBSET Given(w)
  BY FS_Subset DEF Given, Covers
<1>2. Ints(w, Given(w))
  BY DEF InRange, Ints
<1>3. SumFunctionOnSet(w, Given(w)) = SumFunctionOnSet(w, keys) + SumFunctionOnSet(w, Given(w) \ keys)
  BY <1>1, <1>2, SumOfParts
<1>4. SumFunctionOnSet(w, Given(w) \ keys) = 0
  <2> DEFINE rest == Given(w) \ keys
  <2>1. IsFiniteSet(rest) /\ \A k \in rest : w[k] = 0
    BY <1>1, FS_Subset DEF Covers, Given
  <2> HIDE DEF rest
  <2>2. SumFunctionOnSet(w, rest) = Cardinality(rest) * 0
    BY <2>1, SumConstant
  <2>3. Cardinality(rest) * 0 = 0
    BY <2>1, FS_CardinalityType
  <2> QED  BY <2>2, <2>3 DEF rest
<1>5. SumFunctionOnSet(w, keys) \in Int
  <2>1. IsFiniteSet(keys) /\ Ints(w, keys)
    BY <1>1, <1>2, FS_Subset DEF Ints
  <2> QED  BY <2>1, SumInt
<1>6. SumFunctionOnSet(w, keys) = Unit
  BY <1>3, <1>4, <1>5 DEF Total
<1>7. \A k \in keys : w[k] # None
  BY DEF Covers, Given
<1> QED  BY <1>6, <1>7 DEF UsableWeights, Covers

LEMMA CoveredTerms ==
    ASSUME NEW S, IsFiniteSet(S), \A s \in S : IsGraded(s), OnePerTerm(S), NEW d, Weighable(d),
           Covers(d.semester_weights, {TermOf(s) : s \in S}),
           \A g \in Grades : Given(OfGrade(d.semester_weights, g)) # {}
                               => CompleteSum(OfGrade(d.semester_weights, g))
    PROVE  UsableLocalWeights(S, d)
<1> DEFINE sw == d.semester_weights
           terms == {TermOf(s) : s \in S}
<1>1. \A s \in S : TermOf(s) \in terms /\ sw[TermOf(s)] # None
  BY DEF Covers, Given
<1>2. \A t \in Terms \ terms : sw[t] \in {None, 0}
  BY DEF Covers, Weighable
<1>3. ASSUME NEW g \in GradesOf(S)
      PROVE  SumFunction([s \in {x \in S : x.record.grade = g} |-> sw[TermOf(s)]]) = Unit
  <2> DEFINE T == {x \in S : x.record.grade = g}
             own == [s \in T |-> sw[TermOf(s)]]
             term == [s \in T |-> TermOf(s)]
             w == OfGrade(sw, g)
  <2>1. PICK a \in S : a.record.grade = g
    BY DEF GradesOf
  <2>2. g \in Grades /\ IsFiniteSet(T)
    BY <2>1, FS_Subset DEF IsGraded
  <2>3. DOMAIN w = {g} \X (1..2) /\ \A t \in DOMAIN w : w[t] = sw[t]
    BY DEF OfGrade
  <2>4. \A s \in T : TermOf(s) \in {g} \X (1..2)
    BY DEF TermOf, IsGraded
  <2>5. Given(w) # {}
    <3>1. TermOf(a) \in DOMAIN w
      BY <2>1, <2>3, <2>4
    <3> HIDE DEF w
    <3>2. w[TermOf(a)] # None
      BY <1>1, <2>3, <3>1
    <3> QED  BY <3>1, <3>2 DEF Given
  <2>6. Given(w) = DOMAIN w /\ Total(w) = Unit
    BY <2>2, <2>5 DEF CompleteSum
  <2>7. \A t \in DOMAIN w : t \in Terms /\ w[t] # None
    <3> HIDE DEF w
    <3>1. \A t \in DOMAIN w : t \in Terms
      BY <2>2, <2>3 DEF Terms
    <3>2. \A t \in Given(w) : w[t] # None
      BY DEF Given
    <3> QED  BY <2>6, <3>1, <3>2
  <2>8. InRange(w)
    <3> HIDE DEF w
    <3>1. \A t \in DOMAIN w : t \in Given(sw)
      BY <2>3, <2>7 DEF Given, Weighable
    <3> QED  BY <2>3, <2>6, <3>1 DEF InRange, Weighable
  <2>9. Image(term, T) \subseteq DOMAIN w
    BY <2>3, <2>4 DEF Image
  <2>10. \A t \in DOMAIN w \ Image(term, T) : w[t] = 0
    <3> SUFFICES ASSUME NEW t \in DOMAIN w, t \notin Image(term, T) PROVE w[t] = 0
      OBVIOUS
    <3>1. t \notin terms
      <4> SUFFICES ASSUME NEW s \in S, t = TermOf(s) PROVE FALSE
        OBVIOUS
      <4>1. s.record.grade = g
        BY <2>3 DEF TermOf
      <4> QED  BY <4>1 DEF Image
    <3> HIDE DEF w, terms
    <3> QED  BY <1>2, <2>3, <2>7, <3>1
  <2>11. IsFiniteSet(DOMAIN w)
    <3>1. IsFiniteSet({g}) /\ IsFiniteSet(1..2)
      <4>1. IsFiniteSet({g})
        BY FS_Singleton
      <4>2. IsFiniteSet(1..2)
        <5>1. 1 \in Int /\ 2 \in Int
          OBVIOUS
        <5> QED  BY <5>1, FS_Interval
      <4> QED  BY <4>1, <4>2
    <3> QED  BY <2>3, <3>1, FS_Product
  <2>12. UsableWeights(w, Image(term, T))
    <3> HIDE DEF w, term, T
    <3>1. Covers(w, Image(term, T))
      BY <2>6, <2>9, <2>10 DEF Covers
    <3> QED  BY <2>6, <2>8, <2>11, <3>1, CoveredWeights
  <2>13. \A x, y \in T : term[x] = term[y] => x = y
    BY DEF OnePerTerm
  <2>14. \A s \in T : own[s] = w[term[s]]
    BY <2>3, <2>4
  <2>15. Ints(w, Image(term, T))
    <3> HIDE DEF w, term
    <3> QED  BY <2>6, <2>8, <2>9 DEF Ints, InRange
  <2>16. DOMAIN own = T
    OBVIOUS
  <2> HIDE DEF T, own, term, w
  <2>17. SumFunctionOnSet(own, T) = SumFunctionOnSet(w, Image(term, T))
    BY <2>2, <2>13, <2>14, <2>15, SumRenamed
  <2>18. SumFunction(own) = Unit
    BY <2>12, <2>16, <2>17 DEF SumFunction, UsableWeights
  <2> QED  BY <2>18 DEF own, T
<1> HIDE DEF terms
<1> QED  BY <1>1, <1>2, <1>3 DEF UsableLocalWeights, terms

(* As many terms as records: no two of a term.                             *)
LEMMA DifferentTerms ==
    ASSUME NEW R, IsFiniteSet(R), NEW h, Cardinality(Image(h, R)) = Cardinality(R)
    PROVE  \A r, q \in R : h[r] = h[q] => r = q
<1> DEFINE f == [r \in R |-> h[r]]
           T == Image(h, R)
<1>1. f \in Surjection(R, T)
  BY DEF Surjection, Image
<1> HIDE DEF f, T
<1>2. f \in Injection(R, T)
  BY <1>1, FS_Surjection DEF T
<1>3. \A r, q \in R : f[r] = f[q] => r = q
  BY <1>2 DEF Injection, IsInjective
<1> QED  BY <1>3 DEF f

-----------------------------------------------------------------------------
(* A rule that leaves nothing to a reviewer, and records of which all can  *)
(* be counted: everything is read, valued, and selected.                   *)
Computes(t) ==
    /\ t.policy = "VOCATIONAL_INCLUDED" /\ t.d.weighting_mode # "EQUAL"
    /\ Settled(t.d, t.records) /\ \A r \in t.records : Countable(r)
    /\ Included(t.records, t.d) # {} /\ Covered(t.d, Included(t.records, t.d))

LEMMA AllRead ==
    ASSUME NEW t \in Tasks, t.kind = "SCORE", Computes(t)
    PROVE  Inputs(t) = [status |-> "READY", records |-> t.records]
<1> DEFINE stripped(r) == [r EXCEPT !.courses = VerifiedCourses(r)]
           kept == {r \in t.records : InScope(r, t.policy) /\ VerifiedCourses(r) # {}}
           read == {stripped(r) : r \in kept}
<1>1. IsHistory(t.records)
  BY TasksAssumption
<1>2. \A r \in t.records : VerifiedCourses(r) = r.courses
  BY DEF Computes, Countable, VerifiedCourses
<1>3. \A r \in t.records : stripped(r) = r
  BY <1>1, <1>2 DEF IsHistory, IsStored, IsRecord
<1>4. \A r \in t.records : InScope(r, t.policy) /\ VerifiedCourses(r) # {}
  BY <1>2 DEF Computes, Countable, InScope
<1>5. t.records # {}
  BY DEF Computes, Included
<1>6. Inputs(t) = IF t.policy \in {"TRACK_DEPENDENT", "MANUAL_REVIEW"}
                  THEN [status |-> "NEEDS_REVIEW", records |-> {}]
                  ELSE [status |-> IF read = {} THEN "INSUFFICIENT_DATA" ELSE "READY",
                        records |-> read]
  BY DEF Inputs, SelectInputs
<1>7. kept = t.records
  BY <1>4
<1> HIDE DEF stripped, kept
<1>8. read = t.records
  BY <1>3, <1>7
<1> HIDE DEF read
<1> QED  BY <1>5, <1>6, <1>8 DEF Computes

LEMMA AllValued ==
    ASSUME NEW given, NEW d, NEW table, NEW c \in UNION {r.courses : r \in given}, c.rank # None
    PROVE  LET values == CourseValues(given, d, table)
           IN  c.id \in DOMAIN values /\ values[c.id].scale = "RANK_GRADE"
<1> DEFINE valued == {e \in UNION {r.courses : r \in given} : CourseValue(e, d, table) # None}
           values == CourseValues(given, d, table)
<1>1. c \in valued
  BY DEF CourseValue
<1>2. DOMAIN values = {e.id : e \in valued} /\ \A id \in DOMAIN values : values[id].scale = "RANK_GRADE"
  BY DEF CourseValues
<1> HIDE DEF valued, values
<1>3. c.id \in DOMAIN values
  BY <1>1, <1>2
<1> QED  BY <1>2, <1>3 DEF values

LEMMA AllSelected ==
    ASSUME NEW t \in Tasks, t.kind = "SCORE", Computes(t)
    PROVE  /\ Selection(t).status = "READY" /\ Selection(t).scale = "RANK_GRADE"
           /\ Selection(t).semesters = OfferTo(t)
           /\ \A s \in OfferTo(t) : \E r \in Included(t.records, t.d) :
                s = [record |-> [r EXCEPT !.courses = r.courses],
                     value |-> SemesterValue(r.courses, t.d, ValuesOf(t))]
           /\ \A r \in Included(t.records, t.d) : \E s \in OfferTo(t) :
                s = [record |-> [r EXCEPT !.courses = r.courses],
                     value |-> SemesterValue(r.courses, t.d, ValuesOf(t))]
<1> DEFINE given == t.records
           d == t.d
           values == ValuesOf(t)
           R == Included(given, d)
           scored == ScoredSemesters(given, d, values)
           all == UNION {r.courses : r \in given}
<1>1. /\ ValidPayload(d) /\ d.semester_method = "ALL" /\ d.subject_method = "ALL"
      /\ d.subject_scope = "ALL" /\ d.credit_weighted # None /\ d.minimum_credits = None
      /\ \A r \in given : Inclusion(r, d) # None
      /\ \A r \in given : Countable(r)
      /\ R # {}
  BY DEF Computes, Settled
<1>2. Inputs(t) = [status |-> "READY", records |-> given]
  BY AllRead
<1>3. \A c \in all : c.id \in DOMAIN values /\ values[c.id].scale = "RANK_GRADE" /\ HasCredit(c)
  <2> SUFFICES ASSUME NEW c \in all
               PROVE  c.id \in DOMAIN values /\ values[c.id].scale = "RANK_GRADE" /\ HasCredit(c)
    OBVIOUS
  <2>1. c.rank # None /\ HasCredit(c)
    BY <1>1 DEF Countable
  <2>2. values = CourseValues(given, d, t.table)
    BY <1>2 DEF ValuesOf
  <2> HIDE DEF values, given, d
  <2>3. /\ c.id \in DOMAIN CourseValues(given, d, t.table)
        /\ CourseValues(given, d, t.table)[c.id].scale = "RANK_GRADE"
    BY <2>1, AllValued
  <2> QED  BY <2>1, <2>2, <2>3
<1>4. Unvalued(given, values) = {}
  BY <1>3 DEF Unvalued
<1>5. OfferTo(t) = scored
  BY <1>2 DEF OfferTo
<1>6. R \subseteq given
  BY DEF Included
<1> HIDE DEF given, d, values
<1>7. \A r \in R : SelectedCourses(r, d, values) = r.courses /\ r.courses # {}
  BY <1>1, <1>6 DEF SelectedCourses, InSubjectScope, Countable
<1>8. Offered(given, d, values) = R
  BY <1>7 DEF Offered
<1>9. \A r \in R : ~BelowMinimum(r.courses, d) /\ ~CreditMissing(r.courses, d)
  BY <1>1, <1>3, <1>6 DEF BelowMinimum, CreditMissing
<1>10. Scales(given, d, values) = {"RANK_GRADE"}
  <2>1. PICK r \in R : TRUE
    BY <1>1
  <2>2. PICK c \in r.courses : TRUE
    BY <1>7
  <2>3. c \in UNION {q.courses : q \in R} /\ \A e \in UNION {q.courses : q \in R} : e \in all
    BY <1>6
  <2>4. \A e \in UNION {q.courses : q \in R} :
          InSubjectScope(e, d, values) /\ values[e.id].scale = "RANK_GRADE"
    BY <1>1, <1>3, <2>3 DEF InSubjectScope
  <2> HIDE DEF all, R
  <2> QED  BY <2>3, <2>4 DEF Scales, R
<1>11. ~ForReview(given, d, values)
  <2>1. ~(Cardinality(Scales(given, d, values)) > 1)
    <3>1. Cardinality({"RANK_GRADE"}) = 1
      BY FS_Singleton
    <3> QED  BY <1>10, <3>1
  <2>2. "MANUAL_REVIEW" \notin {d.semester_method, d.subject_method, d.subject_scope}
    BY <1>1
  <2>3. \A r \in R : \A c \in r.courses : c.id \in DOMAIN values
    BY <1>3, <1>6
  <2>4. \A r \in R : ~CreditMissing(SelectedCourses(r, d, values), d)
    BY <1>7, <1>9
  <2> HIDE DEF all
  <2> QED  BY <1>1, <1>8, <2>1, <2>2, <2>3, <2>4 DEF ForReview
<1> DEFINE semester(r) == [record |-> [r EXCEPT !.courses = r.courses],
                           value |-> SemesterValue(r.courses, d, values)]
<1>12. scored = {semester(r) : r \in R}
  <2>1. \A r \in R : ~BelowMinimum(SelectedCourses(r, d, values), d)
    BY <1>7, <1>9
  <2>2. {x \in Offered(given, d, values) : ~BelowMinimum(SelectedCourses(x, d, values), d)} = R
    BY <1>8, <2>1
  <2> HIDE DEF R
  <2> QED  BY <1>7, <2>2 DEF ScoredSemesters
<1>13. scored # {}
  BY <1>1, <1>12
<1>14. Selection(t) = SelectTerms(Inputs(t), d, values)
  BY <1>1, <1>2, <1>4 DEF Selection, Inputs, ValuesOf, d, values, given
<1>15. SelectSemesters(scored, d) = scored
  BY <1>1 DEF SelectSemesters
<1>16. SelectTerms(Inputs(t), d, values)
         = [status |-> "READY", semesters |-> scored, scale |-> CHOOSE s \in {"RANK_GRADE"} : TRUE]
  BY <1>2, <1>10, <1>11, <1>13, <1>15 DEF SelectTerms
<1>17. (CHOOSE s \in {"RANK_GRADE"} : TRUE) = "RANK_GRADE"
  OBVIOUS
<1>18. /\ Selection(t).status = "READY" /\ Selection(t).scale = "RANK_GRADE"
       /\ Selection(t).semesters = scored
  BY <1>14, <1>16, <1>17
<1> HIDE DEF R, scored
<1> QED  BY <1>5, <1>12, <1>18 DEF R, d, given, values

(* What is selected are the included records, each with a rank as value.   *)
LEMMA AllRanked ==
    ASSUME NEW t \in Tasks, t.kind = "SCORE", Computes(t)
    PROVE  /\ OfferTo(t) # {} /\ {s.record : s \in OfferTo(t)} = Included(t.records, t.d)
           /\ \A s \in OfferTo(t) : IsRankGrade(s.value) /\ IsGraded(s)
           /\ RankedThroughout(OfferTo(t))
<1> DEFINE given == t.records
           d == t.d
           values == ValuesOf(t)
           R == Included(given, d)
           S == OfferTo(t)
<1>1. IsHistory(given) /\ IsSettings(d)
  BY TasksAssumption
<1>2. R \subseteq given /\ R # {} /\ d.credit_weighted # None /\ d.minimum_credits = None
  BY DEF Included, Computes, Settled
<1>3. \A r \in given : IsStored(r) /\ [r EXCEPT !.courses = r.courses] = r
  BY <1>1 DEF IsHistory, IsStored, IsRecord
<1>4. /\ \A s \in S : \E r \in R : s.record = r /\ s.value = SemesterValue(r.courses, d, values)
      /\ \A r \in R : \E s \in S : s.record = r
  <2>1. /\ \A s \in S : \E r \in R :
             s = [record |-> [r EXCEPT !.courses = r.courses], value |-> SemesterValue(r.courses, d, values)]
        /\ \A r \in R : \E s \in S :
             s = [record |-> [r EXCEPT !.courses = r.courses], value |-> SemesterValue(r.courses, d, values)]
    BY AllSelected
  <2>2. \A r \in R : [r EXCEPT !.courses = r.courses] = r
    BY <1>2, <1>3
  <2> HIDE DEF S, R, d, values
  <2> QED  BY <2>1, <2>2
<1>5. \A c \in UNION {q.courses : q \in given} : c.rank # None => values[c.id].value = c.rank
  <2> SUFFICES ASSUME NEW c \in UNION {q.courses : q \in given}, c.rank # None
               PROVE  values[c.id].value = c.rank
    OBVIOUS
  <2>1. values = CourseValues(given, d, t.table)
    BY AllRead DEF ValuesOf
  <2>2. \A a, b \in UNION {q.courses : q \in given} : a.id = b.id => a = b
    BY <1>1 DEF IsHistory
  <2> HIDE DEF given, d, values
  <2>3. CourseValues(given, d, t.table)[c.id].value = c.rank
    BY <2>2, ValueIsRank
  <2> QED  BY <2>1, <2>3
<1>6. ASSUME NEW r \in R
      PROVE  /\ IsFiniteSet(r.courses) /\ r.courses # {}
             /\ \A c \in r.courses : IsCourse(c) /\ HasCredit(c) /\ c.rank # None /\ IsRankGrade(c.rank)
             /\ r.grade \in Grades /\ r.semester \in 1..2
             /\ IsRankGrade(SemesterValue(r.courses, d, values))
  <2>1. r \in given /\ IsStored(r) /\ Countable(r)
    BY <1>2, <1>3 DEF Computes
  <2>2. /\ IsFiniteSet(r.courses) /\ r.courses # {}
        /\ \A c \in r.courses : IsCourse(c) /\ HasCredit(c) /\ c.rank # None /\ IsRankGrade(c.rank)
        /\ r.grade \in Grades /\ r.semester \in 1..2
    BY <2>1 DEF IsStored, Countable
  <2>3. \A c \in r.courses : IsRankGrade(c.rank) /\ values[c.id].value = c.rank
    BY <1>5, <2>1, <2>2
  <2>4. ~CreditMissing(r.courses, d)
    BY <2>2 DEF CreditMissing
  <2>5. \A c \in r.courses : IsCourse(c)
    BY <2>2
  <2> HIDE DEF d, values, R, given
  <2>6. IsRankGrade(SemesterValue(r.courses, d, values))
    BY <1>1, <1>2, <2>2, <2>3, <2>4, <2>5, SemesterRanked
  <2> QED  BY <2>2, <2>6
<1> HIDE DEF S, R, d, values, given
<1>7. \A k \in Unit..(9 * Unit) : k \in Nat
  BY UnitAssumption
<1>8. \A s \in S : IsRankGrade(s.value) /\ IsGraded(s)
  <2> SUFFICES ASSUME NEW s \in S PROVE IsRankGrade(s.value) /\ IsGraded(s)
    OBVIOUS
  <2>1. PICK r \in R : s.record = r /\ s.value = SemesterValue(r.courses, d, values)
    BY <1>4
  <2>2. IsRankGrade(s.value) /\ s.record.grade \in Grades /\ s.record.semester \in 1..2
    BY <1>6, <2>1
  <2> QED  BY <1>7, <2>2 DEF IsGraded, IsRankGrade
<1>9. RankedThroughout(S)
  BY <1>4, <1>6, <1>8 DEF RankedThroughout
<1>10. {s.record : s \in S} = R /\ S # {}
  BY <1>2, <1>4
<1> QED  BY <1>8, <1>9, <1>10 DEF S, R, d, given

(* Weights the records cover fit, in every mode but EQUAL.                 *)
LEMMA CoveredFit ==
    ASSUME NEW t \in Tasks, t.kind = "SCORE", Computes(t)
    PROVE  WeightsFit(OfferTo(t), t.d) /\ Weighable(t.d)
<1> DEFINE d == t.d
           R == Included(t.records, d)
           S == OfferTo(t)
           term == [r \in R |-> <<r.grade, r.semester>>]
<1>1. IsSettings(d) /\ ValidWeightingMode(d.weighting_mode, d.grade_weights, d.semester_weights)
  BY TasksAssumption DEF Computes, Settled, ValidPayload, ValidShared
<1>2. Weighable(d)
  BY <1>1 DEF ValidWeightingMode, Weighable, IsSettings
<1>3. d.weighting_mode \in {"GRADE_ONLY", "GLOBAL_SEMESTER", "GRADE_WITHIN_SEMESTER"}
  BY <1>1 DEF IsSettings, Computes
<1>4. {s.record : s \in S} = R /\ \A s \in S : IsGraded(s)
  BY AllRanked
<1>5. IsFiniteSet(S) /\ OfDifferentRecords(S)
  BY AllSelected, OfferedAreScored
<1>6. IsFiniteSet(R)
  <2>1. IsFiniteSet(t.records)
    BY TasksAssumption DEF IsHistory
  <2> QED  BY <2>1, FS_Subset DEF Included
<1>7. /\ d.weighting_mode \in {"GRADE_ONLY", "GRADE_WITHIN_SEMESTER"} =>
           Covers(d.grade_weights, {r.grade : r \in R})
      /\ d.weighting_mode \in {"GLOBAL_SEMESTER", "GRADE_WITHIN_SEMESTER"} =>
           /\ Covers(d.semester_weights, {<<r.grade, r.semester>> : r \in R})
           /\ Cardinality({<<r.grade, r.semester>> : r \in R}) = Cardinality(R)
  BY DEF Computes, Covered, Covers
<1> HIDE DEF d, R, S
<1>8. \A s \in S : s.record \in R
  BY <1>4
<1>9. GradesOf(S) = {r.grade : r \in R} /\ {TermOf(s) : s \in S} = {<<r.grade, r.semester>> : r \in R}
  <2>1. \A r \in R : \E s \in S : s.record = r
    BY <1>4
  <2> QED  BY <1>8, <2>1 DEF GradesOf, TermOf
<1>10. ASSUME d.weighting_mode \in {"GLOBAL_SEMESTER", "GRADE_WITHIN_SEMESTER"}
       PROVE  OnePerTerm(S)
  <2>1. Image(term, R) = {<<r.grade, r.semester>> : r \in R}
    BY DEF Image
  <2>2. \A r \in R : term[r] = <<r.grade, r.semester>>
    OBVIOUS
  <2> HIDE DEF term
  <2>3. \A r, q \in R : term[r] = term[q] => r = q
    BY <1>6, <1>7, <1>10, <2>1, DifferentTerms
  <2>4. \A x, y \in S : TermOf(x) = TermOf(y) => x.record = y.record
    BY <1>8, <2>2, <2>3 DEF TermOf
  <2> QED  BY <1>5, <2>4 DEF OnePerTerm, OfDifferentRecords
<1>11. IsFiniteSet(DOMAIN d.grade_weights) /\ IsFiniteSet(DOMAIN d.semester_weights)
  <2>1. 1 \in Int /\ 2 \in Int /\ 3 \in Int
    OBVIOUS
  <2>2. IsFiniteSet(1..3) /\ IsFiniteSet(1..2)
    BY <2>1, FS_Interval
  <2>3. IsFiniteSet(Terms)
    BY <2>2, FS_Product DEF Terms, Grades
  <2> QED  BY <1>2, <2>2, <2>3 DEF Weighable, Grades
<1>12. CASE d.weighting_mode = "GRADE_ONLY"
  <2>1. Given(d.semester_weights) = {} /\ Total(d.grade_weights) = Unit
    BY <1>1, <1>12 DEF ValidWeightingMode, CompleteSum
  <2>2. UsableWeights(d.grade_weights, GradesOf(S))
    BY <1>2, <1>7, <1>9, <1>11, <1>12, <2>1, CoveredWeights DEF Weighable
  <2> QED  BY <1>2, <1>12, <2>1, <2>2 DEF WeightsFit, d, S
<1>13. CASE d.weighting_mode = "GLOBAL_SEMESTER"
  <2>1. Given(d.grade_weights) = {} /\ Total(d.semester_weights) = Unit
    BY <1>1, <1>13 DEF ValidWeightingMode
  <2>2. UsableWeights(d.semester_weights, {TermOf(s) : s \in S})
    BY <1>2, <1>7, <1>9, <1>11, <1>13, <2>1, CoveredWeights DEF Weighable
  <2>3. OnePerTerm(S)
    BY <1>10, <1>13
  <2> QED  BY <1>2, <1>13, <2>1, <2>2, <2>3 DEF WeightsFit, d, S
<1>14. CASE d.weighting_mode = "GRADE_WITHIN_SEMESTER"
  <2>1. /\ Total(d.grade_weights) = Unit
        /\ \A g \in Grades : Given(OfGrade(d.semester_weights, g)) # {}
                               => CompleteSum(OfGrade(d.semester_weights, g))
    BY <1>1, <1>14 DEF ValidWeightingMode, CompleteSum
  <2>2. UsableWeights(d.grade_weights, GradesOf(S))
    BY <1>2, <1>7, <1>9, <1>11, <1>14, <2>1, CoveredWeights DEF Weighable
  <2>3. OnePerTerm(S) /\ Covers(d.semester_weights, {TermOf(s) : s \in S})
    BY <1>7, <1>9, <1>10, <1>14
  <2>4. UsableLocalWeights(S, d)
    BY <1>2, <1>4, <1>5, <2>1, <2>3, CoveredTerms
  <2> QED  BY <1>2, <1>14, <2>2, <2>4 DEF WeightsFit, d, S
<1> QED  BY <1>3, <1>12, <1>13, <1>14

LEMMA ComputesGrade ==
    ASSUME NEW t \in Tasks, t.kind = "SCORE", Computes(t)
    PROVE  Grade(t) # None
<1> DEFINE d == t.d
           S == OfferTo(t)
           C == Components(S, d)
           sum == Aggregate(C)
<1>1. /\ Selection(t).status = "READY" /\ Selection(t).scale = "RANK_GRADE"
      /\ Selection(t).semesters = S
  BY AllSelected
<1>2. /\ S # {} /\ RankedThroughout(S)
      /\ \A s \in S : IsRankGrade(s.value) /\ IsGraded(s)
  BY AllRanked
<1>3. WeightsFit(S, d) /\ Weighable(d)
  BY CoveredFit
<1>4. IsFiniteSet(S)
  BY <1>1, OfferedAreScored
<1>5. IsSettings(d) /\ d.weighting_mode # "EQUAL"
  BY TasksAssumption DEF Computes
<1>6. d.display_digits # None => d.mode # "MANUAL_REVIEW" /\ Step(One, d.display_digits) \in Nat \ {0}
  BY <1>5 DEF IsSettings, Computes, Settled
<1> HIDE DEF S, d
<1>7. \A k \in DOMAIN C : IsRankGrade(C[k].value)
  BY <1>2, <1>4, <1>5, ComponentsRanked
<1>8. DOMAIN C # {}
  <2>1. GradesOf(S) # {}
    BY <1>2 DEF GradesOf
  <2>2. \/ C = EqualComponents(S) \/ C = SemesterComponents(S, d)
        \/ C = LocalComponents(S, d) \/ C = GradeComponents(S, d)
    BY <1>5 DEF Components, IsSettings
  <2>3. DOMAIN C = S \/ DOMAIN C = GradesOf(S)
    BY <2>2 DEF EqualComponents, SemesterComponents, LocalComponents, GradeComponents
  <2> QED  BY <1>2, <2>1, <2>3
<1>9. Averages(C, S, RoundingStep(d.grade_rounding)) /\ NearlyOne(C, S, d)
  BY <1>2, <1>3, <1>4, <1>5, ComponentsAverage
<1> HIDE DEF C
<1>10. WeightIn(C) \in Int /\ sum \in Int
  BY <1>8, <1>9, AggregateWithin
<1>11. WeightIn(C) = Unit * Unit
  <2>1. Unit * Unit - 0 <= WeightIn(C) /\ WeightIn(C) <= Unit * Unit + 0
    BY <1>5, <1>9 DEF NearlyOne
  <2>2. Unit * Unit \in Int
    BY UnitAssumption
  <2> QED  BY <1>10, <2>1, <2>2
<1>12. IsReflectedGrade(sum)
  BY <1>7, <1>8, <1>9, <1>11, RankedAggregate
<1> HIDE DEF sum
<1> DEFINE display == IF d.display_digits = None THEN sum
                      ELSE Quantize(sum, d.mode, Step(One, d.display_digits))
<1>13. Grade(t) = [unrounded |-> sum, display |-> display]
  BY <1>1, <1>2, <1>3, <1>6, <1>7, <1>12 DEF Grade, ReflectedGrade, sum, C, d
<1>14. display \in Int
  <2>1. 1 \in Nat \ {0}
    OBVIOUS
  <2>2. d.display_digits # None => QuantizeRatio(sum, 1, d.mode, Step(One, d.display_digits)) \in Int
    BY <1>6, <1>10, <2>1, QuantizeInt
  <2> QED  BY <1>10, <2>2 DEF Quantize
<1> HIDE DEF display
<1>15. [unrounded |-> sum, display |-> display] \in [unrounded : Int, display : Int]
  BY <1>10, <1>14
<1> QED  BY <1>13, <1>15, BlankAssumption

(* A valid rule that leaves nothing to a reviewer is computed for all      *)
(* records that cover its weights: none of the refusals on the way from    *)
(* the records to the grade applies, however the weights are divided.      *)
THEOREM CoveredComputes == SpecBatch => []Computable
<1>1. TaskInv => Computable
  BY ComputesGrade DEF TaskInv, Computable, Computes, Scored
<1> QED  BY <1>1, TasksSound, PTL

=============================================================================
