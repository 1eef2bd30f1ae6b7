---------------------------- MODULE ResultImports ----------------------------
(***************************************************************************)
(* Admission results of past years: a file is uploaded, or collected page  *)
(* by page from the portal, read against the catalogue, staged as a        *)
(* dataset, retargeted to another consultation year, and published in      *)
(* place of the dataset its source had published before.  No row is        *)
(* locked: a request reads, and its UPDATEs and its commit come later, as  *)
(* one step, against whatever has been committed by then.                  *)
(***************************************************************************)
EXTENDS Naturals, FiniteSets

CONSTANTS Requests,    \* administrators' requests under way at once
          Files,       \* uploads, by source_hash
          Portal,      \* those collected from the portal
          Source,      \* [Files -> source code and result year]
          LinesOf,     \* [Files -> SUBSET Lines]: the lines of each file
          Text,        \* [Lines -> what a line says]
          Programs,    \* the catalogue: campus, name and day_night of each program
          Tracks,      \* <<year, program>>: the rounds and tracks of a year
          Targets,     \* consultation years
          FirstTarget, \* the year after the result year
          Pages,       \* pages of the portal
          MaxRetries,  \* CollectionPolicy.max_retries
          None

Lines == UNION {LinesOf[f] : f \in Files}
Unpublished == {"STAGED", "READY", "BLOCKED"}
ErrorIssues == {"INVALID_VALUE", "SCORE_OUT_OF_RANGE"}
Issues == {"CATALOG_MAPPING_REQUIRED", "DUPLICATE_BUSINESS_KEY", "SCORE_BASIS_REVIEW_REQUIRED"}
          \cup ErrorIssues
Mapping == {"CATALOG_MAPPING_REQUIRED", "DUPLICATE_BUSINESS_KEY"}

Dataset == [target : Targets, lifecycle : Unpublished \cup {"PUBLISHED", "SUPERSEDED"},
            valid : Nat, review : Nat, error : Nat, published : Nat, supersedes : Files \cup {None}]
Row == [target : Targets, program : Programs \cup {None}, campus : STRING \cup {None},
        day : {"DAY", "NIGHT", "UNKNOWN"}, issues : SUBSET Issues,
        status : {"VALID", "REVIEW", "ERROR"},
        publication : {"STAGED", "PUBLISHED", "SUPERSEDED", "EXCLUDED"}]

ASSUME ImportAssumption ==
    /\ Portal \subseteq Files
    /\ Pages \in Nat \ {0} /\ MaxRetries \in Nat
    /\ None \notin Programs \cup Dataset \cup Row
    /\ FirstTarget \in Targets
    /\ \A f, g \in Files : f # g => LinesOf[f] \cap LinesOf[g] = {}
    /\ \A f \in Files : IsFiniteSet(LinesOf[f])

(* Names of the catalogue are required (catalog_admin), and a line without  *)
(* a name is one that could not be read (_text, required).                  *)
ASSUME CatalogAssumption ==
    /\ IsFiniteSet(Programs)
    /\ \A q \in Programs :
        /\ q.name # ""
        /\ q.campus \in STRING /\ q.campus # None
        /\ q.day \in {"DAY", "NIGHT", "UNKNOWN"}
    /\ \A l \in Lines :
        /\ Text[l].campus \in STRING \cup {None}
        /\ Text[l].day \in {"DAY", "NIGHT", "UNKNOWN"}
        /\ Text[l].issues \subseteq Issues \ Mapping
        /\ Text[l].name = "" => "INVALID_VALUE" \in Text[l].issues

VARIABLES dataset,    \* admission_result_import_datasets
          row,        \* admission_result_import_rows
          raw,        \* admission_result_raw_batches
          req,        \* the requests under way
          overtaken   \* history: sources a request has written over a commit it had not read

vars == <<dataset, row, raw, req, overtaken>>

(* Every column of a dataset and of its rows has one of its values, a       *)
(* dataset and its rows exist together, and what a request holds was read.  *)
TypeOK ==
    /\ \A f \in Files : /\ dataset[f] = None \/ dataset[f] \in Dataset
                        /\ \A l \in LinesOf[f] : row[l] = None <=> dataset[f] = None
    /\ \A l \in Lines : row[l] = None \/ row[l] \in Row
    /\ raw \subseteq Portal
    /\ overtaken \subseteq {Source[f] : f \in Files}
    /\ \A p \in Requests : req[p] # None =>
        /\ req[p].file \in Files
        /\ req[p].at \in {"rows", "retarget", "previous", "publish"} =>
              dataset[req[p].file] # None /\ req[p].seen \in Dataset

Init ==
    /\ dataset = [f \in Files |-> None]
    /\ row = [l \in Lines |-> None]
    /\ raw = {}
    /\ req = [p \in Requests |-> None]
    /\ overtaken = {}

-----------------------------------------------------------------------------
(* Reading a file.                                                          *)

(* DatabaseCatalogResolver.resolve: one campus, one program of that name    *)
(* and day_night on it (an unknown day_night only if there is one program   *)
(* of that name), and a track of the year that admits to it.                *)
Resolve(name, campus, day, year) ==
    LET campuses == {c \in {q.campus : q \in Programs} : campus \in {None, c}}
        named == {q \in Programs : q.campus \in campuses /\ q.name = name}
        exact == {q \in named : q.day = day}
        alone == {q \in named : Cardinality(named) = 1 /\ "UNKNOWN" \in {day, q.day}}
        chosen == IF exact # {} THEN exact ELSE alone
        matches == {q \in chosen : <<year, q>> \in Tracks}
    IN IF Cardinality(campuses) = 1 /\ Cardinality(chosen) = 1 /\ matches # {}
       THEN CHOOSE q \in matches : TRUE
       ELSE None

StatusOf(issues) ==
    IF issues \cap ErrorIssues # {} THEN "ERROR" ELSE IF issues # {} THEN "REVIEW" ELSE "VALID"

(* _error_row keeps none of the names of a line it could not read.          *)
Name(l) == IF "INVALID_VALUE" \in Text[l].issues THEN "" ELSE Text[l].name

Mapped(r, match) ==
    IF match = None
    THEN [r EXCEPT !.program = None, !.issues = @ \cup {"CATALOG_MAPPING_REQUIRED"}]
    ELSE [r EXCEPT !.program = match, !.campus = match.campus, !.day = match.day]

WithStatus(r) == [r EXCEPT !.status = StatusOf(r.issues)]

ErrorRow(l, year) ==
    [target |-> year, program |-> None, campus |-> None, day |-> "UNKNOWN",
     issues |-> Text[l].issues, status |-> "ERROR", publication |-> "STAGED"]

Canonical(l, year) ==
    LET t == Text[l]
        plain == [target |-> year, program |-> None, campus |-> t.campus, day |-> t.day,
                  issues |-> t.issues, status |-> "VALID", publication |-> "STAGED"]
    IN IF Name(l) = "" THEN ErrorRow(l, year)
       ELSE WithStatus(Mapped(plain, Resolve(t.name, t.campus, t.day, year)))

SameKey(r, s) == r.program # None /\ r.program = s.program /\ r.target = s.target

(* _mark_duplicates, and the second half of retarget.                       *)
Marked(rows) ==
    [l \in DOMAIN rows |->
        IF \E m \in DOMAIN rows \ {l} : SameKey(rows[l], rows[m])
        THEN [rows[l] EXCEPT !.issues = @ \cup {"DUPLICATE_BUSINESS_KEY"},
                             !.status = IF @ = "VALID" THEN "REVIEW" ELSE @]
        ELSE rows[l]]

(* parse_admission_result_upload, of each file for each year.               *)
Parsed == [f \in Files |-> [y \in Targets |-> Marked([l \in LinesOf[f] |-> Canonical(l, y)])]]

With(rows, status) == Cardinality({l \in DOMAIN rows : rows[l].status = status})
Counted(d, rows) ==
    [d EXCEPT !.valid = With(rows, "VALID"), !.review = With(rows, "REVIEW"),
              !.error = With(rows, "ERROR"),
              !.lifecycle = IF With(rows, "ERROR") > 0 THEN "BLOCKED"
                            ELSE IF With(rows, "REVIEW") > 0 THEN "STAGED" ELSE "READY"]

Remapped_KeepsIssues(r, l, year) ==
    WithStatus(Mapped([r EXCEPT !.target = year], Resolve(Name(l), r.campus, r.day, year)))

(* The loop of retarget: campus_name and day_night are those the last       *)
(* match wrote, not those of the file.                                      *)
Remapped(r, l, year) ==
    WithStatus(Mapped([r EXCEPT !.target = year, !.issues = @ \ Mapping],
                      Resolve(Name(l), r.campus, r.day, year)))

Retargeted(rows, year) == Marked([l \in DOMAIN rows |-> Remapped(rows[l], l, year)])

-----------------------------------------------------------------------------
(* What the database makes of a request's writes.                           *)

(* The ORM writes the columns the request has changed and no other.         *)
Flushed(loaded, changed, current) ==
    [c \in DOMAIN current |-> IF changed[c] # loaded[c] THEN changed[c] ELSE current[c]]

Consistent(f, d) ==
    /\ d.valid + d.review + d.error = Cardinality(LinesOf[f])
    /\ d.published <= d.valid
    /\ d.lifecycle = "PUBLISHED" => d.published > 0

PublishedOnce(rows) ==
    LET live == {l \in Lines : rows[l] # None /\ rows[l].publication = "PUBLISHED"}
    IN \A l, m \in live : l # m => ~SameKey(rows[l], rows[m])

Accepted_NoIndex(datasets, rows) ==
    /\ \A f \in Files : datasets[f] # None => Consistent(f, datasets[f])
    /\ \A l \in Lines : rows[l] # None => (rows[l].status = "VALID" => rows[l].program # None)

(* The CHECKs and the partial unique index on published business keys.      *)
Accepted(datasets, rows) ==
    /\ \A f \in Files : datasets[f] # None => Consistent(f, datasets[f])
    /\ \A l \in Lines : rows[l] # None => (rows[l].status = "VALID" => rows[l].program # None)
    /\ PublishedOnce(rows)

End(p) == req' = [req EXCEPT ![p] = None]
Go(p, r) == req' = [req EXCEPT ![p] = r]
At(p, step) == req[p] # None /\ req[p].at = step

Published(f, year) ==
    {g \in Files \ {f} : /\ dataset[g] # None /\ dataset[g].lifecycle = "PUBLISHED"
                         /\ Source[g] = Source[f] /\ dataset[g].target = year}

RowsOf(f) == [l \in LinesOf[f] |-> row[l]]

(* Something the request has read is no longer so.                          *)
Overtaken(r) ==
    \/ dataset[r.file] # r.seen
    \/ r.at = "retarget" /\ RowsOf(r.file) # r.rows
    \/ r.at = "publish" /\ Published(r.file, r.seen.target) # r.previous

(* The commit, or the IntegrityError and the rollback.                      *)
Store(p, datasets, rows) ==
    /\ Accepted(datasets, rows)
    /\ dataset' = datasets
    /\ row' = rows
    /\ overtaken' = IF Overtaken(req[p]) THEN overtaken \cup {Source[req[p].file]} ELSE overtaken
    /\ End(p)
    /\ UNCHANGED raw

RollBack(p, datasets, rows) ==
    /\ ~Accepted(datasets, rows)
    /\ End(p)
    /\ UNCHANGED <<dataset, row, raw, overtaken>>

-----------------------------------------------------------------------------
(* POST /collect/procollege: the pages one after the other, each asked for  *)
(* MaxRetries + 1 times at most; the batch is stored whole or not at all.   *)
(* Collecting what is stored already changes nothing and is left out.       *)

Collect(p) ==
    /\ req[p] = None
    /\ \E f \in Portal \ raw : Go(p, [at |-> "fetch", file |-> f, page |-> 1, tries |-> 0])
    /\ UNCHANGED <<dataset, row, raw, overtaken>>

FetchPage(p) ==
    /\ At(p, "fetch")
    /\ Go(p, IF req[p].page < Pages THEN [req[p] EXCEPT !.page = @ + 1, !.tries = 0]
             ELSE [req[p] EXCEPT !.at = "store"])
    /\ UNCHANGED <<dataset, row, raw, overtaken>>

FetchFails(p) ==
    /\ At(p, "fetch")
    /\ IF req[p].tries < MaxRetries THEN Go(p, [req[p] EXCEPT !.tries = @ + 1]) ELSE End(p)
    /\ UNCHANGED <<dataset, row, raw, overtaken>>

(* collection_digest is unique: a batch stored before is refused.           *)
StoreRaw(p) ==
    /\ At(p, "store")
    /\ raw' = raw \cup {req[p].file}
    /\ End(p)
    /\ UNCHANGED <<dataset, row, overtaken>>

(* POST /preview: the file is read again, its hash looked up, and the       *)
(* dataset and its rows inserted.  Sessions of files wait in Workspace.     *)
ConfirmMapping(p) ==
    /\ req[p] = None
    /\ \E f \in Files, y \in Targets :
        /\ f \in Portal => f \in raw /\ y = FirstTarget
        /\ dataset[f] = None
        /\ Go(p, [at |-> "insert", file |-> f, year |-> y])
    /\ UNCHANGED <<dataset, row, raw, overtaken>>

NewDataset(rows, year) ==
    Counted([target |-> year, lifecycle |-> "STAGED", valid |-> 0, review |-> 0, error |-> 0,
             published |-> 0, supersedes |-> None], rows)

PersistPreview(p) ==
    /\ At(p, "insert")
    /\ LET f == req[p].file
           rows == Parsed[f][req[p].year]
       IN \/ /\ dataset[f] = None
             /\ dataset' = [dataset EXCEPT ![f] = NewDataset(rows, req[p].year)]
             /\ row' = [l \in Lines |-> IF l \in LinesOf[f] THEN rows[l] ELSE row[l]]
          \/ dataset[f] # None /\ UNCHANGED <<dataset, row>>
    /\ End(p)
    /\ UNCHANGED <<raw, overtaken>>

-----------------------------------------------------------------------------
(* POST /<id>/target-year.  To the year it has, with the catalogue it was   *)
(* read against, a dataset is left as it is.                                *)

OpenRetarget(p) ==
    /\ req[p] = None
    /\ \E f \in Files, y \in Targets :
        /\ dataset[f] # None /\ dataset[f].target # y
        /\ dataset[f].lifecycle \notin {"PUBLISHED", "SUPERSEDED"}
        /\ Go(p, [at |-> "rows", file |-> f, year |-> y, seen |-> dataset[f]])
    /\ UNCHANGED <<dataset, row, raw, overtaken>>

LoadRows(p) ==
    /\ At(p, "rows")
    /\ Go(p, [at |-> "retarget", file |-> req[p].file, year |-> req[p].year,
              seen |-> req[p].seen, rows |-> RowsOf(req[p].file)])
    /\ UNCHANGED <<dataset, row, raw, overtaken>>

Retarget(p) ==
    /\ At(p, "retarget")
    /\ LET r == req[p]
           new == Retargeted(r.rows, r.year)
           d == Counted([r.seen EXCEPT !.target = r.year], new)
           datasets == [dataset EXCEPT ![r.file] = Flushed(r.seen, d, @)]
           rows == [l \in Lines |-> IF l \in LinesOf[r.file]
                                    THEN Flushed(r.rows[l], new[l], row[l]) ELSE row[l]]
       IN Store(p, datasets, rows) \/ RollBack(p, datasets, rows)

-----------------------------------------------------------------------------
(* POST /<id>/publish.                                                      *)

Publishable(d) ==
    /\ d.lifecycle \notin {"PUBLISHED", "SUPERSEDED"}
    /\ d.valid > 0
    /\ \E allowPartial \in BOOLEAN : d.review + d.error > 0 => allowPartial

OpenPublish(p) ==
    /\ req[p] = None
    /\ \E f \in Files :
        /\ dataset[f] # None
        /\ Publishable(dataset[f])
        /\ Go(p, [at |-> "previous", file |-> f, seen |-> dataset[f]])
    /\ UNCHANGED <<dataset, row, raw, overtaken>>

FindPrevious(p) ==
    /\ At(p, "previous")
    /\ LET r == req[p]
           previous == Published(r.file, r.seen.target)
       IN \/ Cardinality(previous) > 1 /\ End(p)
          \/ /\ Cardinality(previous) <= 1
             /\ Go(p, [at |-> "publish", file |-> r.file, seen |-> r.seen, previous |-> previous])
    /\ UNCHANGED <<dataset, row, raw, overtaken>>

Superseded(l) == IF row[l].publication = "PUBLISHED" THEN [row[l] EXCEPT !.publication = "SUPERSEDED"] ELSE row[l]
PublishedOrExcluded(l) ==
    [row[l] EXCEPT !.publication = IF row[l].status = "VALID" THEN "PUBLISHED" ELSE "EXCLUDED"]

PublishedRows_OldStays(f, previous) ==
    [l \in Lines |-> IF l \in LinesOf[f] THEN PublishedOrExcluded(l) ELSE row[l]]

PublishedRows(f, previous) ==
    [l \in Lines |-> IF l \in LinesOf[f] THEN PublishedOrExcluded(l)
                     ELSE IF \E g \in previous : l \in LinesOf[g] THEN Superseded(l) ELSE row[l]]

Publish(p) ==
    /\ At(p, "publish")
    /\ LET r == req[p]
           done == [r.seen EXCEPT !.lifecycle = "PUBLISHED", !.published = r.seen.valid,
                                  !.supersedes = IF r.previous = {} THEN @ ELSE CHOOSE g \in r.previous : TRUE]
           datasets == [f \in Files |->
               IF f = r.file THEN Flushed(r.seen, done, dataset[f])
               ELSE IF f \in r.previous THEN [dataset[f] EXCEPT !.lifecycle = "SUPERSEDED"]
               ELSE dataset[f]]
           rows == PublishedRows(r.file, r.previous)
       IN Store(p, datasets, rows) \/ RollBack(p, datasets, rows)

Next ==
    \E p \in Requests :
        \/ Collect(p) \/ FetchPage(p) \/ FetchFails(p) \/ StoreRaw(p)
        \/ ConfirmMapping(p) \/ PersistPreview(p)
        \/ OpenRetarget(p) \/ LoadRows(p) \/ Retarget(p)
        \/ OpenPublish(p) \/ FindPrevious(p) \/ Publish(p)

Spec == Init /\ [][Next]_vars

-----------------------------------------------------------------------------
(* list_published_imported_results_for_program, load_published_imported_result *)
Listed(year, program) ==
    {l \in Lines : /\ row[l] # None /\ row[l].publication = "PUBLISHED"
                   /\ row[l].target = year /\ row[l].program = program
                   /\ \E f \in Files : l \in LinesOf[f] /\ dataset[f].lifecycle = "PUBLISHED"}

(* A consultation is shown one result for a program and year at most,       *)
(* whatever publications and retargetings have run over one another.        *)
OneResultShown ==
    \A y \in Targets, q \in Programs : Cardinality(Listed(y, q)) <= 1

(* As long as no request of a source was overtaken, the source has one      *)
(* published dataset per year, which shows its valid rows and no other;     *)
(* a dataset that was replaced, or is not yet published, shows none.        *)
OnePublishedDataset ==
    \A f \in Files : dataset[f] # None /\ Source[f] \notin overtaken =>
        /\ dataset[f].lifecycle = "PUBLISHED" => Published(f, dataset[f].target) = {}
        /\ \A l \in LinesOf[f] :
            row[l].publication = "PUBLISHED" <=>
                dataset[f].lifecycle = "PUBLISHED" /\ row[l].status = "VALID"

(* As long as no request of its source was overtaken, a dataset is what an  *)
(* upload of its file for its present year would have staged, however often *)
(* it was retargeted: the same programs and verdicts, and their numbers.    *)
AsUploaded ==
    \A f \in Files : dataset[f] # None /\ Source[f] \notin overtaken =>
        LET rows == Parsed[f][dataset[f].target]
            fresh == NewDataset(rows, dataset[f].target)
        IN /\ \A l \in LinesOf[f] : row[l].program = rows[l].program /\ row[l].status = rows[l].status
           /\ \A c \in {"valid", "review", "error"} : dataset[f][c] = fresh[c]
           /\ dataset[f].lifecycle \in Unpublished => dataset[f].lifecycle = fresh.lifecycle
=============================================================================
