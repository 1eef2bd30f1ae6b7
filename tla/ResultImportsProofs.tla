-------------------------- MODULE ResultImportsProofs --------------------------
(***************************************************************************)
(* However requests overtake one another, a program never has two results  *)
(* on show.  What guarantees it is the partial unique index, which every    *)
(* commit that writes rows meets, and that an upload inserts staged rows    *)
(* only; that rests on nothing a request has read.                          *)
(*                                                                         *)
(* Of a source no request of which was overtaken, more holds: one dataset   *)
(* is published per year, and a dataset is what an upload of its file would *)
(* stage.  The invariant is that a row can be read again: it carries the    *)
(* campus and day of its line or of a program its line has matched, and     *)
(* resolving from either is the same (ResolveAgain).                        *)
(***************************************************************************)
EXTENDS ResultImports, FiniteSetTheorems, TLAPS

(* An upload that was confirmed names a file and a year.                    *)
InsertKnown ==
    /\ req = [p \in Requests |-> req[p]]
    /\ \A p \in Requests : At(p, "insert") => req[p].file \in Files /\ req[p].year \in Targets

IndexInv == PublishedOnce(row) /\ InsertKnown

Staged(r) == "publication" \in DOMAIN r /\ r.publication = "STAGED"

-----------------------------------------------------------------------------
(* Reading a line against the catalogue does not touch its publication.     *)

LEMMA StatusKeepsStaged ==
    ASSUME NEW r, Staged(r)
    PROVE  Staged(WithStatus(r))
  BY DEF Staged, WithStatus

LEMMA MappedKeepsStaged ==
    ASSUME NEW r, NEW match, Staged(r)
    PROVE  Staged(Mapped(r, match))
<1>1. CASE match = None
  BY <1>1 DEF Staged, Mapped
<1>2. CASE match # None
  BY <1>2 DEF Staged, Mapped
<1> QED
  BY <1>1, <1>2

LEMMA CanonicalStaged ==
    ASSUME NEW l, NEW year
    PROVE  Staged(Canonical(l, year))
<1> DEFINE t == Text[l]
           plain == [target |-> year, program |-> None, campus |-> t.campus, day |-> t.day,
                     issues |-> t.issues, status |-> "VALID", publication |-> "STAGED"]
           match == Resolve(t.name, t.campus, t.day, year)
<1>1. CASE Name(l) = ""
  BY <1>1 DEF Canonical, ErrorRow, Staged
<1>2. CASE Name(l) # ""
  <2>1. Staged(plain)
    BY DEF Staged
  <2>2. Canonical(l, year) = WithStatus(Mapped(plain, match))
    BY <1>2 DEF Canonical
  <2> HIDE DEF plain, match
  <2> QED
    BY <2>1, <2>2, MappedKeepsStaged, StatusKeepsStaged
<1> QED
  BY <1>1, <1>2

LEMMA MarkedStaged ==
    ASSUME NEW rows, NEW l \in DOMAIN rows, Staged(rows[l])
    PROVE  Staged(Marked(rows)[l])
  BY DEF Marked, Staged

(* What parse_admission_result_upload returns is staged, line by line.      *)
LEMMA ParsedStaged ==
    ASSUME NEW f \in Files, NEW y \in Targets, NEW l \in LinesOf[f]
    PROVE  Staged(Parsed[f][y][l])
<1> DEFINE rows == [m \in LinesOf[f] |-> Canonical(m, y)]
<1>1. Parsed[f][y] = Marked(rows)
  BY DEF Parsed
<1>2. l \in DOMAIN rows /\ Staged(rows[l])
  BY CanonicalStaged
<1> HIDE DEF rows
<1> QED
  BY <1>1, <1>2, MarkedStaged

-----------------------------------------------------------------------------
(* Staged rows replace rows; whatever is published was published before.    *)
LEMMA StagedKeepsIndex ==
    ASSUME NEW f \in Files, NEW rows, PublishedOnce(row),
           \A l \in LinesOf[f] : rows[l].publication = "STAGED",
           row' = [l \in Lines |-> IF l \in LinesOf[f] THEN rows[l] ELSE row[l]]
    PROVE  PublishedOnce(row')
  BY DEF PublishedOnce

(* A commit, or a rollback, of a request that ends.                         *)
LEMMA StoreKeepsIndex ==
    ASSUME IndexInv, NEW p \in Requests, NEW datasets, NEW rows,
           Store(p, datasets, rows) \/ RollBack(p, datasets, rows)
    PROVE  IndexInv'
<1>1. PublishedOnce(row)'
  BY DEF Store, RollBack, Accepted, IndexInv, PublishedOnce
<1>2. InsertKnown'
  BY DEF Store, RollBack, End, IndexInv, InsertKnown, At
<1> QED
  BY <1>1, <1>2 DEF IndexInv

(* list_published_imported_results_for_program shows one result for a       *)
(* program and year, for any files, catalogue and number of requests.       *)
THEOREM OneResult == Spec => []OneResultShown
<1>1. Init => IndexInv
  BY DEF Init, IndexInv, PublishedOnce, InsertKnown, At
<1>2. IndexInv /\ [Next]_vars => IndexInv'
  <2> SUFFICES ASSUME IndexInv, [Next]_vars PROVE IndexInv'
    OBVIOUS
  <2> USE DEF IndexInv
  <2>1. ASSUME NEW p \in Requests, NEW r, Go(p, r), UNCHANGED row,
               r.at = "insert" => r.file \in Files /\ r.year \in Targets
        PROVE  IndexInv'
    BY <2>1 DEF Go, InsertKnown, At, PublishedOnce
  <2>2. ASSUME NEW p \in Requests, End(p), UNCHANGED row
        PROVE  IndexInv'
    BY <2>2 DEF End, InsertKnown, At, PublishedOnce
  <2>3. ASSUME NEW p \in Requests, Collect(p) PROVE IndexInv'
    BY <2>1, <2>3 DEF Collect
  <2>4. ASSUME NEW p \in Requests, FetchPage(p) PROVE IndexInv'
    <3>1. At(p, "fetch") /\ UNCHANGED row
      BY <2>4 DEF FetchPage
    <3>2. CASE req[p].page < Pages
      BY <2>4, <3>1, <3>2 DEF FetchPage, Go, InsertKnown, At, PublishedOnce
    <3>3. CASE ~(req[p].page < Pages)
      BY <2>4, <3>1, <3>3 DEF FetchPage, Go, InsertKnown, At, PublishedOnce
    <3> QED
      BY <3>2, <3>3
  <2>5. ASSUME NEW p \in Requests, FetchFails(p) PROVE IndexInv'
    <3>1. At(p, "fetch") /\ UNCHANGED row
      BY <2>5 DEF FetchFails
    <3>2. CASE req[p].tries < MaxRetries
      <4> DEFINE next == [req[p] EXCEPT !.tries = @ + 1]
      <4>1. Go(p, next)
        BY <2>5, <3>2 DEF FetchFails
      <4>2. next.at = "fetch"
        BY <3>1 DEF At
      <4> HIDE DEF next
      <4> QED
        BY <2>1, <3>1, <4>1, <4>2
    <3>3. CASE ~(req[p].tries < MaxRetries)
      BY <2>2, <2>5, <3>1, <3>3 DEF FetchFails
    <3> QED
      BY <3>2, <3>3
  <2>6. ASSUME NEW p \in Requests, StoreRaw(p) PROVE IndexInv'
    BY <2>2, <2>6 DEF StoreRaw
  <2>7. ASSUME NEW p \in Requests, ConfirmMapping(p) PROVE IndexInv'
    BY <2>1, <2>7 DEF ConfirmMapping
  <2>8. ASSUME NEW p \in Requests, PersistPreview(p) PROVE IndexInv'
    <3> DEFINE f == req[p].file
               y == req[p].year
               rows == Parsed[f][y]
    <3>1. f \in Files /\ y \in Targets /\ End(p)
      BY <2>8 DEF PersistPreview, InsertKnown
    <3>2. CASE UNCHANGED row
      BY <2>2, <3>1, <3>2
    <3>3. CASE row' = [l \in Lines |-> IF l \in LinesOf[f] THEN rows[l] ELSE row[l]]
      <4>1. \A l \in LinesOf[f] : rows[l].publication = "STAGED"
        BY <3>1, ParsedStaged DEF Staged
      <4> HIDE DEF f, y, rows
      <4>2. PublishedOnce(row')
        BY <3>1, <3>3, <4>1, StagedKeepsIndex
      <4>3. InsertKnown'
        BY <3>1 DEF End, InsertKnown, At
      <4> QED
        BY <4>2, <4>3 DEF PublishedOnce
    <3> QED
      BY <2>8, <3>2, <3>3 DEF PersistPreview
  <2>9. ASSUME NEW p \in Requests, OpenRetarget(p) PROVE IndexInv'
    BY <2>1, <2>9 DEF OpenRetarget
  <2>10. ASSUME NEW p \in Requests, LoadRows(p) PROVE IndexInv'
    BY <2>1, <2>10 DEF LoadRows
  <2>11. ASSUME NEW p \in Requests, Retarget(p) PROVE IndexInv'
    BY <2>11, StoreKeepsIndex DEF Retarget
  <2>12. ASSUME NEW p \in Requests, OpenPublish(p) PROVE IndexInv'
    BY <2>1, <2>12 DEF OpenPublish
  <2>13. ASSUME NEW p \in Requests, FindPrevious(p) PROVE IndexInv'
    BY <2>1, <2>2, <2>13 DEF FindPrevious
  <2>14. ASSUME NEW p \in Requests, Publish(p) PROVE IndexInv'
    BY <2>14, StoreKeepsIndex DEF Publish
  <2>15. CASE UNCHANGED vars
    BY <2>15 DEF vars, InsertKnown, At, PublishedOnce
  <2> QED
    BY <2>3, <2>4, <2>5, <2>6, <2>7, <2>8, <2>9, <2>10, <2>11, <2>12, <2>13, <2>14, <2>15 DEF Next
<1>3. IndexInv => OneResultShown
  <2> SUFFICES ASSUME IndexInv, NEW y \in Targets, NEW q \in Programs
               PROVE  Cardinality(Listed(y, q)) <= 1
    BY DEF OneResultShown
  <2>1. \A l, m \in Listed(y, q) : l = m
    BY ImportAssumption DEF IndexInv, PublishedOnce, Listed, SameKey
  <2>2. CASE Listed(y, q) = {}
    BY <2>2, FS_EmptySet
  <2>3. CASE Listed(y, q) # {}
    <3>1. PICK l : Listed(y, q) = {l}
      BY <2>1, <2>3
    <3> QED
      BY <3>1, FS_Singleton
  <2> QED
    BY <2>2, <2>3
<1> QED
  BY <1>1, <1>2, <1>3, PTL DEF Spec

-----------------------------------------------------------------------------
(* The steps of resolve.                                                    *)
CampusesOf(campus) == {c \in {q.campus : q \in Programs} : campus \in {None, c}}
NamedOn(name, campus) == {q \in Programs : q.campus \in CampusesOf(campus) /\ q.name = name}
Exact(name, campus, day) == {q \in NamedOn(name, campus) : q.day = day}
Alone(name, campus, day) ==
    {q \in NamedOn(name, campus) : Cardinality(NamedOn(name, campus)) = 1 /\ "UNKNOWN" \in {day, q.day}}
Chosen(name, campus, day) ==
    IF Exact(name, campus, day) # {} THEN Exact(name, campus, day) ELSE Alone(name, campus, day)
Matches(name, campus, day, year) == {q \in Chosen(name, campus, day) : <<year, q>> \in Tracks}

LEMMA ResolveSteps ==
    ASSUME NEW name, NEW campus, NEW day, NEW year
    PROVE  Resolve(name, campus, day, year) =
             IF /\ Cardinality(CampusesOf(campus)) = 1
                /\ Cardinality(Chosen(name, campus, day)) = 1
                /\ Matches(name, campus, day, year) # {}
             THEN CHOOSE q \in Matches(name, campus, day, year) : TRUE
             ELSE None
  BY DEF Resolve, CampusesOf, NamedOn, Exact, Alone, Chosen, Matches

LEMMA ResolvedKnown ==
    ASSUME NEW name, NEW campus, NEW day, NEW year, NEW q, q = Resolve(name, campus, day, year), q # None
    PROVE  /\ q \in Chosen(name, campus, day) /\ q \in NamedOn(name, campus) /\ q \in Programs
           /\ CampusesOf(campus) = {q.campus}
<1>1. Cardinality(CampusesOf(campus)) = 1 /\ q \in Matches(name, campus, day, year)
  <2> DEFINE matches == Matches(name, campus, day, year)
  <2>1. Cardinality(CampusesOf(campus)) = 1 /\ matches # {} /\ q = CHOOSE x \in matches : TRUE
    BY ResolveSteps
  <2> HIDE DEF matches
  <2>2. q \in matches
    BY <2>1
  <2> QED
    BY <2>1, <2>2 DEF matches
<1>2. q \in Chosen(name, campus, day) /\ q \in NamedOn(name, campus)
  BY <1>1 DEF Matches, Chosen, Exact, Alone
<1>3. q.campus \in CampusesOf(campus) /\ q \in Programs
  BY <1>2 DEF NamedOn
<1>4. IsFiniteSet({x.campus : x \in Programs})
  <2> DEFINE campuses == {x.campus : x \in Programs}
             campusOf == [x \in Programs |-> x.campus]
  <2>1. campusOf \in Surjection(Programs, campuses)
    BY DEF Surjection
  <2> HIDE DEF campusOf, campuses
  <2>2. IsFiniteSet(campuses)
    BY <2>1, CatalogAssumption, FS_Surjection
  <2> QED
    BY <2>2 DEF campuses
<1>5. IsFiniteSet(CampusesOf(campus))
  BY <1>4, FS_Subset DEF CampusesOf
<1>6. PICK c : CampusesOf(campus) = {c}
  BY <1>1, <1>5, FS_Singleton
<1> QED
  BY <1>2, <1>3, <1>6

(* A row that carries what its last match wrote is matched as its line.     *)
LEMMA ResolveAgain ==
    ASSUME NEW name, NEW campus, NEW day, NEW year, NEW later,
           NEW q, q = Resolve(name, campus, day, year), q # None
    PROVE  Resolve(name, q.campus, q.day, later) = Resolve(name, campus, day, later)
<1>1. /\ q \in Chosen(name, campus, day) /\ q \in NamedOn(name, campus) /\ q \in Programs
      /\ CampusesOf(campus) = {q.campus}
  BY ResolvedKnown
<1>2. CampusesOf(q.campus) = CampusesOf(campus)
  <2>1. q.campus # None
    BY <1>1, CatalogAssumption
  <2>2. \A c : q.campus \in {None, c} <=> c = q.campus
    BY <2>1
  <2> QED
    BY <1>1, <2>2 DEF CampusesOf
<1>3. NamedOn(name, q.campus) = NamedOn(name, campus)
  BY <1>2 DEF NamedOn
<1>4. Chosen(name, q.campus, q.day) = Chosen(name, campus, day)
  <2>1. CASE Exact(name, campus, day) # {}
    <3>1. q.day = day
      BY <1>1, <2>1 DEF Chosen, Exact
    <3>2. Exact(name, q.campus, q.day) = Exact(name, campus, day)
      BY <1>3, <3>1 DEF Exact
    <3> QED
      BY <2>1, <3>2 DEF Chosen
  <2>2. CASE Exact(name, campus, day) = {}
    <3>1. q \in Alone(name, campus, day)
      BY <1>1, <2>2 DEF Chosen
    <3>2. IsFiniteSet(NamedOn(name, campus))
      BY CatalogAssumption, FS_Subset DEF NamedOn
    <3>3. Cardinality(NamedOn(name, campus)) = 1
      BY <3>1 DEF Alone
    <3>4. PICK x : NamedOn(name, campus) = {x}
      BY <3>2, <3>3, FS_Singleton
    <3>5. NamedOn(name, campus) = {q}
      BY <1>1, <3>4
    <3>6. Alone(name, campus, day) = {q}
      BY <3>1, <3>5 DEF Alone
    <3>7. Exact(name, q.campus, q.day) = {q}
      BY <1>3, <3>5 DEF Exact
    <3> QED
      BY <2>2, <3>6, <3>7 DEF Chosen
  <2> QED
    BY <2>1, <2>2
<1>5. Matches(name, q.campus, q.day, later) = Matches(name, campus, day, later)
  BY <1>4 DEF Matches
<1>6. Resolve(name, campus, day, later) =
        IF /\ Cardinality(CampusesOf(campus)) = 1
           /\ Cardinality(Chosen(name, campus, day)) = 1
           /\ Matches(name, campus, day, later) # {}
        THEN CHOOSE x \in Matches(name, campus, day, later) : TRUE
        ELSE None
  BY ResolveSteps
<1>7. Resolve(name, q.campus, q.day, later) =
        IF /\ Cardinality(CampusesOf(q.campus)) = 1
           /\ Cardinality(Chosen(name, q.campus, q.day)) = 1
           /\ Matches(name, q.campus, q.day, later) # {}
        THEN CHOOSE x \in Matches(name, q.campus, q.day, later) : TRUE
        ELSE None
  BY ResolveSteps
<1> QED
  BY <1>2, <1>4, <1>5, <1>6, <1>7, Zenon

(* A line without a name matches nothing.                                   *)
LEMMA NamelessUnmatched ==
    ASSUME NEW campus, NEW day, NEW year
    PROVE  Resolve("", campus, day, year) = None
<1> SUFFICES ASSUME Resolve("", campus, day, year) # None PROVE FALSE
  OBVIOUS
<1>1. PICK q : q = Resolve("", campus, day, year)
  OBVIOUS
<1>2. q \in NamedOn("", campus) /\ q \in Programs
  BY <1>1, ResolvedKnown
<1> QED
  BY <1>2, CatalogAssumption DEF NamedOn

-----------------------------------------------------------------------------
(* What a line of a file comes to in a year: its program, its status as it  *)
(* is read, and its status next to the other lines of the file.             *)
MatchOf(l, year) ==
    IF Name(l) = "" THEN None ELSE Resolve(Text[l].name, Text[l].campus, Text[l].day, year)
FoundIssues(l, year) ==
    Text[l].issues \cup (IF MatchOf(l, year) = None THEN {"CATALOG_MAPPING_REQUIRED"} ELSE {})
Repeated(f, l, year) ==
    \E m \in LinesOf[f] \ {l} : MatchOf(l, year) # None /\ MatchOf(l, year) = MatchOf(m, year)
Verdict(f, l, year) ==
    IF Repeated(f, l, year) /\ StatusOf(FoundIssues(l, year)) = "VALID" THEN "REVIEW"
    ELSE StatusOf(FoundIssues(l, year))

(* A row of line l: its issues apart from those of the mapping are those of *)
(* the line, and so are its campus and day, or they are of a match of it.   *)
ReadFrom(r, l) ==
    /\ r \in Row
    /\ r.issues \ Mapping = Text[l].issues
    /\ \/ Name(l) = ""
       \/ r.campus = Text[l].campus /\ r.day = Text[l].day
       \/ \E y \in Targets : /\ MatchOf(l, y) # None
                            /\ r.campus = MatchOf(l, y).campus /\ r.day = MatchOf(l, y).day

ReadFor(r, l, year) ==
    ReadFrom(r, l) /\ r.target = year /\ r.program = MatchOf(l, year)

LEMMA NamelessInvalid ==
    ASSUME NEW l \in Lines, Name(l) = ""
    PROVE  "INVALID_VALUE" \in Text[l].issues
  BY CatalogAssumption DEF Name

LEMMA MatchKnown ==
    ASSUME NEW l \in Lines, NEW y
    PROVE  MatchOf(l, y) = None \/ MatchOf(l, y) \in Programs
<1>1. CASE Name(l) = ""
  BY <1>1 DEF MatchOf
<1>2. CASE Name(l) # ""
  BY <1>2, ResolvedKnown DEF MatchOf
<1> QED
  BY <1>1, <1>2

LEMMA StatusKnown ==
    ASSUME NEW issues
    PROVE  StatusOf(issues) \in {"VALID", "REVIEW", "ERROR"}
  BY DEF StatusOf

LEMMA LineIssues ==
    ASSUME NEW l \in Lines
    PROVE  /\ Text[l].issues \subseteq Issues /\ Text[l].issues \ Mapping = Text[l].issues
           /\ "CATALOG_MAPPING_REQUIRED" \in Mapping /\ "DUPLICATE_BUSINESS_KEY" \in Mapping
           /\ Mapping \subseteq Issues
<1>1. Text[l].issues \subseteq Issues \ Mapping
  BY CatalogAssumption
<1> QED
  BY <1>1 DEF Mapping, Issues

(* Mapped, then given its status: what _canonical_row and retarget do with  *)
(* a row whose mapping issues are gone.                                     *)
LEMMA MappedReads ==
    ASSUME NEW l \in Lines, NEW year \in Targets, NEW r \in Row, r.target = year,
           r.issues = Text[l].issues, ReadFrom(r, l)
    PROVE  /\ ReadFor(WithStatus(Mapped(r, MatchOf(l, year))), l, year)
           /\ WithStatus(Mapped(r, MatchOf(l, year))).status = StatusOf(FoundIssues(l, year))
           /\ WithStatus(Mapped(r, MatchOf(l, year))).publication = r.publication
<1> DEFINE q == MatchOf(l, year)
           m == Mapped(r, q)
           issues == FoundIssues(l, year)
<1>1. /\ issues \subseteq Issues /\ issues \ Mapping = Text[l].issues
      /\ Text[l].issues \subseteq Issues
  BY LineIssues DEF FoundIssues
<1>2. q = None \/ q \in Programs
  BY MatchKnown
<1>3. /\ m \in Row /\ m.target = year /\ m.program = q /\ m.issues = issues
      /\ m.publication = r.publication
      /\ q = None => m.campus = r.campus /\ m.day = r.day
      /\ q # None => m.campus = q.campus /\ m.day = q.day
  <2>1. CASE q = None
    <3>1. m = [r EXCEPT !.program = None, !.issues = @ \cup {"CATALOG_MAPPING_REQUIRED"}]
      BY <2>1 DEF Mapped
    <3>2. issues = r.issues \cup {"CATALOG_MAPPING_REQUIRED"}
      BY <2>1 DEF FoundIssues
    <3> HIDE DEF q, m, issues
    <3> QED
      BY <1>1, <2>1, <3>1, <3>2 DEF Row
  <2>2. CASE q # None
    <3>1. m = [r EXCEPT !.program = q, !.campus = q.campus, !.day = q.day]
      BY <2>2 DEF Mapped
    <3>2. issues = r.issues
      BY <2>2 DEF FoundIssues
    <3>3. q \in Programs /\ q.campus \in STRING /\ q.day \in {"DAY", "NIGHT", "UNKNOWN"}
      BY <1>2, <2>2, CatalogAssumption
    <3> HIDE DEF q, m, issues
    <3> QED
      BY <1>1, <2>2, <3>1, <3>2, <3>3 DEF Row
  <2> QED
    BY <2>1, <2>2
<1>4. ReadFrom(m, l)
  <2>1. CASE q = None
    BY <1>1, <1>3, <2>1 DEF ReadFrom
  <2>2. CASE q # None
    BY <1>1, <1>3, <2>2 DEF ReadFrom
  <2> QED
    BY <2>1, <2>2
<1>5. StatusOf(issues) \in {"VALID", "REVIEW", "ERROR"}
  BY StatusKnown
<1> HIDE DEF q, m, issues
<1>6. WithStatus(m) = [m EXCEPT !.status = StatusOf(issues)]
  BY <1>3 DEF WithStatus
<1> DEFINE w == WithStatus(m)
<1>7. /\ w \in Row /\ w.status = StatusOf(issues) /\ w.target = m.target /\ w.program = m.program
      /\ w.issues = m.issues /\ w.publication = m.publication /\ w.campus = m.campus /\ w.day = m.day
  BY <1>3, <1>5, <1>6 DEF Row
<1> HIDE DEF w
<1>8. ReadFrom(w, l)
  BY <1>4, <1>7 DEF ReadFrom
<1>9. ReadFor(w, l, year)
  BY <1>3, <1>7, <1>8 DEF ReadFor, q
<1> QED
  BY <1>3, <1>7, <1>9 DEF w, m, q, issues

(* As it is read, and as it is read again for another year.                 *)
LEMMA CanonicalReads ==
    ASSUME NEW l \in Lines, NEW year \in Targets
    PROVE  /\ ReadFor(Canonical(l, year), l, year)
           /\ Canonical(l, year).status = StatusOf(FoundIssues(l, year))
<1>1. CASE Name(l) = ""
  <2> DEFINE e == ErrorRow(l, year)
  <2>1. Canonical(l, year) = e /\ MatchOf(l, year) = None
    BY <1>1 DEF Canonical, MatchOf
  <2>2. "INVALID_VALUE" \in Text[l].issues
    BY <1>1, NamelessInvalid
  <2>3. StatusOf(FoundIssues(l, year)) = "ERROR"
    BY <2>2 DEF StatusOf, FoundIssues, ErrorIssues
  <2>4. e \in Row
    BY LineIssues DEF ErrorRow, Row
  <2>5. e.target = year /\ e.program = None /\ e.issues = Text[l].issues /\ e.status = "ERROR"
    BY DEF ErrorRow
  <2> HIDE DEF e
  <2>6. ReadFrom(e, l)
    BY <1>1, <2>4, <2>5, LineIssues DEF ReadFrom
  <2> QED
    BY <2>1, <2>3, <2>5, <2>6 DEF ReadFor
<1>2. CASE Name(l) # ""
  <2> DEFINE t == Text[l]
             plain == [target |-> year, program |-> None, campus |-> t.campus, day |-> t.day,
                       issues |-> t.issues, status |-> "VALID", publication |-> "STAGED"]
  <2>1. Canonical(l, year) = WithStatus(Mapped(plain, MatchOf(l, year)))
    BY <1>2 DEF Canonical, MatchOf
  <2>2. t.campus \in STRING \cup {None} /\ t.day \in {"DAY", "NIGHT", "UNKNOWN"} /\ t.issues \subseteq Issues
    BY CatalogAssumption, LineIssues
  <2>3. plain \in Row
    BY <2>2 DEF Row
  <2>4. /\ plain.target = year /\ plain.issues = t.issues /\ plain.campus = t.campus
        /\ plain.day = t.day
    OBVIOUS
  <2> HIDE DEF plain
  <2>5. ReadFrom(plain, l)
    BY <2>3, <2>4, LineIssues DEF ReadFrom
  <2> QED
    BY <2>1, <2>3, <2>4, <2>5, MappedReads
<1> QED
  BY <1>1, <1>2

LEMMA RemappedReads ==
    ASSUME NEW l \in Lines, NEW year \in Targets, NEW r, ReadFrom(r, l)
    PROVE  /\ ReadFor(Remapped(r, l, year), l, year)
           /\ Remapped(r, l, year).status = StatusOf(FoundIssues(l, year))
           /\ Remapped(r, l, year).publication = r.publication
<1> DEFINE cleared == [r EXCEPT !.target = year, !.issues = @ \ Mapping]
<1>1. r \in Row /\ r.issues \ Mapping = Text[l].issues
  BY DEF ReadFrom
<1>2. /\ cleared \in Row /\ cleared.target = year /\ cleared.issues = Text[l].issues
      /\ cleared.campus = r.campus /\ cleared.day = r.day /\ cleared.publication = r.publication
  BY <1>1, LineIssues DEF Row
<1>3. Resolve(Name(l), r.campus, r.day, year) = MatchOf(l, year)
  <2>1. CASE Name(l) = ""
    BY <2>1, NamelessUnmatched DEF MatchOf
  <2>2. CASE Name(l) # "" /\ r.campus = Text[l].campus /\ r.day = Text[l].day
    BY <2>2 DEF MatchOf, Name
  <2>3. CASE Name(l) # "" /\ \E y \in Targets : /\ MatchOf(l, y) # None
                                               /\ r.campus = MatchOf(l, y).campus
                                               /\ r.day = MatchOf(l, y).day
    <3>1. PICK y \in Targets : /\ MatchOf(l, y) # None
                               /\ r.campus = MatchOf(l, y).campus /\ r.day = MatchOf(l, y).day
      BY <2>3
    <3>2. /\ Name(l) = Text[l].name
          /\ \A z : MatchOf(l, z) = Resolve(Text[l].name, Text[l].campus, Text[l].day, z)
      BY <2>3 DEF MatchOf, Name
    <3>3. PICK q : q = MatchOf(l, y)
      OBVIOUS
    <3>4. Resolve(Text[l].name, q.campus, q.day, year)
            = Resolve(Text[l].name, Text[l].campus, Text[l].day, year)
      BY <3>1, <3>2, <3>3, ResolveAgain
    <3> QED
      BY <3>1, <3>2, <3>3, <3>4
  <2> QED
    BY <2>1, <2>2, <2>3 DEF ReadFrom
<1>4. Remapped(r, l, year) = WithStatus(Mapped(cleared, MatchOf(l, year)))
  BY <1>3 DEF Remapped
<1> HIDE DEF cleared
<1>5. ReadFrom(cleared, l)
  BY <1>1, <1>2, LineIssues DEF ReadFrom
<1> QED
  BY <1>2, <1>4, <1>5, MappedReads

(* The rows of a file, each read for the year, get the verdicts of the      *)
(* file; their publication stays.                                           *)
LEMMA MarkedReads ==
    ASSUME NEW f \in Files, NEW year \in Targets, NEW rows, DOMAIN rows = LinesOf[f],
           \A l \in LinesOf[f] : /\ ReadFor(rows[l], l, year)
                                 /\ rows[l].status = StatusOf(FoundIssues(l, year))
    PROVE  /\ DOMAIN Marked(rows) = LinesOf[f]
           /\ \A l \in LinesOf[f] : /\ ReadFor(Marked(rows)[l], l, year)
                                   /\ Marked(rows)[l].status = Verdict(f, l, year)
                                   /\ Marked(rows)[l].publication = rows[l].publication
<1>1. DOMAIN Marked(rows) = LinesOf[f]
  BY DEF Marked
<1>2. ASSUME NEW l \in LinesOf[f]
      PROVE  /\ ReadFor(Marked(rows)[l], l, year)
             /\ Marked(rows)[l].status = Verdict(f, l, year)
             /\ Marked(rows)[l].publication = rows[l].publication
  <2> DEFINE twice == \E m \in DOMAIN rows \ {l} : SameKey(rows[l], rows[m])
             marked == [rows[l] EXCEPT !.issues = @ \cup {"DUPLICATE_BUSINESS_KEY"},
                                       !.status = IF @ = "VALID" THEN "REVIEW" ELSE @]
  <2>1. /\ ReadFor(rows[l], l, year) /\ rows[l] \in Row /\ l \in Lines
        /\ rows[l].status = StatusOf(FoundIssues(l, year))
    BY DEF ReadFor, ReadFrom, Lines
  <2>2. twice <=> Repeated(f, l, year)
    BY DEF SameKey, ReadFor, Repeated
  <2>3. Marked(rows)[l] = IF twice THEN marked ELSE rows[l]
    BY DEF Marked
  <2>4. /\ marked \in Row
        /\ marked.target = rows[l].target /\ marked.program = rows[l].program
        /\ marked.campus = rows[l].campus /\ marked.day = rows[l].day
        /\ marked.publication = rows[l].publication
        /\ marked.issues \ Mapping = rows[l].issues \ Mapping
        /\ marked.status = IF rows[l].status = "VALID" THEN "REVIEW" ELSE rows[l].status
    BY <2>1, LineIssues DEF Row, Mapping
  <2> HIDE DEF twice, marked
  <2>5. ReadFor(marked, l, year)
    BY <2>1, <2>4 DEF ReadFor, ReadFrom
  <2>6. CASE twice
    <3>1. Verdict(f, l, year) = marked.status
      BY <2>1, <2>2, <2>4, <2>6 DEF Verdict
    <3> QED
      BY <2>3, <2>4, <2>5, <2>6, <3>1
  <2>7. CASE ~twice
    <3>1. Verdict(f, l, year) = rows[l].status
      BY <2>1, <2>2, <2>7 DEF Verdict
    <3> QED
      BY <2>1, <2>3, <2>7, <3>1
  <2> QED
    BY <2>6, <2>7
<1> QED
  BY <1>1, <1>2

(* parse_admission_result_upload, and retarget over rows read before.       *)
LEMMA ParsedReads ==
    ASSUME NEW f \in Files, NEW year \in Targets
    PROVE  /\ DOMAIN Parsed[f][year] = LinesOf[f]
           /\ \A l \in LinesOf[f] : /\ ReadFor(Parsed[f][year][l], l, year)
                                   /\ Parsed[f][year][l].status = Verdict(f, l, year)
                                   /\ Parsed[f][year][l].publication = "STAGED"
<1> DEFINE rows == [l \in LinesOf[f] |-> Canonical(l, year)]
<1>1. Parsed[f][year] = Marked(rows)
  BY DEF Parsed
<1>2. DOMAIN rows = LinesOf[f] /\ \A l \in LinesOf[f] : rows[l] = Canonical(l, year) /\ l \in Lines
  BY DEF Lines
<1> HIDE DEF rows
<1>3. \A l \in LinesOf[f] : /\ ReadFor(rows[l], l, year)
                            /\ rows[l].status = StatusOf(FoundIssues(l, year))
  BY <1>2, CanonicalReads
<1>4. \A l \in LinesOf[f] : Parsed[f][year][l].publication = "STAGED"
  BY ParsedStaged DEF Staged
<1> QED
  BY <1>1, <1>2, <1>3, <1>4, MarkedReads

LEMMA RetargetedReads ==
    ASSUME NEW f \in Files, NEW year \in Targets, NEW rows, DOMAIN rows = LinesOf[f],
           \A l \in LinesOf[f] : ReadFrom(rows[l], l)
    PROVE  /\ DOMAIN Retargeted(rows, year) = LinesOf[f]
           /\ \A l \in LinesOf[f] : /\ ReadFor(Retargeted(rows, year)[l], l, year)
                                   /\ Retargeted(rows, year)[l].status = Verdict(f, l, year)
                                   /\ Retargeted(rows, year)[l].publication = rows[l].publication
<1> DEFINE again == [l \in DOMAIN rows |-> Remapped(rows[l], l, year)]
<1>1. Retargeted(rows, year) = Marked(again)
  BY DEF Retargeted
<1>2. DOMAIN again = LinesOf[f] /\ \A l \in LinesOf[f] : again[l] = Remapped(rows[l], l, year) /\ l \in Lines
  BY DEF Lines
<1> HIDE DEF again
<1>3. \A l \in LinesOf[f] : /\ ReadFor(again[l], l, year)
                            /\ again[l].status = StatusOf(FoundIssues(l, year))
                            /\ again[l].publication = rows[l].publication
  BY <1>2, RemappedReads
<1> QED
  BY <1>1, <1>2, <1>3, MarkedReads

-----------------------------------------------------------------------------
(* A dataset whose source was not overtaken: it has one published dataset   *)
(* per year, and shows its valid rows exactly; it is what its file comes to *)
(* in its year.                                                             *)
Shows(f) ==
    /\ dataset[f].lifecycle = "PUBLISHED" => Published(f, dataset[f].target) = {}
    /\ \A l \in LinesOf[f] :
        row[l].publication = "PUBLISHED" <=>
            dataset[f].lifecycle = "PUBLISHED" /\ row[l].status = "VALID"

Verdicts(f, year, status) == Cardinality({l \in LinesOf[f] : Verdict(f, l, year) = status})

LifecycleOf(f, year) ==
    IF Verdicts(f, year, "ERROR") > 0 THEN "BLOCKED"
    ELSE IF Verdicts(f, year, "REVIEW") > 0 THEN "STAGED" ELSE "READY"

Tallied(d, f, year) ==
    /\ d.target = year
    /\ d.valid = Verdicts(f, year, "VALID")
    /\ d.review = Verdicts(f, year, "REVIEW")
    /\ d.error = Verdicts(f, year, "ERROR")

Comes(f) ==
    /\ Tallied(dataset[f], f, dataset[f].target)
    /\ dataset[f].lifecycle \in Unpublished => dataset[f].lifecycle = LifecycleOf(f, dataset[f].target)
    /\ \A l \in LinesOf[f] : /\ ReadFrom(row[l], l)
                            /\ row[l].program = MatchOf(l, dataset[f].target)
                            /\ row[l].status = Verdict(f, l, dataset[f].target)

(* What a request remembers of the database.                                *)
Remembers(p) ==
    req[p] # None =>
        /\ req[p].file \in Files
        /\ req[p].at \in {"fetch", "store"} => req[p].file \in Portal /\ {"at", "file"} \subseteq DOMAIN req[p]
        /\ req[p].at \in {"insert", "rows", "retarget"} => req[p].year \in Targets
        /\ req[p].at \in {"rows", "retarget", "previous", "publish"} =>
            /\ dataset[req[p].file] # None
            /\ req[p].seen \in Dataset /\ req[p].seen.lifecycle \in Unpublished
        /\ req[p].at = "retarget" => req[p].rows \in [LinesOf[req[p].file] -> Row]
        /\ req[p].at = "publish" =>
            \A g \in req[p].previous : /\ g \in Files /\ g # req[p].file /\ dataset[g] # None
                                       /\ Source[g] = Source[req[p].file]

Kept ==
    /\ dataset = [f \in Files |-> dataset[f]] /\ req = [p \in Requests |-> req[p]]
    /\ \A p \in Requests : Remembers(p)

ImportInv ==
    /\ TypeOK
    /\ Kept
    /\ \A f \in Files : dataset[f] # None /\ Source[f] \notin overtaken => Shows(f) /\ Comes(f)

(* The tables without what is under way.                                    *)
TablesOK ==
    /\ \A f \in Files : /\ dataset[f] = None \/ dataset[f] \in Dataset
                        /\ \A l \in LinesOf[f] : row[l] = None <=> dataset[f] = None
    /\ \A l \in Lines : row[l] = None \/ row[l] \in Row
    /\ raw \subseteq Portal
    /\ overtaken \subseteq {Source[f] : f \in Files}

LEMMA Apart ==
    ASSUME ImportInv
    PROVE  /\ TablesOK /\ Kept
           /\ \A f \in Files : dataset[f] # None /\ Source[f] \notin overtaken => Shows(f) /\ Comes(f)
  BY DEF TablesOK, ImportInv, TypeOK

LEMMA Assembled ==
    ASSUME TablesOK', Kept',
           \A f \in Files : dataset'[f] # None /\ Source[f] \notin overtaken' => Shows(f)' /\ Comes(f)'
    PROVE  ImportInv'
  BY DEF TablesOK, Kept, Remembers, ImportInv, TypeOK

LEMMA LineOwner ==
    ASSUME NEW f \in Files, NEW g \in Files, NEW l \in LinesOf[f], l \in LinesOf[g]
    PROVE  f = g
  BY ImportAssumption

LEMMA OwnRows ==
    ASSUME ImportInv, NEW f \in Files, dataset[f] # None, NEW l \in LinesOf[f]
    PROVE  l \in Lines /\ row[l] \in Row
  BY DEF ImportInv, TypeOK, Lines

-----------------------------------------------------------------------------
(* A request goes on or ends without writing.                               *)
LEMMA RemembersLasts ==
    ASSUME NEW o, Remembers(o), req'[o] = req[o],
           \A f \in Files : dataset[f] # None => dataset'[f] # None
    PROVE  Remembers(o)'
  BY DEF Remembers

LEMMA QuietStep ==
    ASSUME ImportInv, NEW p \in Requests, UNCHANGED <<dataset, row, overtaken>>, raw' \subseteq Portal,
           NEW r, req' = [req EXCEPT ![p] = r], Remembers(p)'
    PROVE  ImportInv'
<1>1. /\ TablesOK /\ Kept
      /\ \A f \in Files : dataset[f] # None /\ Source[f] \notin overtaken => Shows(f) /\ Comes(f)
  BY Apart
<1>2. TablesOK'
  BY <1>1 DEF TablesOK
<1>3. \A o \in Requests \ {p} : req'[o] = req[o]
  BY <1>1 DEF Kept
<1>4. \A o \in Requests : Remembers(o)'
  BY <1>1, <1>3, RemembersLasts DEF Kept
<1>5. Kept'
  BY <1>1, <1>4 DEF Kept
<1>6. \A f \in Files : dataset'[f] # None /\ Source[f] \notin overtaken' => Shows(f)' /\ Comes(f)'
  BY <1>1 DEF Shows, Published, Comes, Tallied
<1> QED
  BY <1>2, <1>5, <1>6, Assembled

LEMMA EndRemembers ==
    ASSUME ImportInv, NEW p \in Requests, End(p)
    PROVE  Remembers(p)' /\ req'[p] = None
  BY DEF End, Remembers, ImportInv, Kept

-----------------------------------------------------------------------------
(* What is flushed has the type of what it was made from; over what was     *)
(* loaded, it is what was changed.                                          *)
LEMMA FlushedDataset ==
    ASSUME NEW a \in Dataset, NEW b \in Dataset, NEW c \in Dataset
    PROVE  /\ Flushed(a, b, c) \in Dataset
           /\ Flushed(a, b, a) = b
           /\ c.lifecycle \in Unpublished /\ b.lifecycle \in Unpublished => Flushed(a, b, c).lifecycle \in Unpublished
  BY DEF Flushed, Dataset

LEMMA FlushedRow ==
    ASSUME NEW a \in Row, NEW b \in Row, NEW c \in Row
    PROVE  Flushed(a, b, c) \in Row /\ Flushed(a, b, a) = b
  BY DEF Flushed, Row

(* The numbers of a dataset are those of its rows.                          *)
LEMMA WithNat ==
    ASSUME NEW rows, IsFiniteSet(DOMAIN rows), NEW status
    PROVE  With(rows, status) \in Nat
<1>1. IsFiniteSet({l \in DOMAIN rows : rows[l].status = status})
  BY FS_Subset
<1> QED
  BY <1>1, FS_CardinalityType DEF With

LEMMA CountedKnown ==
    ASSUME NEW d \in Dataset, NEW rows, IsFiniteSet(DOMAIN rows)
    PROVE  /\ Counted(d, rows) \in Dataset /\ Counted(d, rows).lifecycle \in Unpublished
           /\ Counted(d, rows).target = d.target
<1> DEFINE valid == With(rows, "VALID")
           review == With(rows, "REVIEW")
           error == With(rows, "ERROR")
           stage == IF error > 0 THEN "BLOCKED" ELSE IF review > 0 THEN "STAGED" ELSE "READY"
<1>1. valid \in Nat /\ review \in Nat /\ error \in Nat
  BY WithNat
<1>2. stage \in Unpublished
  BY DEF Unpublished
<1>3. Counted(d, rows) = [d EXCEPT !.valid = valid, !.review = review, !.error = error, !.lifecycle = stage]
  BY DEF Counted
<1> HIDE DEF valid, review, error, stage
<1> QED
  BY <1>1, <1>2, <1>3 DEF Dataset

LEMMA CountedTallies ==
    ASSUME NEW f \in Files, NEW year \in Targets, NEW d \in Dataset, d.target = year,
           NEW rows, DOMAIN rows = LinesOf[f],
           \A l \in LinesOf[f] : rows[l].status = Verdict(f, l, year)
    PROVE  Tallied(Counted(d, rows), f, year) /\ Counted(d, rows).lifecycle = LifecycleOf(f, year)
<1>1. ASSUME NEW status PROVE With(rows, status) = Verdicts(f, year, status)
  BY DEF With, Verdicts
<1> DEFINE valid == With(rows, "VALID")
           review == With(rows, "REVIEW")
           error == With(rows, "ERROR")
           stage == IF error > 0 THEN "BLOCKED" ELSE IF review > 0 THEN "STAGED" ELSE "READY"
<1>2. Counted(d, rows) = [d EXCEPT !.valid = valid, !.review = review, !.error = error, !.lifecycle = stage]
  BY DEF Counted
<1>3. /\ valid = Verdicts(f, year, "VALID") /\ review = Verdicts(f, year, "REVIEW")
      /\ error = Verdicts(f, year, "ERROR") /\ stage = LifecycleOf(f, year)
  BY <1>1 DEF LifecycleOf
<1> HIDE DEF valid, review, error, stage
<1> QED
  BY <1>2, <1>3 DEF Tallied, Dataset

LEMMA NewKnown ==
    ASSUME NEW year \in Targets
    PROVE  [target |-> year, lifecycle |-> "STAGED", valid |-> 0, review |-> 0, error |-> 0,
            published |-> 0, supersedes |-> None] \in Dataset
  BY DEF Dataset, Unpublished

(* A dataset as it is inserted.                                             *)
LEMMA NewDatasetTallies ==
    ASSUME NEW f \in Files, NEW year \in Targets
    PROVE  LET d == NewDataset(Parsed[f][year], year)
           IN /\ d \in Dataset /\ d.target = year
              /\ Tallied(d, f, year) /\ d.lifecycle = LifecycleOf(f, year) /\ d.lifecycle \in Unpublished
<1> DEFINE plain == [target |-> year, lifecycle |-> "STAGED", valid |-> 0, review |-> 0, error |-> 0,
                     published |-> 0, supersedes |-> None]
           rows == Parsed[f][year]
<1>1. plain \in Dataset /\ plain.target = year
  BY NewKnown
<1>2. NewDataset(rows, year) = Counted(plain, rows)
  BY DEF NewDataset
<1>3. DOMAIN rows = LinesOf[f] /\ \A l \in LinesOf[f] : rows[l].status = Verdict(f, l, year)
  BY ParsedReads
<1>4. IsFiniteSet(DOMAIN rows)
  BY <1>3, ImportAssumption
<1> HIDE DEF plain, rows
<1>5. Tallied(Counted(plain, rows), f, year) /\ Counted(plain, rows).lifecycle = LifecycleOf(f, year)
  BY <1>1, <1>3, CountedTallies
<1>6. /\ Counted(plain, rows) \in Dataset /\ Counted(plain, rows).lifecycle \in Unpublished
      /\ Counted(plain, rows).target = year
  BY <1>1, <1>4, CountedKnown
<1> QED
  BY <1>2, <1>5, <1>6 DEF rows

(* Whatever rows a request has read, those it retargets are rows.           *)
LEMMA RetargetedKnown ==
    ASSUME NEW f \in Files, NEW year \in Targets, NEW rows \in [LinesOf[f] -> Row]
    PROVE  Retargeted(rows, year) \in [LinesOf[f] -> Row]
<1>1. ASSUME NEW l \in LinesOf[f] PROVE Remapped(rows[l], l, year) \in Row
  <2> DEFINE r == rows[l]
             cleared == [r EXCEPT !.target = year, !.issues = @ \ Mapping]
             q == Resolve(Name(l), r.campus, r.day, year)
             m == Mapped(cleared, q)
  <2>1. r \in Row
    OBVIOUS
  <2>2. cleared \in Row
    BY <2>1 DEF Row
  <2>3. Remapped(r, l, year) = WithStatus(m)
    BY DEF Remapped
  <2>4. q = None \/ q \in Programs
    BY ResolvedKnown
  <2> HIDE DEF cleared, r, q
  <2>5. m \in Row
    <3>1. CASE q = None
      <4>1. m = [cleared EXCEPT !.program = None, !.issues = @ \cup {"CATALOG_MAPPING_REQUIRED"}]
        BY <3>1 DEF Mapped
      <4>2. "CATALOG_MAPPING_REQUIRED" \in Issues
        BY DEF Issues
      <4> HIDE DEF m
      <4> QED
        BY <2>2, <4>1, <4>2 DEF Row
    <3>2. CASE q # None
      <4>1. m = [cleared EXCEPT !.program = q, !.campus = q.campus, !.day = q.day]
        BY <3>2 DEF Mapped
      <4>2. q \in Programs /\ q.campus \in STRING /\ q.day \in {"DAY", "NIGHT", "UNKNOWN"}
        BY <2>4, <3>2, CatalogAssumption
      <4> HIDE DEF m
      <4> QED
        BY <2>2, <4>1, <4>2 DEF Row
    <3> QED
      BY <3>1, <3>2
  <2>6. StatusOf(m.issues) \in {"VALID", "REVIEW", "ERROR"}
    BY StatusKnown
  <2> HIDE DEF m
  <2>7. WithStatus(m) \in Row
    BY <2>5, <2>6 DEF WithStatus, Row
  <2> QED
    BY <2>3, <2>7 DEF r
<1> DEFINE again == [l \in DOMAIN rows |-> Remapped(rows[l], l, year)]
<1>2. Retargeted(rows, year) = Marked(again)
  BY DEF Retargeted
<1>3. again \in [LinesOf[f] -> Row]
  BY <1>1
<1> HIDE DEF again
<1>4. ASSUME NEW l \in LinesOf[f]
      PROVE  [again[l] EXCEPT !.issues = @ \cup {"DUPLICATE_BUSINESS_KEY"},
                              !.status = IF @ = "VALID" THEN "REVIEW" ELSE @] \in Row
  <2>1. again[l] \in Row /\ "DUPLICATE_BUSINESS_KEY" \in Issues
    BY <1>3 DEF Issues
  <2> QED
    BY <2>1 DEF Row
<1>5. Marked(again) \in [LinesOf[f] -> Row]
  BY <1>3, <1>4 DEF Marked
<1> QED
  BY <1>2, <1>5

-----------------------------------------------------------------------------
(* The steps that write nothing of a dataset.                               *)
LEMMA EndQuiet ==
    ASSUME ImportInv, NEW p \in Requests, UNCHANGED <<dataset, row, overtaken>>, raw' \subseteq Portal,
           End(p)
    PROVE  ImportInv'
  BY EndRemembers, QuietStep DEF End

LEMMA GoQuiet ==
    ASSUME ImportInv, NEW p \in Requests, UNCHANGED <<dataset, row, raw, overtaken>>,
           NEW r, Go(p, r), r # None => Remembers(p)'
    PROVE  ImportInv' 
<1>1. raw' \subseteq Portal /\ req' = [req EXCEPT ![p] = r] /\ req'[p] = r
  BY DEF Go, ImportInv, TypeOK, Kept
<1>2. Remembers(p)'
  BY <1>1 DEF Remembers
<1> QED
  BY <1>1, <1>2, QuietStep

LEMMA CollectStep ==
    ASSUME ImportInv, NEW p \in Requests, Collect(p)
    PROVE  ImportInv'
<1>1. UNCHANGED <<dataset, row, raw, overtaken>>
  BY DEF Collect
<1>2. PICK f \in Portal \ raw : Go(p, [at |-> "fetch", file |-> f, page |-> 1, tries |-> 0])
  BY DEF Collect
<1>3. f \in Files
  BY ImportAssumption
<1> DEFINE r == [at |-> "fetch", file |-> f, page |-> 1, tries |-> 0]
<1>4. r.at = "fetch" /\ r.file = f /\ {"at", "file"} \subseteq DOMAIN r
  OBVIOUS
<1>5. Go(p, r)
  BY <1>2
<1> HIDE DEF r
<1>6. req'[p] = r
  BY <1>5 DEF Go, ImportInv, Kept
<1>7. Remembers(p)'
  BY <1>3, <1>4, <1>6 DEF Remembers
<1> QED
  BY <1>1, <1>5, <1>7, GoQuiet

LEMMA FetchPageStep ==
    ASSUME ImportInv, NEW p \in Requests, FetchPage(p)
    PROVE  ImportInv'
<1>1. UNCHANGED <<dataset, row, raw, overtaken>> /\ req[p] # None /\ req[p].at = "fetch" /\ Remembers(p)
  BY DEF FetchPage, At, ImportInv, Kept
<1>2. req[p].file \in Files /\ req[p].file \in Portal /\ {"at", "file"} \subseteq DOMAIN req[p]
  BY <1>1 DEF Remembers
<1> DEFINE r == IF req[p].page < Pages THEN [req[p] EXCEPT !.page = @ + 1, !.tries = 0]
                ELSE [req[p] EXCEPT !.at = "store"]
<1>3. Go(p, r)
  BY DEF FetchPage
<1>4. r.file = req[p].file /\ r.at \in {"fetch", "store"} /\ {"at", "file"} \subseteq DOMAIN r
  <2>1. CASE req[p].page < Pages
    BY <1>1, <1>2, <2>1
  <2>2. CASE ~(req[p].page < Pages)
    BY <1>1, <1>2, <2>2
  <2> QED
    BY <2>1, <2>2
<1> HIDE DEF r
<1>5. req'[p] = r
  BY <1>3 DEF Go, ImportInv, Kept
<1>6. Remembers(p)'
  BY <1>2, <1>4, <1>5 DEF Remembers
<1> QED
  BY <1>1, <1>3, <1>6, GoQuiet

LEMMA FetchFailsStep ==
    ASSUME ImportInv, NEW p \in Requests, FetchFails(p)
    PROVE  ImportInv'
<1>1. UNCHANGED <<dataset, row, raw, overtaken>> /\ req[p] # None /\ req[p].at = "fetch" /\ Remembers(p)
  BY DEF FetchFails, At, ImportInv, Kept
<1>2. /\ req[p].file \in Files /\ req[p].file \in Portal /\ raw' \subseteq Portal
      /\ {"at", "file"} \subseteq DOMAIN req[p]
  BY <1>1 DEF Remembers, ImportInv, TypeOK
<1>3. CASE req[p].tries < MaxRetries
  <2> DEFINE r == [req[p] EXCEPT !.tries = @ + 1]
  <2>1. Go(p, r)
    BY <1>3 DEF FetchFails
  <2>2. r.file = req[p].file /\ r.at = "fetch" /\ {"at", "file"} \subseteq DOMAIN r
    BY <1>1, <1>2
  <2> HIDE DEF r
  <2>3. req'[p] = r
    BY <2>1 DEF Go, ImportInv, Kept
  <2>4. Remembers(p)'
    BY <1>2, <2>2, <2>3 DEF Remembers
  <2> QED
    BY <1>1, <2>1, <2>4, GoQuiet
<1>4. CASE ~(req[p].tries < MaxRetries)
  BY <1>1, <1>2, <1>4, EndQuiet DEF FetchFails
<1> QED
  BY <1>3, <1>4

LEMMA StoreRawStep ==
    ASSUME ImportInv, NEW p \in Requests, StoreRaw(p)
    PROVE  ImportInv'
<1>1. req[p].file \in Portal /\ raw \subseteq Portal
  BY DEF StoreRaw, At, ImportInv, TypeOK, Kept, Remembers
<1>2. raw' \subseteq Portal
  BY <1>1 DEF StoreRaw
<1> QED
  BY <1>2, EndQuiet DEF StoreRaw

LEMMA ConfirmStep ==
    ASSUME ImportInv, NEW p \in Requests, ConfirmMapping(p)
    PROVE  ImportInv'
<1>1. UNCHANGED <<dataset, row, raw, overtaken>>
  BY DEF ConfirmMapping
<1>2. PICK f \in Files, y \in Targets : Go(p, [at |-> "insert", file |-> f, year |-> y])
  BY DEF ConfirmMapping
<1> DEFINE r == [at |-> "insert", file |-> f, year |-> y]
<1>3. Go(p, r) /\ r.at = "insert" /\ r.file = f /\ r.year = y
  BY <1>2
<1> HIDE DEF r
<1>4. req'[p] = r
  BY <1>3 DEF Go, ImportInv, Kept
<1>5. Remembers(p)'
  BY <1>3, <1>4 DEF Remembers
<1> QED
  BY <1>1, <1>3, <1>5, GoQuiet

LEMMA OpenRetargetStep ==
    ASSUME ImportInv, NEW p \in Requests, OpenRetarget(p)
    PROVE  ImportInv'
<1>1. UNCHANGED <<dataset, row, raw, overtaken>>
  BY DEF OpenRetarget
<1>2. PICK f \in Files, y \in Targets :
        /\ dataset[f] # None /\ dataset[f].lifecycle \notin {"PUBLISHED", "SUPERSEDED"}
        /\ Go(p, [at |-> "rows", file |-> f, year |-> y, seen |-> dataset[f]])
  BY DEF OpenRetarget
<1> DEFINE r == [at |-> "rows", file |-> f, year |-> y, seen |-> dataset[f]]
<1>3. Go(p, r) /\ r.at = "rows" /\ r.file = f /\ r.year = y /\ r.seen = dataset[f]
  BY <1>2
<1>4. dataset[f] \in Dataset /\ dataset[f].lifecycle \in Unpublished
  BY <1>2 DEF ImportInv, TypeOK, Dataset
<1> HIDE DEF r
<1>5. req'[p] = r
  BY <1>3 DEF Go, ImportInv, Kept
<1>6. Remembers(p)'
  BY <1>1, <1>2, <1>3, <1>4, <1>5 DEF Remembers
<1> QED
  BY <1>1, <1>3, <1>6, GoQuiet

LEMMA LoadRowsStep ==
    ASSUME ImportInv, NEW p \in Requests, LoadRows(p)
    PROVE  ImportInv'
<1>1. UNCHANGED <<dataset, row, raw, overtaken>> /\ req[p] # None /\ req[p].at = "rows" /\ Remembers(p)
  BY DEF LoadRows, At, ImportInv, Kept
<1> DEFINE f == req[p].file
           r == [at |-> "retarget", file |-> f, year |-> req[p].year, seen |-> req[p].seen,
                 rows |-> RowsOf(f)]
<1>2. /\ f \in Files /\ req[p].year \in Targets /\ dataset[f] # None
      /\ req[p].seen \in Dataset /\ req[p].seen.lifecycle \in Unpublished
  BY <1>1 DEF Remembers
<1>3. RowsOf(f) \in [LinesOf[f] -> Row]
  BY <1>2, OwnRows DEF RowsOf
<1>4. /\ Go(p, r) /\ r.at = "retarget" /\ r.file = f /\ r.year = req[p].year
      /\ r.seen = req[p].seen /\ r.rows = RowsOf(f)
  BY DEF LoadRows
<1> HIDE DEF r, f
<1>5. req'[p] = r
  BY <1>4 DEF Go, ImportInv, Kept
<1>6. Remembers(p)'
  BY <1>1, <1>2, <1>3, <1>4, <1>5 DEF Remembers
<1> QED
  BY <1>1, <1>4, <1>6, GoQuiet

LEMMA OpenPublishStep ==
    ASSUME ImportInv, NEW p \in Requests, OpenPublish(p)
    PROVE  ImportInv'
<1>1. UNCHANGED <<dataset, row, raw, overtaken>>
  BY DEF OpenPublish
<1>2. PICK f \in Files :
        /\ dataset[f] # None /\ dataset[f].lifecycle \notin {"PUBLISHED", "SUPERSEDED"}
        /\ Go(p, [at |-> "previous", file |-> f, seen |-> dataset[f]])
  BY DEF OpenPublish, Publishable
<1> DEFINE r == [at |-> "previous", file |-> f, seen |-> dataset[f]]
<1>3. Go(p, r) /\ r.at = "previous" /\ r.file = f /\ r.seen = dataset[f]
  BY <1>2
<1>4. dataset[f] \in Dataset /\ dataset[f].lifecycle \in Unpublished
  BY <1>2 DEF ImportInv, TypeOK, Dataset
<1> HIDE DEF r
<1>5. req'[p] = r
  BY <1>3 DEF Go, ImportInv, Kept
<1>6. Remembers(p)'
  BY <1>1, <1>2, <1>3, <1>4, <1>5 DEF Remembers
<1> QED
  BY <1>1, <1>3, <1>6, GoQuiet

LEMMA FindPreviousStep ==
    ASSUME ImportInv, NEW p \in Requests, FindPrevious(p)
    PROVE  ImportInv'
<1>1. /\ UNCHANGED <<dataset, row, raw, overtaken>> /\ req[p] # None /\ req[p].at = "previous"
      /\ Remembers(p) /\ raw' \subseteq Portal
  BY DEF FindPrevious, At, ImportInv, TypeOK, Kept
<1> DEFINE f == req[p].file
           previous == Published(f, req[p].seen.target)
           r == [at |-> "publish", file |-> f, seen |-> req[p].seen, previous |-> previous]
<1>2. /\ f \in Files /\ dataset[f] # None
      /\ req[p].seen \in Dataset /\ req[p].seen.lifecycle \in Unpublished
  BY <1>1 DEF Remembers
<1>3. CASE End(p)
  BY <1>1, <1>3, EndQuiet
<1>4. CASE Go(p, r)
  <2>1. /\ r.at = "publish" /\ r.file = f /\ r.seen = req[p].seen /\ r.previous = previous
    OBVIOUS
  <2>2. \A g \in previous : g \in Files /\ g # f /\ dataset[g] # None /\ Source[g] = Source[f]
    BY DEF Published
  <2> HIDE DEF r, f, previous
  <2>3. req'[p] = r
    BY <1>4 DEF Go, ImportInv, Kept
  <2>4. Remembers(p)'
    BY <1>1, <1>2, <2>1, <2>2, <2>3 DEF Remembers
  <2> QED
    BY <1>1, <1>4, <2>4, GoQuiet
<1> QED
  BY <1>3, <1>4 DEF FindPrevious

-----------------------------------------------------------------------------
(* The steps that write.  No dataset is ever deleted, so what the requests  *)
(* remember stays; the tables are as they should be by their types; and of  *)
(* a source that was not overtaken, what was written is what was read.      *)
LEMMA WriteStep ==
    ASSUME ImportInv, NEW p \in Requests, End(p), TablesOK',
           dataset' = [f \in Files |-> dataset'[f]],
           \A f \in Files : dataset[f] # None => dataset'[f] # None,
           \A f \in Files : dataset'[f] # None /\ Source[f] \notin overtaken' => Shows(f)' /\ Comes(f)'
    PROVE  ImportInv'
<1>1. req' = [req EXCEPT ![p] = None] /\ Kept
  BY DEF End, ImportInv
<1>2. \A o \in Requests \ {p} : req'[o] = req[o] /\ Remembers(o)
  BY <1>1 DEF Kept
<1>3. Remembers(p)'
  BY EndRemembers
<1>4. \A o \in Requests : Remembers(o)'
  BY <1>2, <1>3, RemembersLasts
<1>5. Kept'
  BY <1>1, <1>4 DEF Kept
<1> QED
  BY <1>5, Assembled

(* A dataset that is not written goes on as it was, unless another of its   *)
(* source is published for its year.                                        *)
LEMMA OtherLasts ==
    ASSUME NEW g \in Files, Shows(g), Comes(g), dataset'[g] = dataset[g],
           \A l \in LinesOf[g] : row'[l] = row[l],
           dataset[g].lifecycle = "PUBLISHED" =>
               Published(g, dataset[g].target)' \subseteq Published(g, dataset[g].target)
    PROVE  Shows(g)' /\ Comes(g)'
<1>1. Shows(g)'
  BY DEF Shows
<1>2. Comes(g)'
  BY DEF Comes, Tallied
<1> QED
  BY <1>1, <1>2

LEMMA PreviewStep ==
    ASSUME ImportInv, NEW p \in Requests, PersistPreview(p)
    PROVE  ImportInv'
<1> DEFINE f == req[p].file
           y == req[p].year
           rows == Parsed[f][y]
           d == NewDataset(rows, y)
<1>1. /\ req[p] # None /\ req[p].at = "insert" /\ Remembers(p)
      /\ End(p) /\ UNCHANGED <<raw, overtaken>> /\ raw \subseteq Portal
  BY DEF PersistPreview, At, ImportInv, TypeOK, Kept
<1>2. f \in Files /\ y \in Targets
  BY <1>1 DEF Remembers
<1>3. CASE UNCHANGED <<dataset, row>>
  BY <1>1, <1>3, EndQuiet
<1>4. CASE /\ dataset[f] = None
           /\ dataset' = [dataset EXCEPT ![f] = d]
           /\ row' = [l \in Lines |-> IF l \in LinesOf[f] THEN rows[l] ELSE row[l]]
  <2>1. /\ TablesOK /\ Kept
        /\ \A g \in Files : dataset[g] # None /\ Source[g] \notin overtaken => Shows(g) /\ Comes(g)
    BY Apart
  <2>2. /\ d \in Dataset /\ d.target = y
        /\ Tallied(d, f, y) /\ d.lifecycle = LifecycleOf(f, y) /\ d.lifecycle \in Unpublished
    BY <1>2, NewDatasetTallies
  <2>3. \A l \in LinesOf[f] : /\ ReadFor(rows[l], l, y) /\ rows[l].status = Verdict(f, l, y)
                              /\ rows[l].publication = "STAGED"
    BY <1>2, ParsedReads
  <2>4. d # None
    BY <2>2, ImportAssumption
  <2> HIDE DEF rows, d, f, y
  <2>5. /\ dataset' = [g \in Files |-> dataset'[g]] /\ dataset'[f] = d
        /\ \A g \in Files \ {f} : dataset'[g] = dataset[g]
    BY <1>2, <1>4, <2>1 DEF Kept
  <2>6. /\ \A l \in LinesOf[f] : l \in Lines /\ row'[l] = rows[l] /\ rows[l] \in Row /\ rows[l] # None
        /\ \A l \in Lines : l \notin LinesOf[f] => row'[l] = row[l]
    BY <1>2, <1>4, <2>3, ImportAssumption DEF Lines, ReadFor, ReadFrom
  <2>7. \A g \in Files \ {f} : \A l \in LinesOf[g] : l \in Lines /\ row'[l] = row[l]
    BY <1>2, <2>6, LineOwner DEF Lines
  <2>8. TablesOK'
    BY <1>1, <1>2, <2>1, <2>2, <2>4, <2>5, <2>6, <2>7 DEF TablesOK
  <2>9. \A g \in Files : dataset[g] # None => dataset'[g] # None
    BY <2>4, <2>5
  <2>10. ASSUME NEW g \in Files, dataset'[g] # None, Source[g] \notin overtaken'
         PROVE  Shows(g)' /\ Comes(g)'
    <3>1. CASE g = f
      <4>1. "PUBLISHED" \notin Unpublished
        BY DEF Unpublished
      <4>2. dataset'[g] = d /\ \A l \in LinesOf[g] : row'[l] = rows[l]
        BY <2>5, <2>6, <3>1
      <4>3. Shows(g)'
        BY <2>2, <2>3, <3>1, <4>1, <4>2 DEF Shows
      <4>4. Comes(g)'
        <5>1. Tallied(d, g, d.target)
          BY <2>2, <3>1
        <5>2. Tallied(dataset'[g], g, dataset'[g].target)
          BY <4>2, <5>1
        <5> QED
          BY <1>2, <2>2, <2>3, <3>1, <4>2, <5>2 DEF Comes, ReadFor, Tallied
      <4> QED
        BY <4>3, <4>4
    <3>2. CASE g # f
      <4>1. dataset'[g] = dataset[g] /\ Shows(g) /\ Comes(g)
        BY <1>1, <2>1, <2>5, <2>10, <3>2
      <4>2. Published(g, dataset[g].target)' \subseteq Published(g, dataset[g].target)
        <5>1. d.lifecycle # "PUBLISHED"
          BY <2>2 DEF Unpublished
        <5> QED
          BY <2>5, <4>1, <5>1 DEF Published
      <4> QED
        BY <2>7, <3>2, <4>1, <4>2, OtherLasts
    <3> QED
      BY <3>1, <3>2
  <2> QED
    BY <1>1, <2>5, <2>8, <2>9, <2>10, WriteStep
<1> QED
  BY <1>3, <1>4 DEF PersistPreview

LEMMA RetargetStep ==
    ASSUME ImportInv, NEW p \in Requests, Retarget(p)
    PROVE  ImportInv'
<1>1. /\ req[p] # None /\ req[p].at = "retarget" /\ Remembers(p) /\ raw \subseteq Portal
      /\ TablesOK /\ Kept
      /\ \A g \in Files : dataset[g] # None /\ Source[g] \notin overtaken => Shows(g) /\ Comes(g)
  BY Apart DEF Retarget, At, Kept, TablesOK
<1>2. PICK r : r = req[p]
  OBVIOUS
<1>3. PICK f : f = r.file
  OBVIOUS
<1>4. PICK new : new = Retargeted(r.rows, r.year)
  OBVIOUS
<1>5. PICK d : d = Counted([r.seen EXCEPT !.target = r.year], new)
  OBVIOUS
<1> DEFINE datasets == [dataset EXCEPT ![f] = Flushed(r.seen, d, dataset[f])]
           rows == [l \in Lines |-> IF l \in LinesOf[f] THEN Flushed(r.rows[l], new[l], row[l]) ELSE row[l]]
<1>6. Store(p, datasets, rows) \/ RollBack(p, datasets, rows)
  BY <1>2, <1>3, <1>4, <1>5 DEF Retarget
<1>7. CASE RollBack(p, datasets, rows)
  <2>1. End(p) /\ UNCHANGED <<dataset, row, raw, overtaken>>
    BY <1>7 DEF RollBack
  <2> QED
    BY <1>1, <2>1, EndQuiet
<1>8. CASE Store(p, datasets, rows)
  <2>1. /\ End(p) /\ UNCHANGED raw /\ dataset' = datasets /\ row' = rows
        /\ overtaken' = IF Overtaken(r) THEN overtaken \cup {Source[f]} ELSE overtaken
    BY <1>2, <1>3, <1>8 DEF Store
  <2>2. /\ f \in Files /\ r.year \in Targets /\ dataset[f] # None
        /\ r.seen \in Dataset /\ r.seen.lifecycle \in Unpublished
        /\ r.rows \in [LinesOf[f] -> Row]
    BY <1>1, <1>2, <1>3 DEF Remembers
  <2>3. dataset[f] \in Dataset /\ \A l \in LinesOf[f] : l \in Lines /\ row[l] \in Row
    BY <1>1, <2>2, OwnRows DEF TablesOK
  <2>4. new \in [LinesOf[f] -> Row]
    BY <1>4, <2>2, RetargetedKnown
  <2> DEFINE moved == [r.seen EXCEPT !.target = r.year]
  <2>5. moved \in Dataset /\ moved.target = r.year
    BY <2>2 DEF Dataset
  <2>6. IsFiniteSet(DOMAIN new)
    BY <2>2, <2>4, ImportAssumption
  <2>7. d \in Dataset /\ d.lifecycle \in Unpublished /\ d.target = r.year
    BY <1>5, <2>5, <2>6, CountedKnown
  <2>8. /\ dataset' = [g \in Files |-> dataset'[g]]
        /\ dataset'[f] = Flushed(r.seen, d, dataset[f]) /\ dataset'[f] \in Dataset /\ dataset'[f] # None
        /\ \A g \in Files \ {f} : dataset'[g] = dataset[g]
    <3>1. Flushed(r.seen, d, dataset[f]) \in Dataset
      BY <2>2, <2>3, <2>7, FlushedDataset
    <3> QED
      BY <1>1, <2>1, <2>2, <3>1, ImportAssumption DEF Kept
  <2>9. /\ \A l \in LinesOf[f] : /\ l \in Lines /\ row'[l] = Flushed(r.rows[l], new[l], row[l])
                                 /\ row'[l] \in Row /\ row'[l] # None
        /\ \A l \in Lines : l \notin LinesOf[f] => row'[l] = row[l]
    <3>1. ASSUME NEW l \in LinesOf[f] PROVE Flushed(r.rows[l], new[l], row[l]) \in Row
      <4>1. r.rows[l] \in Row /\ new[l] \in Row /\ row[l] \in Row
        BY <2>2, <2>3, <2>4
      <4> QED
        BY <4>1, FlushedRow
    <3> QED
      BY <2>1, <2>2, <2>3, <3>1, ImportAssumption
  <2> HIDE DEF datasets, rows, moved
  <2>10. \A g \in Files \ {f} : \A l \in LinesOf[g] : l \in Lines /\ row'[l] = row[l]
    BY <2>2, <2>9, LineOwner DEF Lines
  <2>11. overtaken' \subseteq {Source[g] : g \in Files}
    BY <1>1, <2>1, <2>2 DEF TablesOK
  <2>12. TablesOK'
    BY <1>1, <2>1, <2>2, <2>8, <2>9, <2>10, <2>11 DEF TablesOK
  <2>13. \A g \in Files : dataset[g] # None => dataset'[g] # None
    BY <2>8
  <2>14. ASSUME Source[f] \notin overtaken'
         PROVE  /\ dataset[f] = r.seen /\ dataset'[f] = d /\ Shows(f) /\ Comes(f)
                /\ \A l \in LinesOf[f] : row[l] = r.rows[l] /\ row'[l] = new[l]
    <3>1. ~Overtaken(r) /\ Source[f] \notin overtaken
      BY <2>1, <2>14
    <3>2. dataset[f] = r.seen /\ RowsOf(f) = r.rows
      BY <1>1, <1>2, <1>3, <3>1 DEF Overtaken
    <3>3. dataset'[f] = d
      BY <2>2, <2>7, <2>8, <3>2, FlushedDataset
    <3>4. \A l \in LinesOf[f] : row[l] = r.rows[l]
      BY <3>2 DEF RowsOf
    <3>5. ASSUME NEW l \in LinesOf[f] PROVE row'[l] = new[l]
      <4>1. r.rows[l] \in Row /\ new[l] \in Row /\ row[l] = r.rows[l]
        BY <2>2, <2>4, <3>4
      <4>2. row'[l] = Flushed(row[l], new[l], row[l]) /\ row[l] \in Row
        BY <2>9, <4>1
      <4> QED
        BY <4>1, <4>2, FlushedRow
    <3> QED
      BY <1>1, <2>2, <3>1, <3>2, <3>3, <3>4, <3>5
  <2>15. ASSUME NEW g \in Files, dataset'[g] # None, Source[g] \notin overtaken'
         PROVE  Shows(g)' /\ Comes(g)'
    <3>1. CASE g = f
      <4>1. /\ dataset[g] = r.seen /\ dataset'[g] = d /\ Shows(g) /\ Comes(g)
            /\ \A l \in LinesOf[g] : row[l] = r.rows[l] /\ row'[l] = new[l]
        BY <2>14, <2>15, <3>1
      <4>2. \A l \in LinesOf[g] : ReadFrom(r.rows[l], l)
        BY <4>1 DEF Comes
      <4>3. \A l \in LinesOf[g] : /\ ReadFor(new[l], l, r.year) /\ new[l].status = Verdict(g, l, r.year)
                                  /\ new[l].publication = r.rows[l].publication
        BY <1>4, <2>2, <3>1, <4>2, RetargetedReads
      <4>4. Tallied(d, g, r.year) /\ d.lifecycle = LifecycleOf(g, r.year)
        <5>1. d = Counted(moved, new) /\ DOMAIN new = LinesOf[g]
          BY <1>5, <2>4, <3>1 DEF moved
        <5>2. \A l \in LinesOf[g] : new[l].status = Verdict(g, l, r.year)
          BY <4>3
        <5> QED
          BY <2>2, <2>5, <5>1, <5>2, CountedTallies
      <4>5. Shows(g)'
        <5>1. r.seen.lifecycle # "PUBLISHED" /\ d.lifecycle # "PUBLISHED"
          BY <2>2, <2>7 DEF Unpublished
        <5>2. \A l \in LinesOf[g] : row[l].publication # "PUBLISHED"
          BY <4>1, <5>1 DEF Shows
        <5> QED
          BY <4>1, <4>3, <5>1, <5>2 DEF Shows
      <4>6. Comes(g)'
        <5>1. Tallied(dataset'[g], g, dataset'[g].target)
          BY <2>7, <4>1, <4>4
        <5> QED
          BY <2>7, <4>1, <4>3, <4>4, <5>1 DEF Comes, ReadFor, Tallied
      <4> QED
        BY <4>5, <4>6
    <3>2. CASE g # f
      <4>1. dataset'[g] = dataset[g] /\ Source[g] \notin overtaken /\ Shows(g) /\ Comes(g)
        BY <1>1, <2>1, <2>8, <2>15, <3>2
      <4>2. Published(g, dataset[g].target)' \subseteq Published(g, dataset[g].target)
        <5>1. Source[g] = Source[f] => dataset'[f].lifecycle # "PUBLISHED"
          BY <2>7, <2>14, <2>15 DEF Unpublished
        <5> QED
          BY <2>8, <4>1, <5>1 DEF Published
      <4> QED
        BY <2>10, <3>2, <4>1, <4>2, OtherLasts
    <3> QED
      BY <3>1, <3>2
  <2> QED
    BY <2>1, <2>8, <2>12, <2>13, <2>15, WriteStep
<1> QED
  BY <1>6, <1>7, <1>8

(* Publication writes the publication of a row and nothing else of it.      *)
LEMMA PublicationWrites ==
    ASSUME NEW l, row[l] \in Row, NEW r, r = PublishedOrExcluded(l) \/ r = Superseded(l)
    PROVE  /\ r \in Row /\ r.program = row[l].program /\ r.status = row[l].status
           /\ r = PublishedOrExcluded(l) => (r.publication = "PUBLISHED" <=> r.status = "VALID")
           /\ r = Superseded(l) => r.publication # "PUBLISHED"
           /\ ReadFrom(row[l], l) => ReadFrom(r, l)
<1>1. PICK x : x = row[l]
  OBVIOUS
<1>2. /\ r \in Row /\ r.program = x.program /\ r.status = x.status
      /\ r.issues = x.issues /\ r.campus = x.campus /\ r.day = x.day
  BY <1>1 DEF PublishedOrExcluded, Superseded, Row
<1>3. r = PublishedOrExcluded(l) => (r.publication = "PUBLISHED" <=> r.status = "VALID")
  BY <1>1 DEF PublishedOrExcluded, Row
<1>4. r = Superseded(l) => r.publication # "PUBLISHED"
  BY <1>1 DEF Superseded, Row
<1>5. ReadFrom(x, l) => ReadFrom(r, l)
  BY <1>2 DEF ReadFrom
<1> QED
  BY <1>1, <1>2, <1>3, <1>4, <1>5

(* Publication: the dataset takes the place of the one its source had       *)
(* published for the year, if that is still the one it read.                *)
LEMMA PublishStep ==
    ASSUME ImportInv, NEW p \in Requests, Publish(p)
    PROVE  ImportInv'
<1>1. /\ req[p] # None /\ req[p].at = "publish" /\ Remembers(p) /\ raw \subseteq Portal
      /\ TablesOK /\ Kept
      /\ \A g \in Files : dataset[g] # None /\ Source[g] \notin overtaken => Shows(g) /\ Comes(g)
  BY Apart DEF Publish, At, Kept, TablesOK
<1>2. PICK r : r = req[p]
  OBVIOUS
<1>3. PICK f : f = r.file
  OBVIOUS
<1>4. PICK first : first = IF r.previous = {} THEN r.seen.supersedes ELSE CHOOSE g \in r.previous : TRUE
  OBVIOUS
<1>5. PICK done : done = [r.seen EXCEPT !.lifecycle = "PUBLISHED", !.published = r.seen.valid,
                                        !.supersedes = first]
  OBVIOUS
<1> DEFINE datasets == [g \in Files |-> IF g = f THEN Flushed(r.seen, done, dataset[f])
                                        ELSE IF g \in r.previous THEN [dataset[g] EXCEPT !.lifecycle = "SUPERSEDED"]
                                        ELSE dataset[g]]
           rows == PublishedRows(f, r.previous)
<1>6. Store(p, datasets, rows) \/ RollBack(p, datasets, rows)
  <2>1. [r.seen EXCEPT !.lifecycle = "PUBLISHED", !.published = r.seen.valid,
                       !.supersedes = IF r.previous = {} THEN @ ELSE CHOOSE g \in r.previous : TRUE] = done
    BY <1>4, <1>5
  <2>2. datasets = [g \in Files |->
            IF g = f THEN Flushed(r.seen, done, dataset[g])
            ELSE IF g \in r.previous THEN [dataset[g] EXCEPT !.lifecycle = "SUPERSEDED"]
            ELSE dataset[g]]
    OBVIOUS
  <2> HIDE DEF datasets, rows
  <2> QED
    BY <1>2, <1>3, <2>1, <2>2 DEF Publish, rows
<1>7. CASE RollBack(p, datasets, rows)
  <2>1. End(p) /\ UNCHANGED <<dataset, row, raw, overtaken>>
    BY <1>7 DEF RollBack
  <2> QED
    BY <1>1, <2>1, EndQuiet
<1>8. CASE Store(p, datasets, rows)
  <2>1. /\ End(p) /\ UNCHANGED raw /\ dataset' = datasets /\ row' = rows
        /\ overtaken' = IF Overtaken(r) THEN overtaken \cup {Source[f]} ELSE overtaken
    BY <1>2, <1>3, <1>8 DEF Store
  <2>2. /\ f \in Files /\ dataset[f] # None
        /\ r.seen \in Dataset /\ r.seen.lifecycle \in Unpublished
        /\ \A g \in r.previous : g \in Files /\ g # f /\ dataset[g] # None /\ Source[g] = Source[f]
    BY <1>1, <1>2, <1>3 DEF Remembers
  <2>3. \A g \in Files : dataset[g] # None =>
          dataset[g] \in Dataset /\ \A l \in LinesOf[g] : l \in Lines /\ row[l] \in Row
    BY <1>1, OwnRows DEF TablesOK
  <2>4. first \in Files \cup {None}
    <3>1. CASE r.previous = {}
      BY <1>4, <2>2, <3>1 DEF Dataset
    <3>2. CASE r.previous # {}
      BY <1>4, <2>2, <3>2
    <3> QED
      BY <3>1, <3>2
  <2>5. /\ done \in Dataset /\ done.lifecycle = "PUBLISHED" /\ done.target = r.seen.target
        /\ done.valid = r.seen.valid /\ done.review = r.seen.review /\ done.error = r.seen.error
    BY <1>5, <2>2, <2>4 DEF Dataset
  <2>6. Flushed(r.seen, done, dataset[f]) \in Dataset
    BY <2>2, <2>3, <2>5, FlushedDataset
  <2>7. \A g \in r.previous : LET old == [dataset[g] EXCEPT !.lifecycle = "SUPERSEDED"]
                              IN /\ old \in Dataset /\ old.lifecycle = "SUPERSEDED"
                                 /\ old.target = dataset[g].target /\ old.valid = dataset[g].valid
                                 /\ old.review = dataset[g].review /\ old.error = dataset[g].error
    BY <2>2, <2>3 DEF Dataset
  <2>8. /\ dataset' = [g \in Files |-> dataset'[g]]
        /\ dataset'[f] = Flushed(r.seen, done, dataset[f])
        /\ \A g \in r.previous : dataset'[g] = [dataset[g] EXCEPT !.lifecycle = "SUPERSEDED"]
        /\ \A g \in Files \ {f} : g \notin r.previous => dataset'[g] = dataset[g]
    BY <2>1, <2>2
  <2>9. \A l \in Lines : row'[l] = IF l \in LinesOf[f] THEN PublishedOrExcluded(l)
                                   ELSE IF \E g \in r.previous : l \in LinesOf[g] THEN Superseded(l) ELSE row[l]
    BY <2>1 DEF PublishedRows
  <2> HIDE DEF datasets, rows
  <2>10. \A l \in LinesOf[f] : /\ l \in Lines /\ row[l] \in Row
                               /\ row'[l] = PublishedOrExcluded(l)
    BY <2>2, <2>3, <2>9
  <2>11. \A g \in r.previous : \A l \in LinesOf[g] : /\ l \in Lines /\ row[l] \in Row
                                                     /\ row'[l] = Superseded(l)
    <3> SUFFICES ASSUME NEW g \in r.previous, NEW l \in LinesOf[g]
                 PROVE  l \in Lines /\ row[l] \in Row /\ row'[l] = Superseded(l)
      OBVIOUS
    <3>1. g \in Files /\ g # f /\ dataset[g] # None
      BY <2>2
    <3>2. l \notin LinesOf[f]
      BY <2>2, <3>1, LineOwner
    <3> QED
      BY <2>3, <2>9, <3>1, <3>2
  <2>12. \A g \in Files \ {f} : g \notin r.previous =>
           \A l \in LinesOf[g] : l \in Lines /\ row'[l] = row[l]
    <3> SUFFICES ASSUME NEW g \in Files \ {f}, g \notin r.previous, NEW l \in LinesOf[g]
                 PROVE  l \in Lines /\ row'[l] = row[l]
      OBVIOUS
    <3>1. l \in Lines /\ l \notin LinesOf[f]
      BY <2>2, LineOwner DEF Lines
    <3>2. \A h \in r.previous : l \notin LinesOf[h]
      BY <2>2, LineOwner
    <3> QED
      BY <2>9, <3>1, <3>2
  <2>13. \A g \in r.previous : dataset'[g] \in Dataset /\ dataset'[g] # None
    <3> SUFFICES ASSUME NEW g \in r.previous PROVE dataset'[g] \in Dataset
      BY ImportAssumption
    <3>1. dataset'[g] = [dataset[g] EXCEPT !.lifecycle = "SUPERSEDED"]
      BY <2>8
    <3>2. [dataset[g] EXCEPT !.lifecycle = "SUPERSEDED"] \in Dataset
      BY <2>7
    <3> QED
      BY <3>1, <3>2, Zenon
  <2>14. \A l \in LinesOf[f] : /\ row'[l] \in Row /\ row'[l].program = row[l].program
                               /\ row'[l].status = row[l].status
                               /\ row'[l].publication = "PUBLISHED" <=> row'[l].status = "VALID"
                               /\ ReadFrom(row[l], l) => ReadFrom(row'[l], l)
    BY <2>10, PublicationWrites
  <2>15. \A g \in r.previous : \A l \in LinesOf[g] :
           /\ row'[l] \in Row /\ row'[l].program = row[l].program /\ row'[l].status = row[l].status
           /\ row'[l].publication # "PUBLISHED"
           /\ ReadFrom(row[l], l) => ReadFrom(row'[l], l)
    BY <2>11, PublicationWrites
  <2>16. TablesOK'
    <3>1. ASSUME NEW g \in Files
          PROVE  /\ dataset'[g] = None \/ dataset'[g] \in Dataset
                 /\ dataset[g] # None => dataset'[g] # None
                 /\ dataset[g] = None => dataset'[g] = None
                 /\ \A l \in LinesOf[g] : /\ row'[l] = None \/ row'[l] \in Row
                                          /\ row'[l] = None <=> dataset'[g] = None
      <4>1. CASE g = f
        BY <2>2, <2>6, <2>8, <2>14, <4>1, ImportAssumption
      <4>2. CASE g \in r.previous
        BY <2>2, <2>15, <2>13, <4>2, ImportAssumption
      <4>3. CASE g # f /\ g \notin r.previous
        BY <1>1, <2>8, <2>12, <4>3 DEF TablesOK
      <4> QED
        BY <4>1, <4>2, <4>3
    <3>2. \A l \in Lines : row'[l] = None \/ row'[l] \in Row
      BY <3>1 DEF Lines
    <3>3. raw' \subseteq Portal /\ overtaken' \subseteq {Source[g] : g \in Files}
      BY <1>1, <2>1, <2>2 DEF TablesOK
    <3> QED
      BY <3>1, <3>2, <3>3 DEF TablesOK
  <2>17. \A g \in Files : dataset[g] # None => dataset'[g] # None
    <3> SUFFICES ASSUME NEW g \in Files, dataset[g] # None PROVE dataset'[g] # None
      OBVIOUS
    <3> QED
      BY <2>6, <2>8, <2>13, ImportAssumption
  <2>18. ASSUME Source[f] \notin overtaken'
         PROVE  /\ dataset[f] = r.seen /\ dataset'[f] = done /\ Shows(f) /\ Comes(f)
                /\ r.previous = Published(f, r.seen.target)
    <3>1. ~Overtaken(r) /\ Source[f] \notin overtaken
      BY <2>1, <2>18
    <3>2. dataset[f] = r.seen /\ r.previous = Published(f, r.seen.target)
      BY <1>1, <1>2, <1>3, <3>1 DEF Overtaken
    <3>3. dataset'[f] = done
      BY <2>2, <2>5, <2>8, <3>2, FlushedDataset
    <3> QED
      BY <1>1, <2>2, <3>1, <3>2, <3>3
  <2>19. \A g \in Files : Source[g] = Source[f] /\ g # f => (dataset'[g] # None /\ dataset'[g].lifecycle = "PUBLISHED" =>
            g \notin r.previous /\ dataset'[g] = dataset[g])
    BY <2>7, <2>8
  <2>20. ASSUME NEW g \in Files, dataset'[g] # None, Source[g] \notin overtaken'
         PROVE  Shows(g)' /\ Comes(g)'
    <3>1. CASE g = f
      <4>1. /\ dataset[g] = r.seen /\ dataset'[g] = done /\ Shows(g) /\ Comes(g)
            /\ r.previous = Published(g, r.seen.target)
        BY <2>18, <2>20, <3>1
      <4>2. Published(g, done.target)' = {}
        <5> SUFFICES ASSUME NEW h \in Files \ {g}, dataset'[h] # None, dataset'[h].lifecycle = "PUBLISHED",
                            Source[h] = Source[g], dataset'[h].target = done.target
                     PROVE  FALSE
          BY DEF Published
        <5>1. h \notin r.previous /\ dataset'[h] = dataset[h]
          BY <2>19, <3>1
        <5>2. h \in Published(g, r.seen.target)
          BY <2>5, <5>1 DEF Published
        <5> QED
          BY <4>1, <5>1, <5>2
      <4>3. Shows(g)'
        BY <2>5, <2>14, <3>1, <4>1, <4>2 DEF Shows
      <4>4. Comes(g)'
        <5>1. Tallied(done, g, done.target)
          BY <2>5, <4>1 DEF Comes, Tallied
        <5>2. "PUBLISHED" \notin Unpublished
          BY DEF Unpublished
        <5> QED
          BY <2>5, <2>14, <3>1, <4>1, <5>1, <5>2 DEF Comes, Tallied
      <4> QED
        BY <4>3, <4>4
    <3>2. CASE g \in r.previous
      <4>1. Source[g] = Source[f] /\ dataset[g] # None /\ g # f
        BY <2>2, <3>2
      <4>2. Comes(g)
        BY <1>1, <2>1, <2>20, <4>1
      <4>3. dataset'[g].lifecycle = "SUPERSEDED" /\ dataset'[g].target = dataset[g].target
            /\ dataset'[g].valid = dataset[g].valid /\ dataset'[g].review = dataset[g].review
            /\ dataset'[g].error = dataset[g].error
        BY <2>7, <2>8, <3>2
      <4>4. Shows(g)'
        BY <2>15, <3>2, <4>3 DEF Shows
      <4>5. Comes(g)'
        <5>1. "SUPERSEDED" \notin Unpublished
          BY DEF Unpublished
        <5> QED
          BY <2>15, <3>2, <4>2, <4>3, <5>1 DEF Comes, Tallied
      <4> QED
        BY <4>4, <4>5
    <3>3. CASE g # f /\ g \notin r.previous
      <4>1. /\ dataset'[g] = dataset[g] /\ Source[g] \notin overtaken /\ Shows(g) /\ Comes(g)
            /\ \A l \in LinesOf[g] : row'[l] = row[l]
        BY <1>1, <2>1, <2>8, <2>12, <2>20, <3>3
      <4>2. ASSUME dataset[g].lifecycle = "PUBLISHED"
            PROVE  Published(g, dataset[g].target)' \subseteq Published(g, dataset[g].target)
        <5> SUFFICES ASSUME NEW h \in Files \ {g}, dataset'[h] # None, dataset'[h].lifecycle = "PUBLISHED",
                            Source[h] = Source[g], dataset'[h].target = dataset[g].target
                     PROVE  h \in Published(g, dataset[g].target)
          BY <4>1 DEF Published
        <5>1. h # f
          <6> SUFFICES ASSUME h = f PROVE FALSE
            OBVIOUS
          <6>1. dataset'[h] = done /\ r.previous = Published(f, r.seen.target)
            BY <2>18, <2>20
          <6>2. g \in Published(f, r.seen.target)
            BY <2>5, <2>20, <3>3, <4>1, <4>2, <6>1 DEF Published
          <6> QED
            BY <3>3, <6>1, <6>2
        <5>2. dataset'[h] = dataset[h]
          BY <2>7, <2>8, <5>1
        <5> QED
          BY <5>2 DEF Published
      <4> QED
        BY <4>1, <4>2, OtherLasts
    <3> QED
      BY <3>1, <3>2, <3>3
  <2> QED
    BY <2>1, <2>8, <2>16, <2>17, <2>20, WriteStep
<1> QED
  BY <1>6, <1>7, <1>8

-----------------------------------------------------------------------------
(* What the requests leave, for any files, catalogue and number of them:    *)
(* the tables, what is under way, and the datasets not overtaken.           *)
THEOREM ImportSound == Spec => []ImportInv
<1>1. Init => ImportInv
  <2> SUFFICES ASSUME Init PROVE ImportInv
    OBVIOUS
  <2>1. \A f \in Files : dataset[f] = None /\ \A l \in LinesOf[f] : row[l] = None
    BY DEF Init, Lines
  <2>2. TypeOK
    BY <2>1 DEF Init, TypeOK
  <2>3. Kept
    BY DEF Init, Kept, Remembers
  <2> QED
    BY <2>1, <2>2, <2>3 DEF ImportInv
<1>2. ImportInv /\ [Next]_vars => ImportInv'
  <2> SUFFICES ASSUME ImportInv, [Next]_vars PROVE ImportInv'
    OBVIOUS
  <2>1. CASE UNCHANGED vars
    <3>1. /\ TablesOK /\ Kept
          /\ \A f \in Files : dataset[f] # None /\ Source[f] \notin overtaken => Shows(f) /\ Comes(f)
      BY Apart
    <3>2. TablesOK' /\ Kept'
      BY <2>1, <3>1 DEF vars, TablesOK, Kept, Remembers
    <3>3. \A f \in Files : dataset'[f] # None /\ Source[f] \notin overtaken' => Shows(f)' /\ Comes(f)'
      BY <2>1, <3>1 DEF vars, Shows, Published, Comes, Tallied
    <3> QED
      BY <3>2, <3>3, Assembled
  <2>2. ASSUME Next PROVE ImportInv'
    BY <2>2, CollectStep, FetchPageStep, FetchFailsStep, StoreRawStep, ConfirmStep, PreviewStep,
       OpenRetargetStep, LoadRowsStep, RetargetStep, OpenPublishStep, FindPreviousStep, PublishStep DEF Next
  <2> QED
    BY <2>1, <2>2
<1> QED
  BY <1>1, <1>2, PTL DEF Spec

(* Every column of a dataset and of its rows has one of its values, and a   *)
(* request that goes on finds the dataset it started from.                  *)
THEOREM ImportTypes == Spec => []TypeOK
  BY ImportSound, PTL DEF ImportInv

(* A source has one published dataset per year, which shows its valid rows, *)
(* and a dataset that was replaced or never published shows none: what      *)
(* publish_admission_result_dataset promises of requests that did not cross *)
(* another of their source.                                                 *)
THEOREM OneDataset == Spec => []OnePublishedDataset
<1>1. ImportInv => OnePublishedDataset
  BY DEF ImportInv, Shows, OnePublishedDataset
<1> QED
  BY <1>1, ImportSound, PTL

(* However often a dataset was retargeted, its rows name the programs and   *)
(* have the verdicts that its file, uploaded for its present year, would    *)
(* have, and its numbers are theirs.                                        *)
THEOREM StagedAsUploaded == Spec => []AsUploaded
<1>1. ImportInv => AsUploaded
  <2> SUFFICES ASSUME ImportInv, NEW f \in Files, dataset[f] # None, Source[f] \notin overtaken
               PROVE  LET rows == Parsed[f][dataset[f].target]
                          fresh == NewDataset(rows, dataset[f].target)
                      IN /\ \A l \in LinesOf[f] : row[l].program = rows[l].program /\ row[l].status = rows[l].status
                         /\ \A c \in {"valid", "review", "error"} : dataset[f][c] = fresh[c]
                         /\ dataset[f].lifecycle \in Unpublished => dataset[f].lifecycle = fresh.lifecycle
    BY DEF AsUploaded
  <2> DEFINE y == dataset[f].target
             rows == Parsed[f][y]
             fresh == NewDataset(rows, y)
  <2>1. y \in Targets /\ Comes(f)
    BY DEF ImportInv, TypeOK, Dataset
  <2>2. \A l \in LinesOf[f] : rows[l].program = MatchOf(l, y) /\ rows[l].status = Verdict(f, l, y)
    BY <2>1, ParsedReads DEF ReadFor
  <2>3. Tallied(fresh, f, y) /\ fresh.lifecycle = LifecycleOf(f, y)
    BY <2>1, NewDatasetTallies
  <2> HIDE DEF rows, fresh
  <2>4. \A l \in LinesOf[f] : row[l].program = rows[l].program /\ row[l].status = rows[l].status
    BY <2>1, <2>2 DEF Comes
  <2>5. \A c \in {"valid", "review", "error"} : dataset[f][c] = fresh[c]
    BY <2>1, <2>3 DEF Comes, Tallied
  <2>6. dataset[f].lifecycle \in Unpublished => dataset[f].lifecycle = fresh.lifecycle
    BY <2>1, <2>3 DEF Comes
  <2> QED
    BY <2>4, <2>5, <2>6 DEF rows, fresh
<1> QED
  BY <1>1, ImportSound, PTL
=============================================================================
