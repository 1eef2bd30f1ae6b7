------------------------------ MODULE Workspace ------------------------------
(***************************************************************************)
(* One-time calculations: the temporary files of a calculation, the web    *)
(* requests that write, read and delete them, the clean-up of what has     *)
(* expired, and the transaction that keeps a result in an account.         *)
(* Requests interleave at every file system call and at every statement of *)
(* the transaction, and a worker may be lost between any two of them.      *)
(***************************************************************************)
EXTENDS Naturals, Sequences

CONSTANTS Sessions,   \* calculation ids (uuid4, never reused)
          Requests,   \* web requests under way at once
          Cleaners,   \* the clean-up loops of the start script
          Inputs,     \* contents of the rows a person may confirm
          TTL,        \* ticks in MAX_REVIEW_AGE_SECONDS = ANONYMOUS_SESSION_TTL
          None

ASSUME SessionAssumption ==
    /\ TTL \in Nat \ {0}
    /\ None \notin Inputs \cup Sessions

VARIABLES disk,    \* the directory of each calculation
          cookie,  \* ANONYMOUS_ID_SESSION_KEY of the browser
          req,     \* the requests under way
          saved    \* what accounts keep: calculations with their rows and result

vars == <<disk, cookie, req, saved>>

Workers == Requests \cup Cleaners
Age == 0..TTL

(* anonymous-calculation.json, or its .tmp: the rows, the input its         *)
(* snapshot was computed from, the time since created_at (which fixes       *)
(* expires_at) and since the file was written.  A file that was truncated,  *)
(* or over which two writes have run, is no JSON.                           *)
Broken == {"empty", "torn"}
StateFile == [rows : Inputs \cup Broken, result : Inputs \cup {None}, age : Age, mtime : Age]

ASSUME FileAssumption == None \notin StateFile

Names == {"original", "derived", "review", "tmp", "live"}
Directory == [status : {"unused", "open", "gone"}, derived : BOOLEAN, original : BOOLEAN,
              review : Age \cup {None}, tmp : StateFile \cup {None},
              live : StateFile \cup {None}, mtime : Age]

Unused == [status |-> "unused", derived |-> FALSE, original |-> FALSE, review |-> None,
           tmp |-> None, live |-> None, mtime |-> 0]
GoneDir == [Unused EXCEPT !.status = "gone"]

Present(d) == {n \in Names : CASE n = "original" -> d.original
                               [] n = "derived" -> d.derived
                               [] n = "review" -> d.review # None
                               [] n = "tmp" -> d.tmp # None
                               [] n = "live" -> d.live # None}

Kinds == {"sweep", "start", "review", "view", "results", "save", "complete", "discard"}
Steps == {"sweep", "list", "unlink", "rmdir", "create", "load", "attach", "open", "write", "replace",
          "cleanup", "save", "answer", "end"}

Request == [kind : Kinds, s : Sessions \cup {None}, at : Steps,
            todo : SUBSET Sessions, victim : Sessions \cup {None}, seen : SUBSET Names,
            state : StateFile \cup {None}, input : Inputs \cup {None},
            then : Steps, fd : {"none", "tmp", "live", "lost"}, failed : BOOLEAN]

TypeOK ==
    /\ disk \in [Sessions -> Directory]
    /\ \A s \in Sessions : disk[s].status # "open" => disk[s] \in {Unused, GoneDir}
    /\ cookie \in Sessions \cup {None}
    /\ req \in [Workers -> Request \cup {None}]
    /\ saved \in Seq([calc : Sessions, rows : Inputs, result : Inputs])

Init ==
    /\ disk = [s \in Sessions |-> Unused]
    /\ cookie = None
    /\ req = [p \in Workers |-> None]
    /\ saved = <<>>

-----------------------------------------------------------------------------
(* Control of a request.  After a purge or a write it goes on at "then";    *)
(* an exception (a 404, a 409, a 500) ends it.                              *)

Go(p, r) == req' = [req EXCEPT ![p] = IF r.at = "end" THEN None ELSE r]
End(p) == req' = [req EXCEPT ![p] = None]
At(p, step) == req[p] # None /\ req[p].at = step
PurgeOf(r, s, then) == [r EXCEPT !.at = "list", !.victim = s, !.then = then, !.state = None]
Purged(r) == [r EXCEPT !.at = r.then, !.victim = None, !.seen = {}, !.then = "end"]

NewRequest(kind, s, step) ==
    [kind |-> kind, s |-> s, at |-> step, todo |-> {}, victim |-> None, seen |-> {}, state |-> None,
     input |-> None, then |-> "end", fd |-> "none", failed |-> FALSE]

OpenSessions == {s \in Sessions : disk[s].status = "open"}

(* GET /calculate and the loop of run_production_web.sh.                    *)
BeginSweep(p) ==
    /\ req[p] = None
    /\ Go(p, [NewRequest("sweep", None, "sweep") EXCEPT !.todo = OpenSessions])
    /\ UNCHANGED <<disk, cookie, saved>>

(* A form of the browser.  The review pages take the id of the URL, the     *)
(* calculation pages only the one in the cookie.                            *)
Begin(p, request) ==
    /\ p \in Requests
    /\ req[p] = None
    /\ Go(p, request)
    /\ UNCHANGED <<disk, cookie, saved>>

StartCalculation(p) == Begin(p, [NewRequest("start", cookie, "sweep") EXCEPT !.todo = OpenSessions])

Review(p) == \E s \in OpenSessions : Begin(p, NewRequest("review", s, "load"))

Discard(p) == \E s \in OpenSessions : Begin(p, NewRequest("discard", s, "load"))

Calculation(p, kind) == cookie \in OpenSessions /\ Begin(p, NewRequest(kind, cookie, "load"))

ViewTargets(p) == Calculation(p, "view")
Results(p) == Calculation(p, "results")
SaveForm(p) == Calculation(p, "save")
Complete(p) == Calculation(p, "complete")

-----------------------------------------------------------------------------
(* purge_expired_sessions: one directory after the other.                   *)

Expired_DraftsOnly(d) == d.review = TTL /\ d.mtime = TTL /\ (d.live # None => d.live.mtime = TTL)

Expired(d) == /\ d.mtime = TTL
              /\ d.review \in {None, TTL}
              /\ d.live # None => d.live.mtime = TTL

Sweep(p) ==
    /\ At(p, "sweep")
    /\ IF req[p].todo = {}
       THEN Go(p, CASE req[p].kind = "sweep" -> [req[p] EXCEPT !.at = "end"]
                    [] req[p].kind = "start" /\ req[p].s = None -> [req[p] EXCEPT !.at = "create"]
                    [] req[p].kind = "start" /\ req[p].s # None -> PurgeOf([req[p] EXCEPT !.s = None], req[p].s, "create"))
       ELSE \E s \in req[p].todo :
              LET r == [req[p] EXCEPT !.todo = @ \ {s}]
              IN Go(p, IF disk[s].status = "open" /\ Expired(disk[s]) THEN PurgeOf(r, s, "sweep") ELSE r)
    /\ UNCHANGED <<disk, cookie, saved>>

(* Whoever has a file open keeps the inode when its name goes.              *)
Moved(p, s, r, renamed) ==
    [q \in Workers |->
        IF q = p THEN (IF r.at = "end" THEN None ELSE r)
        ELSE IF req[q] # None /\ req[q].s = s /\ req[q].fd \in DOMAIN renamed
             THEN [req[q] EXCEPT !.fd = renamed[@]] ELSE req[q]]

(* purge_session: shutil.rmtree reads the directory, removes what it read,  *)
(* then the directories.  A name that has gone or come meanwhile makes it   *)
(* fail (DeletionVerificationError).                                        *)
List(p) ==
    /\ At(p, "list")
    /\ LET v == req[p].victim
       IN Go(p, IF disk[v].status = "open"
                THEN [req[p] EXCEPT !.at = "unlink", !.seen = Present(disk[v])]
                ELSE Purged(req[p]))
    /\ UNCHANGED <<disk, cookie, saved>>

Without(d, names) ==
    [d EXCEPT !.original = @ /\ "original" \notin names,
              !.review = IF "review" \in names THEN None ELSE @,
              !.tmp = IF "tmp" \in names THEN None ELSE @,
              !.live = IF "live" \in names THEN None ELSE @]

Unlink(p) ==
    /\ At(p, "unlink")
    /\ LET v == req[p].victim
           complete == disk[v].status = "open" /\ req[p].seen \subseteq Present(disk[v])
       IN \E names \in SUBSET (req[p].seen \cap Present(disk[v])) :
            /\ complete => names = req[p].seen
            /\ disk' = [disk EXCEPT ![v] = Without(@, names)]
            /\ req' = Moved(p, v, [req[p] EXCEPT !.at = IF complete THEN "rmdir" ELSE "end", !.seen = @ \cap {"derived"}],
                            [n \in names \cap {"tmp", "live"} |-> "lost"])
    /\ UNCHANGED <<cookie, saved>>

(* The directories that were read, and no other, have to be there still,    *)
(* and to be empty.                                                         *)
Removable(p, d) == d.status = "open" /\ Present(d) = req[p].seen \cap {"derived"}

RemoveSession_Unverified(p) ==
    /\ At(p, "rmdir")
    /\ LET v == req[p].victim
       IN disk' = [disk EXCEPT ![v] = IF Removable(p, @) THEN GoneDir ELSE @]
    /\ Go(p, Purged(req[p]))
    /\ UNCHANGED <<cookie, saved>>

RemoveSession(p) ==
    /\ At(p, "rmdir")
    /\ LET v == req[p].victim
       IN IF Removable(p, disk[v])
          THEN /\ disk' = [disk EXCEPT ![v] = GoneDir]
               /\ Go(p, Purged(req[p]))
          ELSE End(p) /\ UNCHANGED disk
    /\ UNCHANGED <<cookie, saved>>

-----------------------------------------------------------------------------
(* start_public_calculation: the input is refused (400), or stored in a new *)
(* directory with the pasted or uploaded original and the review state.  Nobody else knows the id *)
(* yet; a worker that is lost in between leaves a directory without state.  *)

NewDirectory == [Unused EXCEPT !.status = "open", !.original = TRUE]

Create(p) ==
    /\ At(p, "create")
    /\ \/ End(p) /\ UNCHANGED disk
       \/ \E s \in Sessions :
            /\ disk[s].status = "unused"
            /\ \/ /\ disk' = [disk EXCEPT ![s] = [NewDirectory EXCEPT !.derived = TRUE, !.review = 0]]
                  /\ Go(p, [req[p] EXCEPT !.at = "answer", !.s = s])
               \/ /\ disk' = [disk EXCEPT ![s] = NewDirectory]
                  /\ End(p)
    /\ UNCHANGED <<cookie, saved>>

-----------------------------------------------------------------------------
(* _review_state and _anonymous_state.                                      *)

Readable(d) == d.live # None /\ d.live.rows \notin Broken

(* What the request does with a state it could load.                        *)
Loaded(p, r) ==
    CASE r.kind = "review" ->
           \E i \in Inputs : Go(p, [r EXCEPT !.at = "open",
                                             !.state = [rows |-> i, result |-> None, age |-> 0, mtime |-> 0]])
      [] r.kind = "results" -> Go(p, [r EXCEPT !.at = "attach", !.input = r.state.rows, !.state = None])
      [] r.kind = "save" -> Go(p, [r EXCEPT !.at = "save"])
      [] r.kind = "view" -> End(p)
      [] r.kind \in {"discard", "complete"} -> Go(p, PurgeOf(r, r.s, "answer"))

Load(p) ==
    /\ At(p, "load")
    /\ LET r == req[p]
           d == disk[r.s]
       IN IF r.kind \in {"review", "discard"}
          THEN CASE d.review = None -> End(p)
                 [] d.review = TTL -> Go(p, PurgeOf(r, r.s, "end"))
                 [] OTHER -> Loaded(p, r)
          ELSE CASE ~Readable(d) -> End(p)
                 [] Readable(d) /\ d.live.age = TTL -> Go(p, PurgeOf(r, r.s, "end"))
                 [] OTHER -> Loaded(p, [r EXCEPT !.state = [d.live EXCEPT !.mtime = 0]])
    /\ UNCHANGED <<disk, cookie, saved>>

(* attach_consultation_snapshot loads the state again: it stores the rows   *)
(* it finds now with the result of those the calculation read.              *)
Attach(p) ==
    /\ At(p, "attach")
    /\ LET d == disk[req[p].s]
       IN CASE ~Readable(d) -> End(p)
            [] Readable(d) /\ d.live.age = TTL -> Go(p, PurgeOf(req[p], req[p].s, "end"))
            [] OTHER -> Go(p, [req[p] EXCEPT !.at = "open", !.input = None,
                                             !.state = [d.live EXCEPT !.result = req[p].input, !.mtime = 0]])
    /\ UNCHANGED <<disk, cookie, saved>>

-----------------------------------------------------------------------------
(* _write_state: derived/ is made when missing, its parent is not; every    *)
(* writer of a calculation uses the same .tmp name.                         *)

Empty == [rows |-> "empty", result |-> None, age |-> 0, mtime |-> 0]

OpenTemporary(p) ==
    /\ At(p, "open")
    /\ LET s == req[p].s
       IN IF disk[s].status = "open"
          THEN /\ disk' = [disk EXCEPT ![s].derived = TRUE, ![s].tmp = Empty,
                                       ![s].mtime = IF disk[s].derived THEN @ ELSE 0]
               /\ Go(p, [req[p] EXCEPT !.at = "write", !.fd = "tmp"])
          ELSE End(p) /\ UNCHANGED disk
    /\ UNCHANGED <<cookie, saved>>

(* The second write over a file replaces all of it or leaves a tail of the  *)
(* first, by their lengths.                                                 *)
Overwritten(file, state) ==
    LET fresh == [state EXCEPT !.mtime = 0]
    IN IF file.rows = "empty" THEN {fresh} ELSE {fresh, [fresh EXCEPT !.rows = "torn", !.result = None]}

Write(p) ==
    /\ At(p, "write")
    /\ LET s == req[p].s
       IN CASE req[p].fd = "tmp" -> \E f \in Overwritten(disk[s].tmp, req[p].state) :
                                       disk' = [disk EXCEPT ![s].tmp = f]
            [] req[p].fd = "live" -> \E f \in Overwritten(disk[s].live, req[p].state) :
                                       disk' = [disk EXCEPT ![s].live = f]
            [] OTHER -> UNCHANGED disk
    /\ Go(p, [req[p] EXCEPT !.at = "replace", !.fd = "none", !.state = None])
    /\ UNCHANGED <<cookie, saved>>

(* chmod and os.replace.                                                    *)
Replace(p) ==
    /\ At(p, "replace")
    /\ LET s == req[p].s
       IN IF disk[s].tmp # None
          THEN /\ disk' = [disk EXCEPT ![s].live = disk[s].tmp, ![s].tmp = None]
               /\ req' = Moved(p, s, [req[p] EXCEPT !.at = "cleanup"],
                               [n \in {"tmp", "live"} |-> IF n = "tmp" THEN "live" ELSE "lost"])
          ELSE Go(p, [req[p] EXCEPT !.at = "cleanup", !.failed = TRUE]) /\ UNCHANGED disk
    /\ UNCHANGED <<cookie, saved>>

PurgeOriginals(d) == [d EXCEPT !.original = FALSE, !.mtime = IF d.original THEN 0 ELSE @]

(* The unlink of the finally clause: also of a .tmp another writer made.    *)
(* After a review that could store the rows, the original goes.             *)
CleanUp(p) ==
    /\ At(p, "cleanup")
    /\ LET s == req[p].s
           rest == [disk[s] EXCEPT !.tmp = None]
       IN /\ disk' = [disk EXCEPT ![s] = IF req[p].failed \/ req[p].kind # "review" THEN rest
                                                                    ELSE PurgeOriginals(rest)]
          /\ req' = Moved(p, s, [req[p] EXCEPT !.at = "end"], [n \in {"tmp"} |-> "lost"])
    /\ UNCHANGED <<cookie, saved>>

-----------------------------------------------------------------------------
(* save_anonymous_records, save_anonymous_consultation, the commit, and the *)
(* purge after it.  There has to be a result, and none saved of this        *)
(* calculation (a query, then UNIQUE(calculation_id), which also decides    *)
(* between two at once).                                                    *)

Keepable_NotUnique(r) == r.state.result # None

Keepable(r) == r.state.result # None /\ \A i \in DOMAIN saved : saved[i].calc # r.s

Save(p) ==
    /\ At(p, "save")
    /\ LET r == req[p]
       IN IF Keepable(r)
          THEN /\ saved' = Append(saved, [calc |-> r.s, rows |-> r.state.rows, result |-> r.state.result])
               /\ Go(p, PurgeOf(r, r.s, "answer"))
          ELSE End(p) /\ UNCHANGED saved
    /\ UNCHANGED <<disk, cookie>>

(* The response sets the id in the cookie or takes it out.                  *)
Answer(p) ==
    /\ At(p, "answer")
    /\ cookie' = IF req[p].kind = "start" THEN req[p].s ELSE None
    /\ End(p)
    /\ UNCHANGED <<disk, saved>>

-----------------------------------------------------------------------------
Crash(p) == p \in Requests /\ req[p] # None /\ End(p) /\ UNCHANGED <<disk, cookie, saved>>

Older(n) == IF n = None \/ n = TTL THEN n ELSE n + 1
OlderFile(f) == IF f = None THEN None ELSE [f EXCEPT !.age = Older(@), !.mtime = Older(@)]
OlderState(n) == IF n = None THEN None ELSE [n EXCEPT !.age = Older(@)]

Tick ==
    /\ disk' = [s \in Sessions |->
         IF disk[s].status = "open"
         THEN [disk[s] EXCEPT !.mtime = Older(@), !.review = Older(@), !.tmp = OlderFile(@), !.live = OlderFile(@)]
         ELSE disk[s]]
    /\ req' = [p \in Workers |->
         IF req[p] = None THEN None ELSE [req[p] EXCEPT !.state = OlderState(@)]]
    /\ UNCHANGED <<cookie, saved>>

Step(p) ==
    \/ Sweep(p)
    \/ List(p)
    \/ Unlink(p)
    \/ RemoveSession(p)
    \/ Create(p)
    \/ Load(p)
    \/ Attach(p)
    \/ OpenTemporary(p)
    \/ Write(p)
    \/ Replace(p)
    \/ CleanUp(p)
    \/ Save(p)
    \/ Answer(p)

Next ==
    \/ Tick
    \/ \E p \in Workers :
        \/ BeginSweep(p)
        \/ StartCalculation(p)
        \/ Review(p)
        \/ Discard(p)
        \/ ViewTargets(p)
        \/ Results(p)
        \/ SaveForm(p)
        \/ Complete(p)
        \/ Step(p)
        \/ Crash(p)

(* A worker goes on with a request it has begun, the clean-up loop begins   *)
(* again every five minutes, and time passes.                               *)
Fairness == /\ \A p \in Workers : WF_vars(Step(p))
            /\ \A c \in Cleaners : WF_vars(BeginSweep(c))
            /\ WF_vars(Tick)

Spec == Init /\ [][Next]_vars /\ Fairness

-----------------------------------------------------------------------------
(* The files and the two tables keep the promise of OneTimeCalculation:     *)
(* input that was deleted never comes back, however late a writer is; the   *)
(* result of a calculation is kept once, together with its courses; and a   *)
(* record never mixes the courses of two calculations.                      *)
Promise == INSTANCE OneTimeCalculation WITH
    Calculations <- Sessions,
    onDisk <- OpenSessions,
    erased <- {s \in Sessions : disk[s].status = "gone"},
    kept <- saved

KeepsPromise == Promise!Spec

(* "calculation_deleted": when a request answers that a calculation is      *)
(* completed, discarded or saved, none of its files is left, although other *)
(* requests may have been writing them while they were being deleted.       *)
AnsweredMeansErased ==
    \A p \in Requests : At(p, "answer") /\ req[p].kind # "start" => disk[req[p].s].status = "gone"

(* Whatever the requests do, and whichever of them are lost half way, what  *)
(* a person typed in is deleted in the end.                                 *)
ErasedInTheEnd == \A s \in Sessions : disk[s].status = "open" ~> disk[s].status = "gone"
=============================================================================
