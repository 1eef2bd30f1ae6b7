---------------------------- MODULE WorkspaceProofs ----------------------------
(***************************************************************************)
(* A request that answers "calculation_deleted" leaves no file of the      *)
(* calculation, for any number of calculations, requests and clean-up       *)
(* loops, and whichever workers are lost.  A directory that has gone does   *)
(* not come back, so it is enough to follow each request from the step that *)
(* names the calculation to the one that verifies the removal.              *)
(*                                                                         *)
(* The files inside are followed too: a request that has a file open finds *)
(* it under the name it opened, renamed, or without a name, because        *)
(* whoever removes or renames a file moves the descriptors of all that     *)
(* have it open (Moved).  Only whole files load, so an account is given    *)
(* input that was confirmed, and the store implements OneTimeCalculation.  *)
(***************************************************************************)
EXTENDS Workspace, TLAPS

Purging == {"list", "unlink", "rmdir"}

(* A calculation that was created, in the file store d.                     *)
Used(s, d) == s \in Sessions /\ d[s].status \in {"open", "gone"}
Gone(s, d) == s \in Sessions /\ d[s].status = "gone"

(* What a request knows at each of its steps; "then" is where a purge goes. *)
Knows(r, d) ==
    /\ r.at = "sweep" => r.kind \in {"sweep", "start"}
    /\ r.at = "create" => r.kind = "start"
    /\ r.at = "load" => r.kind \in {"review", "results", "save", "view", "discard", "complete"}
    /\ r.at \in {"load", "save"} => Used(r.s, d)
    /\ r.at \in Purging =>
        /\ r.then \in {"sweep", "create", "answer", "end"}
        /\ r.then = "sweep" => r.kind \in {"sweep", "start"}
        /\ r.then = "create" => r.kind = "start"
        /\ r.then = "answer" => r.victim = r.s /\ Used(r.s, d)
    /\ r.at = "answer" => r.kind = "start" \/ Gone(r.s, d)

Functions == disk = [s \in Sessions |-> disk[s]] /\ req = [p \in Workers |-> req[p]]

ErasureInv ==
    /\ Functions
    /\ \A p \in Workers : req[p] # None => Knows(req[p], disk)

(* No step creates a calculation twice or brings one back.                  *)
Lasting(d, e) ==
    \A s \in Sessions : /\ d[s].status \in {"open", "gone"} => e[s].status \in {"open", "gone"}
                        /\ d[s].status = "gone" => e[s].status = "gone"

-----------------------------------------------------------------------------
LEMMA KnowsLasts ==
    ASSUME NEW r, NEW d, NEW e, Knows(r, d), Lasting(d, e)
    PROVE  Knows(r, e)
  BY DEF Knows, Lasting, Used, Gone

(* One request goes on or ends, the others only come to know of a new name  *)
(* of the file they write.                                                  *)
LEMMA Turn ==
    ASSUME ErasureInv, NEW p \in Workers, NEW r, Go(p, r),
           disk' = [s \in Sessions |-> disk'[s]], Lasting(disk, disk'),
           r.at # "end" => Knows(r, disk')
    PROVE  ErasureInv'
<1>1. Functions'
  BY DEF ErasureInv, Functions, Go
<1>2. ASSUME NEW q \in Workers, req'[q] # None
      PROVE  Knows(req'[q], disk')
  <2>1. CASE q = p
    BY <1>2, <2>1 DEF ErasureInv, Functions, Go
  <2>2. CASE q # p
    <3>1. req'[q] = req[q]
      BY <2>2 DEF ErasureInv, Functions, Go
    <3> QED
      BY <1>2, <3>1, KnowsLasts DEF ErasureInv
  <2> QED
    BY <2>1, <2>2
<1> QED
  BY <1>1, <1>2 DEF ErasureInv

LEMMA Ending ==
    ASSUME ErasureInv, NEW p \in Workers, End(p),
           disk' = [s \in Sessions |-> disk'[s]], Lasting(disk, disk')
    PROVE  ErasureInv'
<1>1. Functions'
  BY DEF ErasureInv, Functions, End
<1>2. ASSUME NEW q \in Workers, req'[q] # None
      PROVE  Knows(req'[q], disk')
  <2>1. q # p /\ req'[q] = req[q]
    BY <1>2 DEF ErasureInv, Functions, End
  <2> QED
    BY <1>2, <2>1, KnowsLasts DEF ErasureInv
<1> QED
  BY <1>1, <1>2 DEF ErasureInv

LEMMA MovedKnows ==
    ASSUME NEW r, NEW d, NEW fd, Knows(r, d)
    PROVE  Knows([r EXCEPT !.fd = fd], d)
  BY DEF Knows

LEMMA Moving ==
    ASSUME ErasureInv, NEW p \in Workers, NEW s, NEW r, NEW renamed,
           req' = Moved(p, s, r, renamed),
           disk' = [t \in Sessions |-> disk'[t]], Lasting(disk, disk'),
           r.at # "end" => Knows(r, disk')
    PROVE  ErasureInv'
<1>1. Functions'
  BY DEF ErasureInv, Functions, Moved
<1>2. ASSUME NEW q \in Workers, req'[q] # None
      PROVE  Knows(req'[q], disk')
  <2>1. CASE q = p
    BY <1>2, <2>1 DEF Moved
  <2>2. CASE q # p
    <3>1. req'[q] = IF req[q] # None /\ req[q].s = s /\ req[q].fd \in DOMAIN renamed
                    THEN [req[q] EXCEPT !.fd = renamed[@]] ELSE req[q]
      BY <2>2 DEF Moved
    <3>2. req[q] # None
      BY <1>2, <3>1
    <3>3. Knows(req[q], disk')
      BY <3>2, KnowsLasts DEF ErasureInv
    <3>4. CASE req[q] # None /\ req[q].s = s /\ req[q].fd \in DOMAIN renamed
      <4>1. req'[q] = [req[q] EXCEPT !.fd = renamed[req[q].fd]]
        BY <3>1, <3>4
      <4> QED
        BY <3>3, <4>1, MovedKnows
    <3> QED
      BY <3>1, <3>3, <3>4
  <2> QED
    BY <2>1, <2>2
<1> QED
  BY <1>1, <1>2 DEF ErasureInv

LEMMA SameDisk ==
    ASSUME ErasureInv, UNCHANGED disk
    PROVE  disk' = [s \in Sessions |-> disk'[s]] /\ Lasting(disk, disk')
  BY DEF ErasureInv, Functions, Lasting

(* A step on the files of one calculation.                                  *)
LEMMA OneDirectory ==
    ASSUME ErasureInv, NEW v, NEW d, disk' = [disk EXCEPT ![v] = d],
           v \in Sessions /\ disk[v].status = "open" => d.status \in {"open", "gone"},
           v \in Sessions /\ disk[v].status = "gone" => d.status = "gone"
    PROVE  disk' = [s \in Sessions |-> disk'[s]] /\ Lasting(disk, disk')
  BY DEF ErasureInv, Functions, Lasting

-----------------------------------------------------------------------------
(* The forms of the browser and the clean-up loop.                          *)
LEMMA BeginKeeps ==
    ASSUME ErasureInv, NEW p \in Workers, NEW request, Begin(p, request), Knows(request, disk)
    PROVE  ErasureInv'
<1>1. Go(p, request) /\ UNCHANGED disk
  BY DEF Begin
<1> QED
  BY <1>1, SameDisk, Turn

LEMMA FormsKeep ==
    ASSUME ErasureInv, NEW p \in Workers,
           BeginSweep(p) \/ StartCalculation(p) \/ Review(p) \/ Discard(p)
             \/ ViewTargets(p) \/ Results(p) \/ SaveForm(p) \/ Complete(p)
    PROVE  ErasureInv'
<1>1. ASSUME BeginSweep(p) PROVE ErasureInv'
  <2> DEFINE r == [NewRequest("sweep", None, "sweep") EXCEPT !.todo = OpenSessions]
  <2>1. Go(p, r) /\ UNCHANGED disk
    BY <1>1 DEF BeginSweep
  <2>2. Knows(r, disk')
    BY DEF Knows, NewRequest, Purging
  <2> HIDE DEF r
  <2> QED
    BY <2>1, <2>2, SameDisk, Turn
<1>2. ASSUME StartCalculation(p) PROVE ErasureInv'
  <2> DEFINE r == [NewRequest("start", cookie, "sweep") EXCEPT !.todo = OpenSessions]
  <2>1. Begin(p, r)
    BY <1>2 DEF StartCalculation
  <2>2. Knows(r, disk)
    BY DEF Knows, NewRequest, Purging
  <2> HIDE DEF r
  <2> QED
    BY <2>1, <2>2, BeginKeeps
<1>3. ASSUME NEW kind \in {"review", "results", "save", "view", "discard", "complete"},
             NEW s \in OpenSessions, Begin(p, NewRequest(kind, s, "load"))
      PROVE  ErasureInv'
  <2>1. Knows(NewRequest(kind, s, "load"), disk)
    BY DEF Knows, NewRequest, Purging, OpenSessions, Used
  <2> QED
    BY <1>3, <2>1, BeginKeeps
<1>4. CASE Review(p) \/ Discard(p)
  BY <1>3, <1>4 DEF Review, Discard
<1>5. CASE ViewTargets(p) \/ Results(p) \/ SaveForm(p) \/ Complete(p)
  BY <1>3, <1>5 DEF ViewTargets, Results, SaveForm, Complete, Calculation
<1> QED
  BY <1>1, <1>2, <1>4, <1>5

(* purge_expired_sessions passes a calculation on to its removal, or the    *)
(* request on to the new calculation.                                       *)
LEMMA SweepKeeps ==
    ASSUME ErasureInv, NEW p \in Workers, Sweep(p)
    PROVE  ErasureInv'
<1> DEFINE r == req[p]
           old == PurgeOf([r EXCEPT !.s = None], r.s, "create")
<1>1. r.at = "sweep" /\ r.kind \in {"sweep", "start"} /\ UNCHANGED disk
  BY DEF Sweep, At, ErasureInv, Knows
<1>2. ASSUME NEW next, Go(p, next), next.at # "end" => Knows(next, disk)
      PROVE  ErasureInv'
  BY <1>1, <1>2, SameDisk, Turn
<1>3. CASE r.todo = {}
  <2>1. CASE r.kind = "sweep"
    <3>1. Go(p, [r EXCEPT !.at = "end"])
      BY <1>3, <2>1 DEF Sweep
    <3>2. [r EXCEPT !.at = "end"].at = "end"
      OBVIOUS
    <3> QED
      BY <1>2, <3>1, <3>2
  <2>2. CASE r.kind = "start" /\ r.s = None
    <3>1. Go(p, [r EXCEPT !.at = "create"])
      BY <1>3, <2>2 DEF Sweep
    <3>2. Knows([r EXCEPT !.at = "create"], disk)
      BY <2>2 DEF Knows, Purging
    <3> QED
      BY <1>2, <3>1, <3>2
  <2>3. CASE r.kind = "start" /\ r.s # None
    <3>1. Go(p, old)
      BY <1>3, <2>3 DEF Sweep
    <3>2. Knows(old, disk)
      BY <2>3 DEF Knows, Purging, PurgeOf
    <3> HIDE DEF old
    <3> QED
      BY <1>2, <3>1, <3>2
  <2> QED
    BY <1>1, <2>1, <2>2, <2>3
<1>4. CASE r.todo # {}
  <2>1. PICK s \in r.todo :
          Go(p, IF disk[s].status = "open" /\ Expired(disk[s])
                THEN PurgeOf([r EXCEPT !.todo = @ \ {s}], s, "sweep") ELSE [r EXCEPT !.todo = @ \ {s}])
    BY <1>4 DEF Sweep
  <2>2. Knows(PurgeOf([r EXCEPT !.todo = @ \ {s}], s, "sweep"), disk)
    BY <1>1 DEF Knows, Purging, PurgeOf
  <2>3. Knows([r EXCEPT !.todo = @ \ {s}], disk)
    BY <1>1 DEF Knows, Purging
  <2> QED
    BY <1>2, <2>1, <2>2, <2>3
<1> QED
  BY <1>3, <1>4

-----------------------------------------------------------------------------
(* A purge that goes on at "answer" has verified that the directory went.   *)
LEMMA PurgedKnows ==
    ASSUME NEW r, NEW d, Knows(r, d), r.at \in Purging,
           r.then = "answer" => Gone(r.victim, d)
    PROVE  Purged(r).at # "end" => Knows(Purged(r), d)
  BY DEF Knows, Purged, Purging

LEMMA ListKeeps ==
    ASSUME ErasureInv, NEW p \in Workers, List(p)
    PROVE  ErasureInv'
<1> DEFINE r == req[p]
           next == [r EXCEPT !.at = "unlink", !.seen = Present(disk[r.victim])]
<1>1. r.at = "list" /\ Knows(r, disk) /\ UNCHANGED disk
  BY DEF List, At, ErasureInv
<1>2. CASE disk[r.victim].status = "open"
  <2>1. Go(p, next)
    BY <1>2 DEF List
  <2>2. Knows(next, disk)
    BY <1>1 DEF Knows, Purging
  <2> HIDE DEF next
  <2> QED
    BY <1>1, <2>1, <2>2, SameDisk, Turn
<1>3. CASE disk[r.victim].status # "open"
  <2>1. Go(p, Purged(r))
    BY <1>3 DEF List
  <2>2. r.then = "answer" => Gone(r.victim, disk)
    BY <1>1, <1>3 DEF Knows, Purging, Used, Gone
  <2>3. Purged(r).at # "end" => Knows(Purged(r), disk)
    BY <1>1, <2>2, PurgedKnows DEF Purging
  <2> QED
    BY <1>1, <2>1, <2>3, SameDisk, Turn
<1> QED
  BY <1>2, <1>3

LEMMA UnlinkKeeps ==
    ASSUME ErasureInv, NEW p \in Workers, Unlink(p)
    PROVE  ErasureInv'
<1> DEFINE r == req[p]
           v == r.victim
           complete == disk[v].status = "open" /\ r.seen \subseteq Present(disk[v])
           next == [r EXCEPT !.at = IF complete THEN "rmdir" ELSE "end", !.seen = @ \cap {"derived"}]
<1>1. r.at = "unlink" /\ Knows(r, disk)
  BY DEF Unlink, At, ErasureInv
<1>2. PICK names : /\ disk' = [disk EXCEPT ![v] = Without(@, names)]
                   /\ req' = Moved(p, v, next, [n \in names \cap {"tmp", "live"} |-> "lost"])
  BY DEF Unlink
<1>3. Without(disk[v], names).status = disk[v].status
  BY DEF Without
<1> DEFINE d == Without(disk[v], names)
<1>4. disk' = [disk EXCEPT ![v] = d]
  BY <1>2
<1>5. disk' = [s \in Sessions |-> disk'[s]] /\ Lasting(disk, disk')
  <2> HIDE DEF d, v
  <2> QED
    BY <1>3, <1>4, OneDirectory DEF d
<1>6. next.at # "end" => Knows(next, disk)
  BY <1>1 DEF Knows, Purging
<1>7. next.at # "end" => Knows(next, disk')
  <2> HIDE DEF next
  <2> QED
    BY <1>5, <1>6, KnowsLasts
<1> HIDE DEF next, v
<1> QED
  BY <1>2, <1>5, <1>7, Moving

LEMMA RemoveKeeps ==
    ASSUME ErasureInv, NEW p \in Workers, RemoveSession(p)
    PROVE  ErasureInv'
<1> DEFINE r == req[p]
           v == r.victim
<1>1. r.at = "rmdir" /\ Knows(r, disk)
  BY DEF RemoveSession, At, ErasureInv
<1>2. CASE Removable(p, disk[v])
  <2>1. disk' = [disk EXCEPT ![v] = GoneDir] /\ Go(p, Purged(r))
    BY <1>2 DEF RemoveSession
  <2>2. GoneDir.status = "gone"
    BY DEF GoneDir, Unused
  <2>3. disk' = [s \in Sessions |-> disk'[s]] /\ Lasting(disk, disk')
    BY <2>1, <2>2, OneDirectory
  <2>4. r.then = "answer" => Gone(v, disk')
    <3>1. r.then = "answer" => v \in Sessions
      BY <1>1 DEF Knows, Purging, Used
    <3> QED
      BY <2>1, <2>2, <3>1 DEF Gone, ErasureInv, Functions
  <2>5. Knows(r, disk')
    BY <1>1, <2>3, KnowsLasts
  <2>6. Purged(r).at # "end" => Knows(Purged(r), disk')
    BY <1>1, <2>4, <2>5, PurgedKnows DEF Purging
  <2> QED
    BY <2>1, <2>3, <2>6, Turn
<1>3. CASE ~Removable(p, disk[v])
  BY <1>3, SameDisk, Ending DEF RemoveSession
<1> QED
  BY <1>2, <1>3

-----------------------------------------------------------------------------
(* The steps between a form and its answer.                                 *)

LEMMA CreateKeeps ==
    ASSUME ErasureInv, NEW p \in Workers, Create(p)
    PROVE  ErasureInv'
<1> DEFINE r == req[p]
<1>1. r.at = "create" /\ r.kind = "start"
  BY DEF Create, At, ErasureInv, Knows
<1>2. CASE End(p) /\ UNCHANGED disk
  BY <1>2, SameDisk, Ending
<1>3. ASSUME NEW s \in Sessions, NEW d, disk[s].status = "unused", disk' = [disk EXCEPT ![s] = d]
      PROVE  disk' = [t \in Sessions |-> disk'[t]] /\ Lasting(disk, disk')
  BY <1>3, OneDirectory
<1>4. ASSUME NEW s \in Sessions, disk[s].status = "unused",
             disk' = [disk EXCEPT ![s] = [NewDirectory EXCEPT !.derived = TRUE, !.review = 0]],
             Go(p, [r EXCEPT !.at = "answer", !.s = s])
      PROVE  ErasureInv'
  <2>1. Knows([r EXCEPT !.at = "answer", !.s = s], disk')
    BY <1>1 DEF Knows, Purging
  <2> QED
    BY <1>3, <1>4, <2>1, Turn
<1>5. ASSUME NEW s \in Sessions, disk[s].status = "unused",
             disk' = [disk EXCEPT ![s] = NewDirectory], End(p)
      PROVE  ErasureInv'
  BY <1>3, <1>5, Ending
<1> QED
  BY <1>2, <1>4, <1>5 DEF Create

(* A request that goes on with its own calculation, or removes it.          *)
LEMMA PurgeOfKnows ==
    ASSUME NEW r, NEW d, NEW then \in {"answer", "end"}, then = "answer" => Used(r.s, d)
    PROVE  Knows(PurgeOf(r, r.s, then), d)
  BY DEF Knows, PurgeOf, Purging

LEMMA LoadedKeeps ==
    ASSUME ErasureInv, NEW p \in Workers, NEW r, Used(r.s, disk), UNCHANGED disk, Loaded(p, r),
           r.kind \in {"review", "results", "save", "view", "discard", "complete"}
    PROVE  ErasureInv'
<1>1. ASSUME NEW next, Go(p, next), Knows(next, disk) PROVE ErasureInv'
  BY <1>1, SameDisk, Turn
<1>2. CASE r.kind = "review"
  <2>1. PICK i \in Inputs : Go(p, [r EXCEPT !.at = "open",
                                            !.state = [rows |-> i, result |-> None, age |-> 0, mtime |-> 0]])
    BY <1>2 DEF Loaded
  <2>2. Knows([r EXCEPT !.at = "open",
                        !.state = [rows |-> i, result |-> None, age |-> 0, mtime |-> 0]], disk)
    BY DEF Knows, Purging
  <2> QED
    BY <1>1, <2>1, <2>2
<1>3. CASE r.kind = "results"
  <2>1. Go(p, [r EXCEPT !.at = "attach", !.input = r.state.rows, !.state = None])
    BY <1>3 DEF Loaded
  <2>2. Knows([r EXCEPT !.at = "attach", !.input = r.state.rows, !.state = None], disk)
    BY DEF Knows, Purging
  <2> QED
    BY <1>1, <2>1, <2>2
<1>4. CASE r.kind = "save"
  <2>1. Go(p, [r EXCEPT !.at = "save"])
    BY <1>4 DEF Loaded
  <2>2. Knows([r EXCEPT !.at = "save"], disk)
    BY DEF Knows, Purging
  <2> QED
    BY <1>1, <2>1, <2>2
<1>5. CASE r.kind = "view"
  BY <1>5, SameDisk, Ending DEF Loaded
<1>6. CASE r.kind \in {"discard", "complete"}
  <2>1. Go(p, PurgeOf(r, r.s, "answer"))
    BY <1>6 DEF Loaded
  <2> QED
    BY <1>1, <2>1, PurgeOfKnows
<1> QED
  BY <1>2, <1>3, <1>4, <1>5, <1>6

LEMMA LoadKeeps ==
    ASSUME ErasureInv, NEW p \in Workers, Load(p)
    PROVE  ErasureInv'
<1> DEFINE r == req[p]
           d == disk[r.s]
           read == [r EXCEPT !.state = [d.live EXCEPT !.mtime = 0]]
<1>1. r.at = "load" /\ Knows(r, disk) /\ Used(r.s, disk) /\ UNCHANGED disk
  BY DEF Load, At, ErasureInv, Knows
<1>2. r.kind \in {"review", "results", "save", "view", "discard", "complete"}
  BY <1>1 DEF Knows
<1>3. ASSUME Go(p, PurgeOf(r, r.s, "end")) PROVE ErasureInv'
  <2>1. Knows(PurgeOf(r, r.s, "end"), disk)
    BY PurgeOfKnows
  <2> QED
    BY <1>1, <1>3, <2>1, SameDisk, Turn
<1>4. ASSUME End(p) PROVE ErasureInv'
  BY <1>1, <1>4, SameDisk, Ending
<1>5. ASSUME Loaded(p, r) PROVE ErasureInv'
  BY <1>1, <1>2, <1>5, LoadedKeeps
<1>6. ASSUME Loaded(p, read) PROVE ErasureInv'
  <2>1. read.s = r.s /\ read.kind = r.kind
    OBVIOUS
  <2> HIDE DEF read
  <2> QED
    BY <1>1, <1>2, <1>6, <2>1, LoadedKeeps
<1>7. CASE r.kind \in {"review", "discard"}
  <2>1. CASE d.review # None /\ d.review # TTL
    BY <1>5, <1>7, <2>1 DEF Load
  <2>2. CASE d.review = None \/ d.review = TTL
    BY <1>3, <1>4, <1>7, <2>2 DEF Load
  <2> QED
    BY <2>1, <2>2
<1>8. CASE r.kind \notin {"review", "discard"}
  <2>1. CASE ~Readable(d)
    BY <1>4, <1>8, <2>1 DEF Load
  <2>2. CASE Readable(d) /\ d.live.age = TTL
    BY <1>3, <1>8, <2>2 DEF Load
  <2>3. CASE Readable(d) /\ d.live.age # TTL
    BY <1>6, <1>8, <2>3 DEF Load
  <2> QED
    BY <2>1, <2>2, <2>3
<1> QED
  BY <1>7, <1>8

LEMMA AttachKeeps ==
    ASSUME ErasureInv, NEW p \in Workers, Attach(p)
    PROVE  ErasureInv'
<1> DEFINE r == req[p]
           d == disk[r.s]
           next == [r EXCEPT !.at = "open", !.input = None,
                             !.state = [d.live EXCEPT !.result = r.input, !.mtime = 0]]
<1>1. UNCHANGED disk
  BY DEF Attach
<1>2. CASE ~Readable(d)
  BY <1>1, <1>2, SameDisk, Ending DEF Attach
<1>3. CASE Readable(d) /\ d.live.age = TTL
  <2>1. Go(p, PurgeOf(r, r.s, "end"))
    BY <1>3 DEF Attach
  <2>2. Knows(PurgeOf(r, r.s, "end"), disk)
    BY PurgeOfKnows
  <2> QED
    BY <1>1, <2>1, <2>2, SameDisk, Turn
<1>4. CASE Readable(d) /\ d.live.age # TTL
  <2>1. Go(p, next)
    BY <1>4 DEF Attach
  <2>2. Knows(next, disk)
    BY DEF Knows, Purging
  <2> HIDE DEF next
  <2> QED
    BY <1>1, <2>1, <2>2, SameDisk, Turn
<1> QED
  BY <1>2, <1>3, <1>4

(* Writers change files, never the status of a directory.                   *)
LEMMA WriterKeeps ==
    ASSUME ErasureInv, NEW p \in Workers,
           OpenTemporary(p) \/ Write(p) \/ Replace(p) \/ CleanUp(p)
    PROVE  ErasureInv'
<1> DEFINE r == req[p]
           s == r.s
<1>1. ASSUME NEW next, Go(p, next), next.at \in {"write", "replace", "cleanup"},
             UNCHANGED disk \/ \E d : d.status = disk[s].status /\ disk' = [disk EXCEPT ![s] = d]
      PROVE  ErasureInv'
  <2>1. Knows(next, disk')
    BY <1>1 DEF Knows, Purging
  <2>2. disk' = [t \in Sessions |-> disk'[t]] /\ Lasting(disk, disk')
    BY <1>1, SameDisk, OneDirectory
  <2> QED
    BY <1>1, <2>1, <2>2, Turn
<1>2. ASSUME NEW next, NEW renamed, NEW d, req' = Moved(p, s, next, renamed),
             next.at \in {"cleanup", "end"}, d.status = disk[s].status, disk' = [disk EXCEPT ![s] = d]
      PROVE  ErasureInv'
  <2>1. next.at # "end" => Knows(next, disk')
    BY <1>2 DEF Knows, Purging
  <2>2. disk' = [t \in Sessions |-> disk'[t]] /\ Lasting(disk, disk')
    BY <1>2, OneDirectory
  <2> QED
    BY <1>2, <2>1, <2>2, Moving
<1>3. CASE OpenTemporary(p)
  <2>1. CASE disk[s].status = "open"
    <3> DEFINE d == [disk[s] EXCEPT !.derived = TRUE, !.tmp = Empty,
                                    !.mtime = IF disk[s].derived THEN @ ELSE 0]
    <3>1. disk' = [disk EXCEPT ![s] = d] /\ Go(p, [r EXCEPT !.at = "write", !.fd = "tmp"])
      BY <1>3, <2>1 DEF OpenTemporary
    <3>2. d.status = disk[s].status /\ [r EXCEPT !.at = "write", !.fd = "tmp"].at = "write"
      OBVIOUS
    <3> HIDE DEF d
    <3> QED
      BY <1>1, <3>1, <3>2
  <2>2. CASE disk[s].status # "open"
    BY <1>3, <2>2, SameDisk, Ending DEF OpenTemporary
  <2> QED
    BY <2>1, <2>2
<1>4. CASE Write(p)
  <2> DEFINE next == [r EXCEPT !.at = "replace", !.fd = "none", !.state = None]
  <2>1. Go(p, next) /\ next.at = "replace"
    BY <1>4 DEF Write
  <2>2. ASSUME NEW f, disk' = [disk EXCEPT ![s].tmp = f] \/ disk' = [disk EXCEPT ![s].live = f]
        PROVE  \E d : d.status = disk[s].status /\ disk' = [disk EXCEPT ![s] = d]
    <3>1. [disk[s] EXCEPT !.tmp = f].status = disk[s].status
      OBVIOUS
    <3>2. [disk[s] EXCEPT !.live = f].status = disk[s].status
      OBVIOUS
    <3> QED
      BY <2>2, <3>1, <3>2
  <2>3. CASE r.fd = "tmp"
    BY <1>1, <1>4, <2>1, <2>2, <2>3 DEF Write
  <2>4. CASE r.fd = "live"
    BY <1>1, <1>4, <2>1, <2>2, <2>4 DEF Write
  <2>5. CASE r.fd \notin {"tmp", "live"}
    <3>1. UNCHANGED disk
      BY <1>4, <2>5 DEF Write
    <3> QED
      BY <1>1, <2>1, <3>1
  <2> QED
    BY <2>3, <2>4, <2>5
<1>5. CASE Replace(p)
  <2>1. CASE disk[s].tmp # None
    <3> DEFINE d == [disk[s] EXCEPT !.live = disk[s].tmp, !.tmp = None]
               next == [r EXCEPT !.at = "cleanup"]
    <3>1. disk' = [disk EXCEPT ![s] = d]
      BY <1>5, <2>1 DEF Replace
    <3>2. req' = Moved(p, s, next, [n \in {"tmp", "live"} |-> IF n = "tmp" THEN "live" ELSE "lost"])
      BY <1>5, <2>1 DEF Replace
    <3>3. d.status = disk[s].status /\ next.at = "cleanup"
      OBVIOUS
    <3> HIDE DEF d, next
    <3> QED
      BY <1>2, <3>1, <3>2, <3>3
  <2>2. CASE disk[s].tmp = None
    <3> DEFINE next == [r EXCEPT !.at = "cleanup", !.failed = TRUE]
    <3>1. Go(p, next) /\ UNCHANGED disk /\ next.at = "cleanup"
      BY <1>5, <2>2 DEF Replace
    <3> HIDE DEF next
    <3> QED
      BY <1>1, <3>1
  <2> QED
    BY <2>1, <2>2
<1>6. CASE CleanUp(p)
  <2> DEFINE rest == [disk[s] EXCEPT !.tmp = None]
             d == IF r.failed \/ r.kind # "review" THEN rest ELSE PurgeOriginals(rest)
             next == [r EXCEPT !.at = "end"]
  <2>1. disk' = [disk EXCEPT ![s] = d] /\ req' = Moved(p, s, next, [n \in {"tmp"} |-> "lost"])
    BY <1>6 DEF CleanUp
  <2>2. d.status = disk[s].status
    BY DEF PurgeOriginals
  <2>3. next.at = "end"
    OBVIOUS
  <2> HIDE DEF d, next
  <2> QED
    BY <1>2, <2>1, <2>2, <2>3
<1> QED
  BY <1>3, <1>4, <1>5, <1>6

LEMMA SaveKeeps ==
    ASSUME ErasureInv, NEW p \in Workers, Save(p)
    PROVE  ErasureInv'
<1> DEFINE r == req[p]
<1>1. Used(r.s, disk) /\ UNCHANGED disk
  BY DEF Save, At, ErasureInv, Knows
<1>2. CASE Keepable(r)
  <2>1. Go(p, PurgeOf(r, r.s, "answer"))
    BY <1>2 DEF Save
  <2>2. Knows(PurgeOf(r, r.s, "answer"), disk)
    BY <1>1, PurgeOfKnows
  <2> QED
    BY <1>1, <2>1, <2>2, SameDisk, Turn
<1>3. CASE ~Keepable(r)
  BY <1>1, <1>3, SameDisk, Ending DEF Save
<1> QED
  BY <1>2, <1>3

LEMMA TickKeeps ==
    ASSUME ErasureInv, Tick
    PROVE  ErasureInv'
<1>1. Functions'
  BY DEF Tick, Functions
<1>2. ASSUME NEW s \in Sessions PROVE disk'[s].status = disk[s].status
  <2>1. CASE disk[s].status = "open"
    <3>1. disk'[s] = [disk[s] EXCEPT !.mtime = Older(@), !.review = Older(@),
                                     !.tmp = OlderFile(@), !.live = OlderFile(@)]
      BY <2>1 DEF Tick
    <3> QED
      BY <3>1
  <2>2. CASE disk[s].status # "open"
    BY <2>2 DEF Tick
  <2> QED
    BY <2>1, <2>2
<1>3. ASSUME NEW q \in Workers, req'[q] # None
      PROVE  Knows(req'[q], disk')
  <2> DEFINE state == OlderState(req[q].state)
  <2>1. req[q] # None /\ req'[q] = [req[q] EXCEPT !.state = state]
    <3>1. req'[q] = IF req[q] = None THEN None ELSE [req[q] EXCEPT !.state = OlderState(@)]
      BY DEF Tick
    <3> QED
      BY <1>3, <3>1
  <2>2. Lasting(disk, disk')
    BY <1>2 DEF Lasting
  <2>3. Knows(req[q], disk')
    BY <2>1, <2>2, KnowsLasts DEF ErasureInv
  <2> HIDE DEF state
  <2>4. Knows([req[q] EXCEPT !.state = state], disk')
    BY <2>3 DEF Knows
  <2> QED
    BY <2>1, <2>4
<1> QED
  BY <1>1, <1>3 DEF ErasureInv

-----------------------------------------------------------------------------
LEMMA ErasureStep ==
    ASSUME ErasureInv, [Next]_vars
    PROVE  ErasureInv'
<1>1. CASE Tick
  BY <1>1, TickKeeps
<1>2. ASSUME NEW p \in Workers,
             BeginSweep(p) \/ StartCalculation(p) \/ Review(p) \/ Discard(p)
               \/ ViewTargets(p) \/ Results(p) \/ SaveForm(p) \/ Complete(p)
      PROVE  ErasureInv'
  BY <1>2, FormsKeep
<1>3. ASSUME NEW p \in Workers, Step(p) PROVE ErasureInv'
  <2>1. CASE Sweep(p)
    BY <2>1, SweepKeeps
  <2>2. CASE List(p)
    BY <2>2, ListKeeps
  <2>3. CASE Unlink(p)
    BY <2>3, UnlinkKeeps
  <2>4. CASE RemoveSession(p)
    BY <2>4, RemoveKeeps
  <2>5. CASE Create(p)
    BY <2>5, CreateKeeps
  <2>6. CASE Load(p)
    BY <2>6, LoadKeeps
  <2>7. CASE Attach(p)
    BY <2>7, AttachKeeps
  <2>8. CASE OpenTemporary(p) \/ Write(p) \/ Replace(p) \/ CleanUp(p)
    BY <2>8, WriterKeeps
  <2>9. CASE Save(p)
    BY <2>9, SaveKeeps
  <2>10. CASE Answer(p)
    BY <2>10, SameDisk, Ending DEF Answer
  <2> QED
    BY <1>3, <2>1, <2>2, <2>3, <2>4, <2>5, <2>6, <2>7, <2>8, <2>9, <2>10 DEF Step
<1>4. ASSUME NEW p \in Workers, Crash(p) PROVE ErasureInv'
  BY <1>4, SameDisk, Ending DEF Crash
<1>5. CASE UNCHANGED vars
  <2>1. UNCHANGED <<disk, req>>
    BY <1>5 DEF vars
  <2> QED
    BY <2>1 DEF ErasureInv, Functions
<1> QED
  BY <1>1, <1>2, <1>3, <1>4, <1>5 DEF Next

(* complete_public_calculation, discard_review and save_public_calculation  *)
(* answer only when the directory is gone, although other requests and the  *)
(* clean-up may have been writing and deleting its files.                   *)
THEOREM ErasedWhenAnswered == Spec => []AnsweredMeansErased
<1>1. Init => ErasureInv
  BY DEF Init, ErasureInv, Functions
<1>2. ErasureInv /\ [Next]_vars => ErasureInv'
  BY ErasureStep
<1>3. ErasureInv => AnsweredMeansErased
  BY DEF ErasureInv, AnsweredMeansErased, At, Knows, Gone, Workers
<1> QED
  BY <1>1, <1>2, <1>3, PTL DEF Spec

-----------------------------------------------------------------------------
(* What the files and the requests hold.  A writer that has a file open     *)
(* under a name finds a file of that name: whoever removes or renames it    *)
(* says so to those who have it open (Moved).                               *)
Here(d, fd) == (fd = "tmp" => d.tmp # None) /\ (fd = "live" => d.live # None)

Closed(d) == d.status # "open" => d \in {Unused, GoneDir}

Holds(r, d) ==
    /\ r \in Request
    /\ r.at \in Purging => r.victim \in Sessions
    /\ r.at \in {"attach", "open", "write", "replace", "cleanup"} => r.s \in Sessions
    /\ r.at \in {"open", "write", "save"} => r.state \in StateFile /\ r.state.rows \in Inputs
    /\ r.at = "attach" => r.input \in Inputs
    /\ r.at = "write" => Here(d[r.s], r.fd)

FilesInv ==
    /\ TypeOK
    /\ \A p \in Workers : req[p] # None => Holds(req[p], disk)

WorkspaceInv == ErasureInv /\ FilesInv

(* No file that somebody may have open goes away.                           *)
FilesLast(d, e) == \A s \in Sessions : \A fd \in {"none", "tmp", "live", "lost"} : Here(d[s], fd) => Here(e[s], fd)

DiskOK(d) == d \in [Sessions -> Directory] /\ \A s \in Sessions : Closed(d[s])
RestOK == cookie \in Sessions \cup {None} /\ saved \in Seq([calc : Sessions, rows : Inputs, result : Inputs])

LEMMA FilesApart ==
    ASSUME FilesInv
    PROVE  /\ DiskOK(disk) /\ RestOK
           /\ req \in [Workers -> Request \cup {None}]
           /\ \A p \in Workers : req[p] # None => Holds(req[p], disk)
  BY DEF FilesInv, TypeOK, DiskOK, RestOK, Closed

LEMMA FilesAssembled ==
    ASSUME DiskOK(disk'), RestOK', req' = [p \in Workers |-> req'[p]],
           \A p \in Workers : req'[p] = None \/ Holds(req'[p], disk')
    PROVE  FilesInv'
<1>1. req' \in [Workers -> Request \cup {None}]
  BY DEF Holds
<1> QED
  BY <1>1 DEF FilesInv, TypeOK, DiskOK, RestOK, Closed

LEMMA HoldsLasts ==
    ASSUME NEW r, NEW d, NEW e, Holds(r, d), FilesLast(d, e)
    PROVE  Holds(r, e)
<1>1. CASE r.at = "write"
  <2>1. r.s \in Sessions /\ r.fd \in {"none", "tmp", "live", "lost"} /\ Here(d[r.s], r.fd)
    BY <1>1 DEF Holds, Request
  <2>2. Here(e[r.s], r.fd)
    BY <2>1 DEF FilesLast
  <2> QED
    BY <2>2 DEF Holds
<1>2. CASE r.at # "write"
  BY <1>2 DEF Holds
<1> QED
  BY <1>1, <1>2

(* One request goes on.                                                     *)
LEMMA TurnHolds ==
    ASSUME FilesInv, NEW p \in Workers, NEW r, Go(p, r), DiskOK(disk'), RestOK',
           FilesLast(disk, disk'), r.at # "end" => Holds(r, disk')
    PROVE  FilesInv'
<1>1. req' = [q \in Workers |-> req'[q]]
  BY FilesApart DEF Go
<1>2. ASSUME NEW q \in Workers PROVE req'[q] = None \/ Holds(req'[q], disk')
  <2>1. CASE q = p
    BY <2>1, FilesApart DEF Go
  <2>2. CASE q # p
    <3>1. req'[q] = req[q]
      BY <2>2, FilesApart DEF Go
    <3> QED
      BY <3>1, FilesApart, HoldsLasts
  <2> QED
    BY <2>1, <2>2
<1> QED
  BY <1>1, <1>2, FilesAssembled

LEMMA EndHolds ==
    ASSUME FilesInv, NEW p \in Workers, End(p), DiskOK(disk'), RestOK', FilesLast(disk, disk')
    PROVE  FilesInv'
<1>1. req' = [q \in Workers |-> req'[q]] /\ req'[p] = None
  BY FilesApart DEF End
<1>2. ASSUME NEW q \in Workers, q # p PROVE req'[q] = None \/ Holds(req'[q], disk')
  <2>1. req'[q] = req[q]
    BY <1>2, FilesApart DEF End
  <2> QED
    BY <2>1, FilesApart, HoldsLasts
<1> QED
  BY <1>1, <1>2, FilesAssembled

(* A request goes on after it has removed or renamed files of s.            *)
LEMMA MovingHolds ==
    ASSUME FilesInv, NEW p \in Workers, NEW s \in Sessions, NEW r, NEW renamed, NEW d \in Directory,
           req' = Moved(p, s, r, renamed), disk' = [disk EXCEPT ![s] = d], Closed(d), RestOK',
           r.at # "end" => Holds(r, disk'),
           DOMAIN renamed \subseteq {"tmp", "live"},
           \A n \in DOMAIN renamed : renamed[n] \in {"live", "lost"},
           \A n \in {"none", "tmp", "live", "lost"} :
               Here(disk[s], n) => Here(d, IF n \in DOMAIN renamed THEN renamed[n] ELSE n)
    PROVE  FilesInv'
<1>1. DiskOK(disk') /\ disk'[s] = d /\ \A t \in Sessions \ {s} : disk'[t] = disk[t]
  BY FilesApart DEF DiskOK
<1>2. req' = [q \in Workers |-> req'[q]]
  BY DEF Moved
<1>3. ASSUME NEW q \in Workers PROVE req'[q] = None \/ Holds(req'[q], disk')
  <2>1. CASE q = p
    BY <2>1 DEF Moved
  <2>2. CASE q # p /\ req[q] = None
    BY <2>2 DEF Moved
  <2>3. CASE q # p /\ req[q] # None
    <3>1. PICK o : o = req[q]
      OBVIOUS
    <3>2. o # None /\ Holds(o, disk) /\ o.fd \in {"none", "tmp", "live", "lost"} /\ o \in Request
      BY <2>3, <3>1, FilesApart DEF Holds, Request
    <3>3. CASE o.s = s /\ o.fd \in DOMAIN renamed
      <4> DEFINE m == [o EXCEPT !.fd = renamed[o.fd]]
      <4>1. req'[q] = m
        BY <2>3, <3>1, <3>2, <3>3 DEF Moved
      <4>2. /\ m \in Request /\ m.at = o.at /\ m.s = o.s /\ m.victim = o.victim /\ m.state = o.state
            /\ m.input = o.input /\ m.fd = renamed[o.fd]
        BY <3>2, <3>3 DEF Request
      <4> HIDE DEF m
      <4>3. o.at = "write" => Here(disk'[m.s], m.fd)
        <5> SUFFICES ASSUME o.at = "write" PROVE Here(d, renamed[o.fd])
          BY <1>1, <3>3, <4>2
        <5>1. Here(disk[s], o.fd)
          BY <3>2, <3>3 DEF Holds
        <5> QED
          BY <3>2, <3>3, <5>1
      <4> QED
        BY <3>2, <4>1, <4>2, <4>3 DEF Holds
    <3>4. CASE ~(o.s = s /\ o.fd \in DOMAIN renamed)
      <4>1. req'[q] = o
        BY <2>3, <3>1, <3>4 DEF Moved
      <4>2. o.at = "write" => Here(disk'[o.s], o.fd)
        <5> SUFFICES ASSUME o.at = "write" PROVE Here(disk'[o.s], o.fd)
          OBVIOUS
        <5>1. o.s \in Sessions /\ Here(disk[o.s], o.fd)
          BY <3>2 DEF Holds
        <5>2. CASE o.s = s
          BY <1>1, <3>2, <3>4, <5>1, <5>2
        <5>3. CASE o.s # s
          BY <1>1, <5>1, <5>3
        <5> QED
          BY <5>2, <5>3
      <4> QED
        BY <3>2, <4>1, <4>2 DEF Holds
    <3> QED
      BY <3>3, <3>4
  <2> QED
    BY <2>1, <2>2, <2>3
<1> QED
  BY <1>1, <1>2, <1>3, FilesAssembled

LEMMA SameFiles ==
    ASSUME FilesInv, UNCHANGED disk
    PROVE  DiskOK(disk') /\ FilesLast(disk, disk')
  BY FilesApart DEF DiskOK, FilesLast

LEMMA SameTables ==
    ASSUME FilesInv, UNCHANGED <<cookie, saved>>
    PROVE  RestOK'
  BY FilesApart DEF RestOK

LEMMA QuietHolds ==
    ASSUME FilesInv, NEW p \in Workers, UNCHANGED <<disk, cookie, saved>>, NEW r, Go(p, r),
           r.at # "end" => Holds(r, disk)
    PROVE  FilesInv'
<1>1. r.at # "end" => Holds(r, disk')
  OBVIOUS
<1> QED
  BY <1>1, SameFiles, SameTables, TurnHolds

LEMMA QuietEndHolds ==
    ASSUME FilesInv, NEW p \in Workers, UNCHANGED <<disk, cookie, saved>>, End(p)
    PROVE  FilesInv'
  BY SameFiles, SameTables, EndHolds

(* The files of one calculation change, and none that may be open goes.     *)
LEMMA OneHolds ==
    ASSUME FilesInv, NEW s \in Sessions, NEW d \in Directory, disk' = [disk EXCEPT ![s] = d], Closed(d),
           \A n \in {"none", "tmp", "live", "lost"} : Here(disk[s], n) => Here(d, n)
    PROVE  DiskOK(disk') /\ FilesLast(disk, disk')
  BY FilesApart DEF DiskOK, FilesLast

(* Requests as they begin, and as they turn to a purge or come from one.    *)
LEMMA NewHolds ==
    ASSUME NEW kind \in Kinds, NEW s \in Sessions \cup {None}, NEW step \in {"sweep", "load"},
           NEW todo \in SUBSET Sessions, NEW d
    PROVE  Holds([NewRequest(kind, s, step) EXCEPT !.todo = todo], d) /\ Holds(NewRequest(kind, s, step), d)
<1>1. NewRequest(kind, s, step) \in Request /\ NewRequest(kind, s, step).at = step
  BY DEF NewRequest, Request, Steps
<1> DEFINE r == [NewRequest(kind, s, step) EXCEPT !.todo = todo]
<1>2. r \in Request /\ r.at = step
  BY <1>1 DEF Request
<1> HIDE DEF r
<1> QED
  BY <1>1, <1>2 DEF Holds, Purging, r

LEMMA PurgeOfHolds ==
    ASSUME NEW r \in Request, NEW s \in Sessions, NEW then \in Steps, NEW d
    PROVE  Holds(PurgeOf(r, s, then), d)
<1> DEFINE next == PurgeOf(r, s, then)
<1>1. next \in Request /\ next.at = "list" /\ next.victim = s
  BY DEF PurgeOf, Request, Steps
<1> HIDE DEF next
<1> QED
  BY <1>1 DEF Holds, Purging, next

LEMMA PurgedHolds ==
    ASSUME NEW r, NEW d, NEW e, Holds(r, d), r.then \in {"sweep", "create", "answer", "end"}
    PROVE  Holds(Purged(r), e)
<1> DEFINE next == Purged(r)
<1>1. next \in Request /\ next.at \in {"sweep", "create", "answer", "end"}
  BY DEF Holds, Purged, Request, Steps
<1> HIDE DEF next
<1> QED
  BY <1>1 DEF Holds, Purging, next

-----------------------------------------------------------------------------
LEMMA FormsHold ==
    ASSUME FilesInv, NEW p \in Workers,
           BeginSweep(p) \/ StartCalculation(p) \/ Review(p) \/ Discard(p)
             \/ ViewTargets(p) \/ Results(p) \/ SaveForm(p) \/ Complete(p)
    PROVE  FilesInv'
<1>1. OpenSessions \in SUBSET Sessions /\ cookie \in Sessions \cup {None}
  BY FilesApart DEF OpenSessions, RestOK
<1>2. ASSUME NEW r, Go(p, r), UNCHANGED <<disk, cookie, saved>>, Holds(r, disk)
      PROVE  FilesInv'
  BY <1>2, QuietHolds
<1>3. CASE BeginSweep(p)
  <2>1. Holds([NewRequest("sweep", None, "sweep") EXCEPT !.todo = OpenSessions], disk)
    BY <1>1, NewHolds DEF Kinds
  <2> QED
    BY <1>2, <1>3, <2>1 DEF BeginSweep
<1>4. CASE StartCalculation(p)
  <2>1. Holds([NewRequest("start", cookie, "sweep") EXCEPT !.todo = OpenSessions], disk)
    BY <1>1, NewHolds DEF Kinds
  <2> QED
    BY <1>2, <1>4, <2>1 DEF StartCalculation, Begin
<1>5. ASSUME NEW kind \in Kinds, NEW s \in OpenSessions, Begin(p, NewRequest(kind, s, "load"))
      PROVE  FilesInv'
  <2>1. Holds(NewRequest(kind, s, "load"), disk)
    BY <1>1, NewHolds
  <2> QED
    BY <1>2, <1>5, <2>1 DEF Begin
<1>6. CASE Review(p) \/ Discard(p)
  BY <1>5, <1>6 DEF Review, Discard, Kinds
<1>7. CASE ViewTargets(p) \/ Results(p) \/ SaveForm(p) \/ Complete(p)
  BY <1>5, <1>7 DEF ViewTargets, Results, SaveForm, Complete, Calculation, Kinds
<1> QED
  BY <1>3, <1>4, <1>6, <1>7

LEMMA SweepHolds ==
    ASSUME ErasureInv, FilesInv, NEW p \in Workers, Sweep(p)
    PROVE  FilesInv'
<1>1. PICK r : r = req[p]
  OBVIOUS
<1>2. /\ r \in Request /\ r.at = "sweep" /\ r.kind \in {"sweep", "start"} /\ Holds(r, disk)
      /\ UNCHANGED <<disk, cookie, saved>>
  BY <1>1, FilesApart DEF Sweep, At, Holds, ErasureInv, Knows
<1>3. ASSUME NEW next, Go(p, next), next.at # "end" => Holds(next, disk)
      PROVE  FilesInv'
  BY <1>2, <1>3, QuietHolds
<1>4. CASE r.todo = {}
  <2>1. CASE r.kind = "sweep"
    <3>1. Go(p, [r EXCEPT !.at = "end"])
      BY <1>1, <1>4, <2>1 DEF Sweep
    <3>2. [r EXCEPT !.at = "end"].at = "end"
      BY <1>2 DEF Request
    <3> QED
      BY <1>3, <3>1, <3>2
  <2>2. CASE r.kind = "start" /\ r.s = None
    <3> DEFINE next == [r EXCEPT !.at = "create"]
    <3>1. Go(p, next)
      BY <1>1, <1>4, <2>2 DEF Sweep
    <3>2. next \in Request /\ next.at = "create"
      BY <1>2 DEF Request, Steps
    <3> HIDE DEF next
    <3>3. Holds(next, disk)
      BY <3>2 DEF Holds, Purging
    <3> QED
      BY <1>3, <3>1, <3>3
  <2>3. CASE r.kind = "start" /\ r.s # None
    <3> DEFINE plain == [r EXCEPT !.s = None]
               next == PurgeOf(plain, r.s, "create")
    <3>1. Go(p, next)
      BY <1>1, <1>4, <2>3 DEF Sweep
    <3>2. plain \in Request /\ r.s \in Sessions
      BY <1>2, <2>3 DEF Request
    <3> HIDE DEF plain
    <3>3. Holds(next, disk)
      BY <3>2, PurgeOfHolds DEF Steps
    <3> HIDE DEF next
    <3> QED
      BY <1>3, <3>1, <3>3
  <2> QED
    BY <1>2, <2>1, <2>2, <2>3
<1>5. CASE r.todo # {}
  <2>1. PICK s \in r.todo :
          Go(p, IF disk[s].status = "open" /\ Expired(disk[s])
                THEN PurgeOf([r EXCEPT !.todo = @ \ {s}], s, "sweep") ELSE [r EXCEPT !.todo = @ \ {s}])
    BY <1>1, <1>5 DEF Sweep
  <2> DEFINE less == [r EXCEPT !.todo = @ \ {s}]
  <2>2. less \in Request /\ less.at = "sweep" /\ s \in Sessions
    BY <1>2 DEF Request
  <2> HIDE DEF less
  <2>3. Holds(less, disk) /\ Holds(PurgeOf(less, s, "sweep"), disk)
    <3>1. Holds(less, disk)
      BY <2>2 DEF Holds, Purging
    <3>2. Holds(PurgeOf(less, s, "sweep"), disk)
      BY <2>2, PurgeOfHolds DEF Steps
    <3> QED
      BY <3>1, <3>2
  <2> QED
    BY <1>3, <2>1, <2>3 DEF less
<1> QED
  BY <1>4, <1>5

-----------------------------------------------------------------------------
LEMMA ListHolds ==
    ASSUME ErasureInv, FilesInv, NEW p \in Workers, List(p)
    PROVE  FilesInv'
<1>1. PICK r : r = req[p]
  OBVIOUS
<1>2. /\ r \in Request /\ r.at = "list" /\ Holds(r, disk) /\ r.victim \in Sessions
      /\ r.then \in {"sweep", "create", "answer", "end"} /\ UNCHANGED <<disk, cookie, saved>>
  BY <1>1, FilesApart DEF List, At, Holds, ErasureInv, Knows, Purging
<1>3. CASE disk[r.victim].status = "open"
  <2> DEFINE next == [r EXCEPT !.at = "unlink", !.seen = Present(disk[r.victim])]
  <2>1. Go(p, next)
    BY <1>1, <1>3 DEF List
  <2>2. Present(disk[r.victim]) \in SUBSET Names
    BY DEF Present
  <2>3. next \in Request /\ next.at = "unlink" /\ next.victim = r.victim
    BY <1>2, <2>2 DEF Request, Steps
  <2> HIDE DEF next
  <2>4. Holds(next, disk)
    BY <1>2, <2>3 DEF Holds, Purging
  <2> QED
    BY <1>2, <2>1, <2>4, QuietHolds
<1>4. CASE disk[r.victim].status # "open"
  <2>1. Go(p, Purged(r))
    BY <1>1, <1>4 DEF List
  <2>2. Holds(Purged(r), disk)
    BY <1>2, PurgedHolds
  <2> QED
    BY <1>2, <2>1, <2>2, QuietHolds
<1> QED
  BY <1>3, <1>4

LEMMA WithoutKnown ==
    ASSUME NEW d \in Directory, Closed(d), NEW names \in SUBSET Present(d)
    PROVE  /\ Without(d, names) \in Directory /\ Closed(Without(d, names))
           /\ "tmp" \notin names => Without(d, names).tmp = d.tmp
           /\ "live" \notin names => Without(d, names).live = d.live
           /\ Without(d, names).status = d.status
<1> DEFINE w == Without(d, names)
<1>1. /\ w \in Directory /\ w.status = d.status
      /\ "tmp" \notin names => w.tmp = d.tmp
      /\ "live" \notin names => w.live = d.live
  BY DEF Without, Directory
<1>2. CASE d.status = "open"
  BY <1>1, <1>2 DEF Closed
<1>3. CASE d.status # "open"
  <2>1. d = Unused \/ d = GoneDir
    BY <1>3 DEF Closed
  <2>2. /\ d.original = FALSE /\ d.derived = FALSE /\ d.review = None /\ d.tmp = None /\ d.live = None
    BY <2>1 DEF Unused, GoneDir
  <2>3. Present(d) = {}
    BY <2>2 DEF Present, Names
  <2>4. names = {}
    BY <2>3
  <2>5. w = d
    BY <2>4 DEF Without, Directory
  <2> QED
    BY <1>1, <2>1, <2>5 DEF Closed
<1> QED
  BY <1>1, <1>2, <1>3

LEMMA UnlinkHolds ==
    ASSUME FilesInv, NEW p \in Workers, Unlink(p)
    PROVE  FilesInv'
<1>1. PICK r : r = req[p]
  OBVIOUS
<1>2. PICK v : v = r.victim
  OBVIOUS
<1>3. /\ r \in Request /\ r.at = "unlink" /\ v \in Sessions
      /\ UNCHANGED <<cookie, saved>>
  BY <1>1, <1>2, FilesApart DEF Unlink, At, Holds, Purging
<1>4. PICK step \in {"rmdir", "end"}, names \in SUBSET (r.seen \cap Present(disk[v])) :
        /\ disk' = [disk EXCEPT ![v] = Without(@, names)]
        /\ req' = Moved(p, v, [r EXCEPT !.at = step, !.seen = @ \cap {"derived"}],
                        [n \in names \cap {"tmp", "live"} |-> "lost"])
  BY <1>1, <1>2 DEF Unlink
<1>5. disk[v] \in Directory /\ Closed(disk[v])
  BY <1>3, FilesApart DEF DiskOK
<1>6. PICK d : d = Without(disk[v], names)
  OBVIOUS
<1>7. /\ d \in Directory /\ Closed(d)
      /\ "tmp" \notin names => d.tmp = disk[v].tmp
      /\ "live" \notin names => d.live = disk[v].live
  BY <1>4, <1>5, <1>6, WithoutKnown
<1> DEFINE renamed == [n \in names \cap {"tmp", "live"} |-> "lost"]
           next == [r EXCEPT !.at = step, !.seen = @ \cap {"derived"}]
<1>8. next \in Request /\ next.at = step /\ next.victim = v
  BY <1>2, <1>3 DEF Request, Steps
<1>9. req' = Moved(p, v, next, renamed) /\ disk' = [disk EXCEPT ![v] = d]
  BY <1>4, <1>6
<1>10. \A n \in {"none", "tmp", "live", "lost"} :
         Here(disk[v], n) => Here(d, IF n \in DOMAIN renamed THEN renamed[n] ELSE n)
  BY <1>7 DEF Here
<1>11. /\ DOMAIN renamed \subseteq {"tmp", "live"}
       /\ \A n \in DOMAIN renamed : renamed[n] \in {"live", "lost"}
  OBVIOUS
<1> HIDE DEF next, renamed
<1>12. Holds(next, disk')
  BY <1>3, <1>8 DEF Holds, Purging
<1>13. RestOK'
  BY <1>3, SameTables
<1> QED
  BY <1>3, <1>7, <1>9, <1>10, <1>11, <1>12, <1>13, MovingHolds

LEMMA PlainDirectories ==
    /\ Unused \in Directory /\ GoneDir \in Directory /\ Closed(Unused) /\ Closed(GoneDir)
    /\ GoneDir.status = "gone" /\ Unused.status = "unused"
    /\ Unused.tmp = None /\ Unused.live = None /\ GoneDir.tmp = None /\ GoneDir.live = None
<1>1. 0 \in Age
  BY SessionAssumption DEF Age
<1>2. Unused \in Directory
  BY <1>1 DEF Unused, Directory
<1>3. GoneDir \in Directory
  BY <1>2 DEF GoneDir, Directory
<1>4. /\ Unused.status = "unused" /\ Unused.tmp = None /\ Unused.live = None
  BY DEF Unused
<1>5. GoneDir.status = "gone" /\ GoneDir.tmp = None /\ GoneDir.live = None
  BY DEF Unused, GoneDir
<1> QED
  BY <1>2, <1>3, <1>4, <1>5 DEF Closed

LEMMA RemoveHolds ==
    ASSUME ErasureInv, FilesInv, NEW p \in Workers, RemoveSession(p)
    PROVE  FilesInv'
<1>1. PICK r : r = req[p]
  OBVIOUS
<1>2. PICK v : v = r.victim
  OBVIOUS
<1>3. /\ r \in Request /\ r.at = "rmdir" /\ v \in Sessions /\ Holds(r, disk)
      /\ r.then \in {"sweep", "create", "answer", "end"} /\ UNCHANGED <<cookie, saved>>
  BY <1>1, <1>2, FilesApart DEF RemoveSession, At, Holds, ErasureInv, Knows, Purging
<1>4. RestOK'
  BY <1>3, SameTables
<1>5. CASE Removable(p, disk[v])
  <2>1. disk' = [disk EXCEPT ![v] = GoneDir] /\ Go(p, Purged(r))
    BY <1>1, <1>2, <1>5 DEF RemoveSession
  <2>2. Present(disk[v]) \subseteq {"derived"}
    BY <1>5 DEF Removable
  <2>3. disk[v].tmp = None /\ disk[v].live = None
    <3>1. "tmp" \notin Present(disk[v]) /\ "live" \notin Present(disk[v])
      BY <2>2
    <3> QED
      BY <3>1 DEF Present, Names
  <2>4. \A n \in {"none", "tmp", "live", "lost"} : Here(disk[v], n) => Here(GoneDir, n)
    BY <2>3 DEF Here
  <2>5. DiskOK(disk') /\ FilesLast(disk, disk')
    BY <1>3, <2>1, <2>4, PlainDirectories, OneHolds
  <2>6. Holds(Purged(r), disk')
    BY <1>3, PurgedHolds
  <2> QED
    BY <1>4, <2>1, <2>5, <2>6, TurnHolds
<1>6. CASE ~Removable(p, disk[v])
  BY <1>1, <1>2, <1>3, <1>6, QuietEndHolds DEF RemoveSession
<1> QED
  BY <1>5, <1>6

LEMMA CreateHolds ==
    ASSUME ErasureInv, FilesInv, NEW p \in Workers, Create(p)
    PROVE  FilesInv'
<1>1. PICK r : r = req[p]
  OBVIOUS
<1>2. r \in Request /\ r.at = "create" /\ UNCHANGED <<cookie, saved>>
  BY <1>1, FilesApart DEF Create, At, Holds
<1>3. RestOK'
  BY <1>2, SameTables
<1>4. CASE End(p) /\ UNCHANGED disk
  BY <1>2, <1>4, QuietEndHolds
<1>5. ASSUME NEW s \in Sessions, disk[s].status = "unused", NEW d \in Directory,
             d.status = "open", disk' = [disk EXCEPT ![s] = d]
      PROVE  DiskOK(disk') /\ FilesLast(disk, disk')
  <2>1. disk[s] = Unused
    BY <1>5, FilesApart, PlainDirectories DEF DiskOK, Closed
  <2>2. \A n \in {"none", "tmp", "live", "lost"} : Here(disk[s], n) => Here(d, n)
    BY <2>1, PlainDirectories DEF Here
  <2>3. Closed(d)
    BY <1>5 DEF Closed
  <2> QED
    BY <1>5, <2>2, <2>3, OneHolds
<1>6. NewDirectory \in Directory /\ NewDirectory.status = "open"
  BY PlainDirectories DEF NewDirectory, Directory
<1>7. ASSUME NEW s \in Sessions, disk[s].status = "unused",
             disk' = [disk EXCEPT ![s] = [NewDirectory EXCEPT !.derived = TRUE, !.review = 0]],
             Go(p, [r EXCEPT !.at = "answer", !.s = s])
      PROVE  FilesInv'
  <2> DEFINE d == [NewDirectory EXCEPT !.derived = TRUE, !.review = 0]
             next == [r EXCEPT !.at = "answer", !.s = s]
  <2>1. 0 \in Age
    BY SessionAssumption DEF Age
  <2>2. d \in Directory /\ d.status = "open"
    BY <1>6, <2>1 DEF Directory
  <2>3. next \in Request /\ next.at = "answer"
    BY <1>2 DEF Request, Steps
  <2>4. Go(p, next) /\ disk' = [disk EXCEPT ![s] = d]
    BY <1>7
  <2> HIDE DEF d, next
  <2>5. Holds(next, disk')
    BY <2>3 DEF Holds, Purging
  <2>6. DiskOK(disk') /\ FilesLast(disk, disk')
    BY <1>5, <1>7, <2>2, <2>4
  <2> QED
    BY <1>3, <2>4, <2>5, <2>6, TurnHolds
<1>8. ASSUME NEW s \in Sessions, disk[s].status = "unused",
             disk' = [disk EXCEPT ![s] = NewDirectory], End(p)
      PROVE  FilesInv'
  BY <1>3, <1>5, <1>6, <1>8, EndHolds
<1> QED
  BY <1>1, <1>4, <1>7, <1>8 DEF Create

-----------------------------------------------------------------------------
(* What is read of a file that can be read: rows a person has confirmed.    *)
LEMMA ReadableKnown ==
    ASSUME FilesInv, NEW s \in Sessions, Readable(disk[s])
    PROVE  /\ disk[s].live \in StateFile /\ disk[s].live.rows \in Inputs
           /\ [disk[s].live EXCEPT !.mtime = 0] \in StateFile
           /\ [disk[s].live EXCEPT !.mtime = 0].rows \in Inputs
<1>1. disk[s].live \in StateFile /\ disk[s].live.rows \in Inputs
  BY FilesApart DEF DiskOK, Directory, Readable, StateFile
<1>2. 0 \in Age
  BY SessionAssumption DEF Age
<1> QED
  BY <1>1, <1>2 DEF StateFile

LEMMA LoadedHolds ==
    ASSUME FilesInv, NEW p \in Workers, NEW r \in Request, r.s \in Sessions, Loaded(p, r),
           UNCHANGED <<disk, cookie, saved>>,
           r.kind \in {"review", "results", "save", "view", "discard", "complete"},
           r.kind \in {"results", "save"} => r.state \in StateFile /\ r.state.rows \in Inputs
    PROVE  FilesInv'
<1>1. ASSUME NEW next, Go(p, next), Holds(next, disk) PROVE FilesInv'
  BY <1>1, QuietHolds
<1>2. CASE r.kind = "review"
  <2>1. PICK i \in Inputs : Go(p, [r EXCEPT !.at = "open",
                                            !.state = [rows |-> i, result |-> None, age |-> 0, mtime |-> 0]])
    BY <1>2 DEF Loaded
  <2> DEFINE state == [rows |-> i, result |-> None, age |-> 0, mtime |-> 0]
             next == [r EXCEPT !.at = "open", !.state = state]
  <2>2. 0 \in Age
    BY SessionAssumption DEF Age
  <2>3. state \in StateFile /\ state.rows \in Inputs
    BY <2>2 DEF StateFile
  <2>4. Go(p, next)
    BY <2>1
  <2> HIDE DEF state
  <2>5. next \in Request /\ next.at = "open" /\ next.state = state /\ next.s = r.s
    BY <2>3 DEF Request, Steps
  <2> HIDE DEF next
  <2>6. Holds(next, disk)
    BY <2>3, <2>5 DEF Holds, Purging
  <2> QED
    BY <1>1, <2>4, <2>6
<1>3. CASE r.kind = "results"
  <2> DEFINE next == [r EXCEPT !.at = "attach", !.input = r.state.rows, !.state = None]
  <2>1. Go(p, next)
    BY <1>3 DEF Loaded
  <2>2. r.state.rows \in Inputs
    BY <1>3
  <2>3. next \in Request /\ next.at = "attach" /\ next.input \in Inputs /\ next.s = r.s
    BY <2>2 DEF Request, Steps
  <2> HIDE DEF next
  <2>4. Holds(next, disk)
    BY <2>3 DEF Holds, Purging
  <2> QED
    BY <1>1, <2>1, <2>4
<1>4. CASE r.kind = "save"
  <2> DEFINE next == [r EXCEPT !.at = "save"]
  <2>1. Go(p, next)
    BY <1>4 DEF Loaded
  <2>2. next \in Request /\ next.at = "save" /\ next.state = r.state
    BY DEF Request, Steps
  <2> HIDE DEF next
  <2>3. Holds(next, disk)
    BY <1>4, <2>2 DEF Holds, Purging
  <2> QED
    BY <1>1, <2>1, <2>3
<1>5. CASE r.kind = "view"
  BY <1>5, QuietEndHolds DEF Loaded
<1>6. CASE r.kind \in {"discard", "complete"}
  <2>1. Go(p, PurgeOf(r, r.s, "answer"))
    BY <1>6 DEF Loaded
  <2>2. Holds(PurgeOf(r, r.s, "answer"), disk)
    BY PurgeOfHolds DEF Steps
  <2> QED
    BY <1>1, <2>1, <2>2
<1> QED
  BY <1>2, <1>3, <1>4, <1>5, <1>6

LEMMA LoadHolds ==
    ASSUME ErasureInv, FilesInv, NEW p \in Workers, Load(p)
    PROVE  FilesInv'
<1>1. PICK r : r = req[p]
  OBVIOUS
<1>2. PICK d : d = disk[r.s]
  OBVIOUS
<1>3. /\ r \in Request /\ r.at = "load" /\ r.s \in Sessions /\ UNCHANGED <<disk, cookie, saved>>
      /\ r.kind \in {"review", "results", "save", "view", "discard", "complete"}
  BY <1>1, FilesApart DEF Load, At, Holds, ErasureInv, Knows, Used
<1>4. ASSUME Go(p, PurgeOf(r, r.s, "end")) PROVE FilesInv'
  <2>1. Holds(PurgeOf(r, r.s, "end"), disk)
    BY <1>3, PurgeOfHolds DEF Steps
  <2> QED
    BY <1>3, <1>4, <2>1, QuietHolds
<1>5. ASSUME End(p) PROVE FilesInv'
  BY <1>3, <1>5, QuietEndHolds
<1>6. CASE r.kind \in {"review", "discard"}
  <2>1. CASE d.review # None /\ d.review # TTL
    <3>1. Loaded(p, r)
      BY <1>1, <1>2, <1>6, <2>1 DEF Load
    <3> QED
      BY <1>3, <1>6, <3>1, LoadedHolds
  <2>2. CASE d.review = None \/ d.review = TTL
    BY <1>1, <1>2, <1>4, <1>5, <1>6, <2>2 DEF Load
  <2> QED
    BY <2>1, <2>2
<1>7. CASE r.kind \notin {"review", "discard"}
  <2>1. CASE ~Readable(d)
    BY <1>1, <1>2, <1>5, <1>7, <2>1 DEF Load
  <2>2. CASE Readable(d) /\ d.live.age = TTL
    BY <1>1, <1>2, <1>4, <1>7, <2>2 DEF Load
  <2>3. CASE Readable(d) /\ d.live.age # TTL
    <3> DEFINE state == [d.live EXCEPT !.mtime = 0]
               read == [r EXCEPT !.state = state]
    <3>1. Loaded(p, read)
      BY <1>1, <1>2, <1>7, <2>3 DEF Load
    <3>2. state \in StateFile /\ state.rows \in Inputs
      BY <1>2, <1>3, <2>3, ReadableKnown
    <3> HIDE DEF state
    <3>3. read \in Request /\ read.s = r.s /\ read.kind = r.kind /\ read.state = state
      BY <1>3, <3>2 DEF Request
    <3> HIDE DEF read
    <3> QED
      BY <1>3, <3>1, <3>2, <3>3, LoadedHolds
  <2> QED
    BY <2>1, <2>2, <2>3
<1> QED
  BY <1>6, <1>7

LEMMA AttachHolds ==
    ASSUME FilesInv, NEW p \in Workers, Attach(p)
    PROVE  FilesInv'
<1>1. PICK r : r = req[p]
  OBVIOUS
<1>2. PICK d : d = disk[r.s]
  OBVIOUS
<1>3. /\ r \in Request /\ r.at = "attach" /\ r.s \in Sessions /\ r.input \in Inputs
      /\ UNCHANGED <<disk, cookie, saved>>
  BY <1>1, FilesApart DEF Attach, At, Holds
<1>4. CASE ~Readable(d)
  BY <1>1, <1>2, <1>3, <1>4, QuietEndHolds DEF Attach
<1>5. CASE Readable(d) /\ d.live.age = TTL
  <2>1. Go(p, PurgeOf(r, r.s, "end"))
    BY <1>1, <1>2, <1>5 DEF Attach
  <2>2. Holds(PurgeOf(r, r.s, "end"), disk)
    BY <1>3, PurgeOfHolds DEF Steps
  <2> QED
    BY <1>3, <2>1, <2>2, QuietHolds
<1>6. CASE Readable(d) /\ d.live.age # TTL
  <2> DEFINE state == [d.live EXCEPT !.result = r.input, !.mtime = 0]
             next == [r EXCEPT !.at = "open", !.input = None, !.state = state]
  <2>1. Go(p, next)
    BY <1>1, <1>2, <1>6 DEF Attach
  <2>2. d.live \in StateFile /\ d.live.rows \in Inputs
    BY <1>2, <1>3, <1>6, ReadableKnown
  <2>3. 0 \in Age
    BY SessionAssumption DEF Age
  <2>4. state \in StateFile /\ state.rows \in Inputs
    BY <1>3, <2>2, <2>3 DEF StateFile
  <2> HIDE DEF state
  <2>5. next \in Request /\ next.at = "open" /\ next.s = r.s /\ next.state = state
    BY <1>3, <2>4 DEF Request, Steps
  <2> HIDE DEF next
  <2>6. Holds(next, disk)
    BY <1>3, <2>4, <2>5 DEF Holds, Purging
  <2> QED
    BY <1>3, <2>1, <2>6, QuietHolds
<1> QED
  BY <1>4, <1>5, <1>6

-----------------------------------------------------------------------------
(* The writers.                                                             *)
LEMMA OpenHolds ==
    ASSUME FilesInv, NEW p \in Workers, OpenTemporary(p)
    PROVE  FilesInv'
<1>1. PICK r : r = req[p]
  OBVIOUS
<1>2. PICK s : s = r.s
  OBVIOUS
<1>3. /\ r \in Request /\ r.at = "open" /\ s \in Sessions /\ r.state \in StateFile /\ r.state.rows \in Inputs
      /\ UNCHANGED <<cookie, saved>> /\ disk[s] \in Directory
  BY <1>1, <1>2, FilesApart DEF OpenTemporary, At, Holds, DiskOK
<1>4. CASE disk[s].status = "open"
  <2> DEFINE mtime == IF disk[s].derived THEN disk[s].mtime ELSE 0
             d == [disk[s] EXCEPT !.derived = TRUE, !.tmp = Empty, !.mtime = mtime]
             next == [r EXCEPT !.at = "write", !.fd = "tmp"]
  <2>1. disk' = [disk EXCEPT ![s] = d] /\ Go(p, next)
    BY <1>1, <1>2, <1>4 DEF OpenTemporary
  <2>2. 0 \in Age
    BY SessionAssumption DEF Age
  <2>3. Empty \in StateFile /\ mtime \in Age
    BY <1>3, <2>2 DEF Empty, StateFile, Broken, Directory
  <2> HIDE DEF mtime
  <2>4. d \in Directory /\ d.status = "open" /\ d.tmp = Empty /\ d.live = disk[s].live
    BY <1>3, <1>4, <2>3 DEF Directory
  <2>5. next \in Request /\ next.at = "write" /\ next.s = s /\ next.fd = "tmp" /\ next.state = r.state
    BY <1>2, <1>3 DEF Request, Steps
  <2> HIDE DEF d, next
  <2>6. d.tmp # None
    BY <2>3, <2>4, FileAssumption
  <2>7. DiskOK(disk') /\ FilesLast(disk, disk')
    <3>1. \A n \in {"none", "tmp", "live", "lost"} : Here(disk[s], n) => Here(d, n)
      BY <2>4, <2>6 DEF Here
    <3>2. Closed(d)
      BY <2>4 DEF Closed
    <3> QED
      BY <1>3, <2>1, <2>4, <3>1, <3>2, OneHolds
  <2>8. disk'[s] = d
    BY <1>3, <2>1, FilesApart DEF DiskOK
  <2>9. Here(disk'[next.s], next.fd)
    BY <2>5, <2>6, <2>8 DEF Here
  <2>10. Holds(next, disk')
    BY <1>3, <2>5, <2>9 DEF Holds, Purging
  <2>11. RestOK'
    BY <1>3, SameTables
  <2> QED
    BY <2>1, <2>7, <2>10, <2>11, TurnHolds
<1>5. CASE disk[s].status # "open"
  BY <1>1, <1>2, <1>3, <1>5, QuietEndHolds DEF OpenTemporary
<1> QED
  BY <1>4, <1>5

LEMMA WrittenKnown ==
    ASSUME NEW file, NEW state \in StateFile, NEW f \in Overwritten(file, state)
    PROVE  f \in StateFile
<1> DEFINE fresh == [state EXCEPT !.mtime = 0]
           torn == [fresh EXCEPT !.rows = "torn", !.result = None]
<1>1. 0 \in Age
  BY SessionAssumption DEF Age
<1>2. fresh \in StateFile
  BY <1>1 DEF StateFile
<1>3. torn \in StateFile
  BY <1>2 DEF StateFile, Broken
<1>4. f \in {fresh, torn}
  BY DEF Overwritten
<1> QED
  BY <1>2, <1>3, <1>4

LEMMA WriteHolds ==
    ASSUME FilesInv, NEW p \in Workers, Write(p)
    PROVE  FilesInv'
<1>1. PICK r : r = req[p]
  OBVIOUS
<1>2. PICK s : s = r.s
  OBVIOUS
<1>3. /\ r \in Request /\ r.at = "write" /\ s \in Sessions /\ r.state \in StateFile
      /\ Here(disk[s], r.fd) /\ UNCHANGED <<cookie, saved>> /\ disk[s] \in Directory /\ Closed(disk[s])
  BY <1>1, <1>2, FilesApart DEF Write, At, Holds, DiskOK
<1>4. RestOK'
  BY <1>3, SameTables
<1> DEFINE next == [r EXCEPT !.at = "replace", !.fd = "none", !.state = None]
<1>5. Go(p, next)
  BY <1>1 DEF Write
<1>6. next \in Request /\ next.at = "replace" /\ next.s = s
  BY <1>2, <1>3 DEF Request, Steps
<1> HIDE DEF next
<1>7. \A e : Holds(next, e)
  BY <1>3, <1>6 DEF Holds, Purging
<1>8. ASSUME r.fd \in {"tmp", "live"} PROVE disk[s].status = "open"
  BY <1>3, <1>8, PlainDirectories DEF Closed, Here
<1>9. ASSUME NEW d \in Directory, d.status = "open", disk' = [disk EXCEPT ![s] = d],
             d.tmp # None \/ d.tmp = disk[s].tmp, d.live # None \/ d.live = disk[s].live
      PROVE  FilesInv'
  <2>1. \A n \in {"none", "tmp", "live", "lost"} : Here(disk[s], n) => Here(d, n)
    BY <1>9 DEF Here
  <2>2. Closed(d)
    BY <1>9 DEF Closed
  <2>3. DiskOK(disk') /\ FilesLast(disk, disk')
    BY <1>3, <1>9, <2>1, <2>2, OneHolds
  <2> QED
    BY <1>4, <1>5, <1>7, <2>3, TurnHolds
<1>10. CASE r.fd = "tmp"
  <2>1. PICK f \in Overwritten(disk[s].tmp, r.state) : disk' = [disk EXCEPT ![s].tmp = f]
    BY <1>1, <1>2, <1>10 DEF Write
  <2>2. f \in StateFile /\ f # None
    BY <1>3, WrittenKnown, FileAssumption
  <2> DEFINE d == [disk[s] EXCEPT !.tmp = f]
  <2>3. disk' = [disk EXCEPT ![s] = d]
    BY <2>1
  <2>4. d \in Directory /\ d.status = "open" /\ d.tmp = f /\ d.live = disk[s].live
    BY <1>3, <1>8, <1>10, <2>2 DEF Directory
  <2> HIDE DEF d
  <2> QED
    BY <1>9, <2>2, <2>3, <2>4
<1>11. CASE r.fd = "live"
  <2>1. PICK f \in Overwritten(disk[s].live, r.state) : disk' = [disk EXCEPT ![s].live = f]
    BY <1>1, <1>2, <1>11 DEF Write
  <2>2. f \in StateFile /\ f # None
    BY <1>3, WrittenKnown, FileAssumption
  <2> DEFINE d == [disk[s] EXCEPT !.live = f]
  <2>3. disk' = [disk EXCEPT ![s] = d]
    BY <2>1
  <2>4. d \in Directory /\ d.status = "open" /\ d.live = f /\ d.tmp = disk[s].tmp
    BY <1>3, <1>8, <1>11, <2>2 DEF Directory
  <2> HIDE DEF d
  <2> QED
    BY <1>9, <2>2, <2>3, <2>4
<1>12. CASE r.fd \notin {"tmp", "live"}
  <2>1. UNCHANGED disk
    BY <1>1, <1>12 DEF Write
  <2> QED
    BY <1>4, <1>5, <1>7, <2>1, SameFiles, TurnHolds
<1> QED
  BY <1>10, <1>11, <1>12

LEMMA ReplaceHolds ==
    ASSUME FilesInv, NEW p \in Workers, Replace(p)
    PROVE  FilesInv'
<1>1. PICK r : r = req[p]
  OBVIOUS
<1>2. PICK s : s = r.s
  OBVIOUS
<1>3. /\ r \in Request /\ r.at = "replace" /\ s \in Sessions
      /\ UNCHANGED <<cookie, saved>> /\ disk[s] \in Directory /\ Closed(disk[s])
  BY <1>1, <1>2, FilesApart DEF Replace, At, Holds, DiskOK
<1>4. CASE disk[s].tmp # None
  <2> DEFINE d == [disk[s] EXCEPT !.live = disk[s].tmp, !.tmp = None]
             next == [r EXCEPT !.at = "cleanup"]
             renamed == [n \in {"tmp", "live"} |-> IF n = "tmp" THEN "live" ELSE "lost"]
  <2>1. disk' = [disk EXCEPT ![s] = d]
    BY <1>1, <1>2, <1>4 DEF Replace
  <2>2. req' = Moved(p, s, next, renamed)
    BY <1>1, <1>2, <1>4 DEF Replace
  <2>3. disk[s].status = "open"
    BY <1>3, <1>4, PlainDirectories DEF Closed
  <2>4. d \in Directory /\ d.status = "open" /\ d.live # None
    BY <1>3, <1>4, <2>3 DEF Directory
  <2>5. next \in Request /\ next.at = "cleanup" /\ next.s = s
    BY <1>2, <1>3 DEF Request, Steps
  <2>6. Closed(d)
    BY <2>4 DEF Closed
  <2>7. \A n \in {"none", "tmp", "live", "lost"} :
          Here(disk[s], n) => Here(d, IF n \in DOMAIN renamed THEN renamed[n] ELSE n)
    <3> HIDE DEF d
    <3> QED
      BY <2>4 DEF Here
  <2>8. DOMAIN renamed \subseteq {"tmp", "live"} /\ \A n \in DOMAIN renamed : renamed[n] \in {"live", "lost"}
    OBVIOUS
  <2> HIDE DEF d, next, renamed
  <2>9. Holds(next, disk')
    BY <1>3, <2>5 DEF Holds, Purging
  <2>10. RestOK'
    BY <1>3, SameTables
  <2> QED
    BY <1>3, <2>1, <2>2, <2>4, <2>6, <2>7, <2>8, <2>9, <2>10, MovingHolds
<1>5. CASE disk[s].tmp = None
  <2> DEFINE next == [r EXCEPT !.at = "cleanup", !.failed = TRUE]
  <2>1. Go(p, next) /\ UNCHANGED disk
    BY <1>1, <1>2, <1>5 DEF Replace
  <2>2. next \in Request /\ next.at = "cleanup" /\ next.s = s
    BY <1>2, <1>3 DEF Request, Steps
  <2> HIDE DEF next
  <2>3. Holds(next, disk)
    BY <1>3, <2>2 DEF Holds, Purging
  <2> QED
    BY <1>3, <2>1, <2>3, QuietHolds
<1> QED
  BY <1>4, <1>5

LEMMA CleanUpHolds ==
    ASSUME FilesInv, NEW p \in Workers, CleanUp(p)
    PROVE  FilesInv'
<1>1. PICK r : r = req[p]
  OBVIOUS
<1>2. PICK s : s = r.s
  OBVIOUS
<1>3. /\ r \in Request /\ r.at = "cleanup" /\ s \in Sessions
      /\ UNCHANGED <<cookie, saved>> /\ disk[s] \in Directory /\ Closed(disk[s])
  BY <1>1, <1>2, FilesApart DEF CleanUp, At, Holds, DiskOK
<1> DEFINE rest == [disk[s] EXCEPT !.tmp = None]
<1>4. PICK d : d = IF r.failed \/ r.kind # "review" THEN rest ELSE PurgeOriginals(rest)
  OBVIOUS
<1> DEFINE next == [r EXCEPT !.at = "end"]
           renamed == [n \in {"tmp"} |-> "lost"]
<1>5. disk' = [disk EXCEPT ![s] = d] /\ req' = Moved(p, s, next, renamed)
  BY <1>1, <1>2, <1>4 DEF CleanUp
<1>6. rest \in Directory /\ rest.status = disk[s].status /\ rest.live = disk[s].live
  BY <1>3 DEF Directory
<1>7. d \in Directory /\ d.status = disk[s].status /\ d.live = disk[s].live
  <2>1. 0 \in Age
    BY SessionAssumption DEF Age
  <2> HIDE DEF rest
  <2>2. PurgeOriginals(rest) \in Directory /\ PurgeOriginals(rest).status = rest.status
        /\ PurgeOriginals(rest).live = rest.live
    BY <1>6, <2>1 DEF PurgeOriginals, Directory
  <2> QED
    BY <1>4, <1>6, <2>2
<1>8. Closed(d)
  <2>1. CASE disk[s].status = "open"
    BY <1>7, <2>1 DEF Closed
  <2>2. CASE disk[s].status # "open"
    <3>1. disk[s] = Unused \/ disk[s] = GoneDir
      BY <1>3, <2>2 DEF Closed
    <3>2. disk[s].tmp = None /\ disk[s].original = FALSE
      BY <3>1 DEF Unused, GoneDir
    <3>3. rest = disk[s]
      BY <1>3, <3>2 DEF Directory
    <3> HIDE DEF rest
    <3>4. PurgeOriginals(rest) = rest
      BY <1>6, <3>2, <3>3 DEF PurgeOriginals, Directory
    <3> QED
      BY <1>4, <3>1, <3>3, <3>4 DEF Closed
  <2> QED
    BY <2>1, <2>2
<1>9. \A n \in {"none", "tmp", "live", "lost"} :
        Here(disk[s], n) => Here(d, IF n \in DOMAIN renamed THEN renamed[n] ELSE n)
  BY <1>7 DEF Here
<1>10. DOMAIN renamed \subseteq {"tmp", "live"} /\ \A n \in DOMAIN renamed : renamed[n] \in {"live", "lost"}
  OBVIOUS
<1>11. next.at = "end"
  BY <1>3 DEF Request
<1>12. RestOK'
  BY <1>3, SameTables
<1> HIDE DEF next, renamed, rest
<1> QED
  BY <1>3, <1>5, <1>7, <1>8, <1>9, <1>10, <1>11, <1>12, MovingHolds

LEMMA SaveHolds ==
    ASSUME ErasureInv, FilesInv, NEW p \in Workers, Save(p)
    PROVE  FilesInv'
<1>1. PICK r : r = req[p]
  OBVIOUS
<1>2. /\ r \in Request /\ r.s \in Sessions /\ r.state \in StateFile /\ r.state.rows \in Inputs
      /\ UNCHANGED <<disk, cookie>>
  BY <1>1, FilesApart DEF Save, At, Holds, ErasureInv, Knows, Used
<1>3. CASE Keepable(r)
  <2>1. /\ saved' = Append(saved, [calc |-> r.s, rows |-> r.state.rows, result |-> r.state.result])
        /\ Go(p, PurgeOf(r, r.s, "answer"))
    BY <1>1, <1>3 DEF Save
  <2> DEFINE entry == [calc |-> r.s, rows |-> r.state.rows, result |-> r.state.result]
  <2>2. entry \in [calc : Sessions, rows : Inputs, result : Inputs]
    BY <1>2, <1>3 DEF Keepable, StateFile
  <2> HIDE DEF entry
  <2>3. saved' \in Seq([calc : Sessions, rows : Inputs, result : Inputs])
    <3> DEFINE Entries == [calc : Sessions, rows : Inputs, result : Inputs]
    <3>1. saved \in Seq(Entries) /\ saved' = Append(saved, entry) /\ entry \in Entries
      BY <2>1, <2>2, FilesApart DEF RestOK, entry
    <3> HIDE DEF Entries
    <3>2. saved' \in Seq(Entries)
      BY <3>1
    <3> QED
      BY <3>2 DEF Entries
  <2>4. RestOK'
    BY <1>2, <2>3, FilesApart DEF RestOK
  <2>5. Holds(PurgeOf(r, r.s, "answer"), disk')
    BY <1>2, PurgeOfHolds DEF Steps
  <2> QED
    BY <1>2, <2>1, <2>4, <2>5, SameFiles, TurnHolds
<1>4. CASE ~Keepable(r)
  BY <1>1, <1>2, <1>4, QuietEndHolds DEF Save
<1> QED
  BY <1>3, <1>4

LEMMA AnswerHolds ==
    ASSUME FilesInv, NEW p \in Workers, Answer(p)
    PROVE  FilesInv'
<1>1. req[p].s \in Sessions \cup {None} /\ End(p) /\ UNCHANGED <<disk, saved>>
  BY FilesApart DEF Answer, At, Holds, Request
<1>2. RestOK'
  BY <1>1, FilesApart DEF Answer, RestOK
<1> QED
  BY <1>1, <1>2, SameFiles, EndHolds

LEMMA OlderKnown ==
    ASSUME NEW n
    PROVE  /\ n \in Age => Older(n) \in Age
           /\ n \in Age \cup {None} => Older(n) \in Age \cup {None}
           /\ n \in StateFile => OlderFile(n) \in StateFile
           /\ n \in StateFile \cup {None} => OlderFile(n) \in StateFile \cup {None}
           /\ OlderFile(n) = None => n = None \/ n \notin StateFile
<1>1. ASSUME NEW a \in Age PROVE Older(a) \in Age
  BY SessionAssumption DEF Older, Age
<1>2. n \in Age \cup {None} => Older(n) \in Age \cup {None}
  BY <1>1 DEF Older
<1>3. n \in StateFile => OlderFile(n) \in StateFile
  <2> SUFFICES ASSUME n \in StateFile PROVE OlderFile(n) \in StateFile
    OBVIOUS
  <2>1. n # None /\ Older(n.age) \in Age /\ Older(n.mtime) \in Age
    BY <1>1, FileAssumption DEF StateFile
  <2> DEFINE age == Older(n.age)
             mtime == Older(n.mtime)
  <2>2. OlderFile(n) = [n EXCEPT !.age = age, !.mtime = mtime]
    BY <2>1 DEF OlderFile
  <2> HIDE DEF age, mtime
  <2>3. age \in Age /\ mtime \in Age
    BY <2>1 DEF age, mtime
  <2> QED
    BY <2>2, <2>3 DEF StateFile
<1>4. n = None => OlderFile(n) = None
  BY DEF OlderFile
<1> QED
  BY <1>1, <1>2, <1>3, <1>4, FileAssumption

LEMMA TickHolds ==
    ASSUME FilesInv, Tick
    PROVE  FilesInv'
<1>1. ASSUME NEW s \in Sessions
      PROVE  /\ disk'[s] \in Directory /\ Closed(disk'[s])
             /\ \A n \in {"none", "tmp", "live", "lost"} : Here(disk[s], n) => Here(disk'[s], n)
  <2>1. PICK d : d = disk[s]
    OBVIOUS
  <2>2. d \in Directory /\ Closed(d)
    BY <2>1, FilesApart DEF DiskOK
  <2>3. CASE d.status = "open"
    <3> DEFINE mtime == Older(d.mtime)
               review == Older(d.review)
               tmp == OlderFile(d.tmp)
               live == OlderFile(d.live)
               e == [d EXCEPT !.mtime = mtime, !.review = review, !.tmp = tmp, !.live = live]
    <3>1. disk'[s] = e
      BY <2>1, <2>3 DEF Tick
    <3>2. /\ mtime \in Age /\ review \in Age \cup {None}
          /\ tmp \in StateFile \cup {None} /\ live \in StateFile \cup {None}
          /\ tmp = None => d.tmp = None
          /\ live = None => d.live = None
      BY <2>2, OlderKnown DEF Directory
    <3> HIDE DEF mtime, review, tmp, live
    <3>3. e \in Directory /\ e.status = "open" /\ e.tmp = tmp /\ e.live = live
      BY <2>2, <2>3, <3>2 DEF Directory
    <3> HIDE DEF e
    <3> QED
      BY <2>1, <3>1, <3>2, <3>3 DEF Closed, Here
  <2>4. CASE d.status # "open"
    <3>1. disk'[s] = d
      BY <2>1, <2>4 DEF Tick
    <3> QED
      BY <2>1, <2>2, <3>1
  <2> QED
    BY <2>3, <2>4
<1>2. DiskOK(disk') /\ FilesLast(disk, disk')
  <2>1. disk' = [s \in Sessions |-> disk'[s]]
    BY DEF Tick
  <2> QED
    BY <1>1, <2>1 DEF DiskOK, FilesLast
<1>3. req' = [p \in Workers |-> req'[p]] /\ RestOK'
  <2>1. req' = [p \in Workers |-> req'[p]] /\ UNCHANGED <<cookie, saved>>
    BY DEF Tick
  <2> QED
    BY <2>1, SameTables
<1>4. ASSUME NEW q \in Workers PROVE req'[q] = None \/ Holds(req'[q], disk')
  <2>1. PICK r : r = req[q]
    OBVIOUS
  <2>2. CASE r = None
    BY <2>1, <2>2 DEF Tick
  <2>3. CASE r # None
    <3> DEFINE state == OlderState(r.state)
               next == [r EXCEPT !.state = state]
    <3>1. req'[q] = next
      BY <2>1, <2>3 DEF Tick
    <3>2. Holds(r, disk') /\ r \in Request
      BY <1>2, <2>1, <2>3, FilesApart, HoldsLasts DEF Holds
    <3>3. /\ r.state \in StateFile => state \in StateFile /\ state.rows = r.state.rows
          /\ state \in StateFile \cup {None}
      <4>1. CASE r.state = None
        BY <4>1, FileAssumption DEF OlderState
      <4>2. CASE r.state # None
        <5>1. r.state \in StateFile /\ Older(r.state.age) \in Age
          BY <3>2, <4>2, OlderKnown DEF Request, StateFile
        <5> DEFINE old == r.state
                   age == Older(old.age)
        <5>2. state = [old EXCEPT !.age = age] /\ age \in Age /\ old \in StateFile
          BY <4>2, <5>1 DEF OlderState
        <5> HIDE DEF age, old, state
        <5>3. state \in StateFile /\ state.rows = old.rows
          BY <5>2 DEF StateFile
        <5> QED
          BY <5>3 DEF old
      <4> QED
        BY <4>1, <4>2
    <3> HIDE DEF state
    <3>4. /\ next \in Request /\ next.at = r.at /\ next.s = r.s /\ next.victim = r.victim
          /\ next.input = r.input /\ next.fd = r.fd /\ next.state = state
      BY <3>2, <3>3 DEF Request
    <3> HIDE DEF next
    <3>5. Holds(next, disk')
      BY <3>2, <3>3, <3>4 DEF Holds
    <3> QED
      BY <3>1, <3>5
  <2> QED
    BY <2>2, <2>3
<1> QED
  BY <1>2, <1>3, <1>4, FilesAssembled

-----------------------------------------------------------------------------
LEMMA FilesStep ==
    ASSUME ErasureInv, FilesInv, [Next]_vars
    PROVE  FilesInv'
<1>1. ASSUME NEW p \in Workers, Step(p) PROVE FilesInv'
  <2>1. CASE Sweep(p) \/ List(p) \/ Unlink(p) \/ RemoveSession(p) \/ Create(p)
    BY <2>1, SweepHolds, ListHolds, UnlinkHolds, RemoveHolds, CreateHolds
  <2>2. CASE Load(p) \/ Attach(p) \/ OpenTemporary(p) \/ Write(p)
    BY <2>2, LoadHolds, AttachHolds, OpenHolds, WriteHolds
  <2>3. CASE Replace(p) \/ CleanUp(p) \/ Save(p) \/ Answer(p)
    BY <2>3, ReplaceHolds, CleanUpHolds, SaveHolds, AnswerHolds
  <2> QED
    BY <1>1, <2>1, <2>2, <2>3 DEF Step
<1>2. CASE Tick
  BY <1>2, TickHolds
<1>3. ASSUME NEW p \in Workers,
             BeginSweep(p) \/ StartCalculation(p) \/ Review(p) \/ Discard(p)
               \/ ViewTargets(p) \/ Results(p) \/ SaveForm(p) \/ Complete(p)
      PROVE  FilesInv'
  BY <1>3, FormsHold
<1>4. ASSUME NEW p \in Workers, Crash(p) PROVE FilesInv'
  BY <1>4, QuietEndHolds DEF Crash
<1>5. CASE UNCHANGED vars
  <2>1. UNCHANGED <<disk, req, cookie, saved>>
    BY <1>5 DEF vars
  <2>2. DiskOK(disk') /\ RestOK'
    BY <2>1, SameFiles, SameTables
  <2> QED
    BY <2>1, <2>2, FilesApart, FilesAssembled
<1> QED
  BY <1>1, <1>2, <1>3, <1>4, <1>5 DEF Next

(* Requests know where their calculation is, and open files where they     *)
(* are: the invariant of the theorems below.                               *)
THEOREM WorkspaceSound == Spec => []WorkspaceInv
<1>1. Init => WorkspaceInv
  <2> SUFFICES ASSUME Init PROVE WorkspaceInv
    OBVIOUS
  <2>1. ErasureInv
    BY DEF Init, ErasureInv, Functions
  <2>2. TypeOK
    BY PlainDirectories DEF Init, TypeOK
  <2>3. FilesInv
    BY <2>2 DEF Init, FilesInv
  <2> QED
    BY <2>1, <2>3 DEF WorkspaceInv
<1>2. WorkspaceInv /\ [Next]_vars => WorkspaceInv'
  <2> SUFFICES ASSUME ErasureInv, FilesInv, [Next]_vars PROVE ErasureInv' /\ FilesInv'
    BY DEF WorkspaceInv
  <2>1. ErasureInv'
    BY ErasureStep
  <2>2. FilesInv'
    BY FilesStep
  <2> QED
    BY <2>1, <2>2
<1> QED
  BY <1>1, <1>2, PTL DEF Spec

(* The directories, the requests, the cookie and the accounts have the      *)
(* values they can have, and of a directory that is gone no file is left.   *)
THEOREM WorkspaceTypes == Spec => []TypeOK
  BY WorkspaceSound, PTL DEF WorkspaceInv, FilesInv

-----------------------------------------------------------------------------
(* The abstract specification sees a step only when a directory comes, when *)
(* it goes, and when an account keeps a result.                             *)
SameStatus == \A s \in Sessions : disk'[s].status = disk[s].status

LEMMA Unseen ==
    ASSUME SameStatus, UNCHANGED saved
    PROVE  UNCHANGED Promise!vars
  BY DEF SameStatus, Promise!vars, OpenSessions

LEMMA OneStatus ==
    ASSUME FilesInv, NEW v, NEW d, disk' = [disk EXCEPT ![v] = d], d.status = disk[v].status
    PROVE  SameStatus
  BY FilesApart DEF DiskOK, SameStatus

LEMMA WriterUnseen ==
    ASSUME FilesInv, NEW p \in Workers,
           Unlink(p) \/ OpenTemporary(p) \/ Write(p) \/ Replace(p) \/ CleanUp(p)
    PROVE  SameStatus /\ UNCHANGED saved
<1> DEFINE s == req[p].s
<1>1. UNCHANGED disk => SameStatus
  BY DEF SameStatus
<1>2. CASE Unlink(p)
  <2> DEFINE v == req[p].victim
  <2>1. PICK names : disk' = [disk EXCEPT ![v] = Without(@, names)]
    BY <1>2 DEF Unlink
  <2>2. v \in Sessions
    BY <1>2, FilesApart DEF Unlink, At, Holds, Purging
  <2>3. Without(disk[v], names).status = disk[v].status
    BY <2>2, FilesApart DEF Without, DiskOK, Directory
  <2> QED
    BY <1>2, <2>1, <2>3, OneStatus DEF Unlink
<1>3. ASSUME s \in Sessions, NEW d,
             \/ d = [disk[s] EXCEPT !.derived = TRUE, !.tmp = Empty,
                                    !.mtime = IF disk[s].derived THEN @ ELSE 0]
             \/ d = [disk[s] EXCEPT !.live = disk[s].tmp, !.tmp = None]
             \/ \E f : d = [disk[s] EXCEPT !.tmp = f]
             \/ \E f : d = [disk[s] EXCEPT !.live = f]
             \/ d = PurgeOriginals([disk[s] EXCEPT !.tmp = None]),
             disk' = [disk EXCEPT ![s] = d]
      PROVE  SameStatus
  <2>1. disk[s] \in Directory
    BY <1>3, FilesApart DEF DiskOK
  <2>2. d.status = disk[s].status
    BY <1>3, <2>1 DEF Directory, PurgeOriginals
  <2> QED
    BY <1>3, <2>2, OneStatus
<1>4. CASE OpenTemporary(p)
  <2>1. s \in Sessions /\ UNCHANGED saved
    BY <1>4, FilesApart DEF OpenTemporary, At, Holds
  <2>2. \/ UNCHANGED disk
        \/ disk' = [disk EXCEPT ![s] = [disk[s] EXCEPT !.derived = TRUE, !.tmp = Empty,
                                                       !.mtime = IF disk[s].derived THEN @ ELSE 0]]
    BY <1>4 DEF OpenTemporary
  <2> QED
    BY <1>1, <1>3, <2>1, <2>2
<1>5. CASE Write(p)
  <2>1. s \in Sessions /\ UNCHANGED saved
    BY <1>5, FilesApart DEF Write, At, Holds
  <2>2. \/ UNCHANGED disk
        \/ \E f : disk' = [disk EXCEPT ![s] = [disk[s] EXCEPT !.tmp = f]]
        \/ \E f : disk' = [disk EXCEPT ![s] = [disk[s] EXCEPT !.live = f]]
    BY <1>5 DEF Write
  <2> QED
    BY <1>1, <1>3, <2>1, <2>2
<1>6. CASE Replace(p)
  <2>1. s \in Sessions /\ UNCHANGED saved
    BY <1>6, FilesApart DEF Replace, At, Holds
  <2>2. UNCHANGED disk \/ disk' = [disk EXCEPT ![s] = [disk[s] EXCEPT !.live = disk[s].tmp, !.tmp = None]]
    BY <1>6 DEF Replace
  <2> QED
    BY <1>1, <1>3, <2>1, <2>2
<1>7. CASE CleanUp(p)
  <2>1. s \in Sessions /\ UNCHANGED saved
    BY <1>7, FilesApart DEF CleanUp, At, Holds
  <2>2. \/ disk' = [disk EXCEPT ![s] = [disk[s] EXCEPT !.tmp = None]]
        \/ disk' = [disk EXCEPT ![s] = PurgeOriginals([disk[s] EXCEPT !.tmp = None])]
    BY <1>7 DEF CleanUp
  <2> QED
    BY <1>3, <2>1, <2>2
<1> QED
  BY <1>2, <1>4, <1>5, <1>6, <1>7

LEMMA TickUnseen ==
    ASSUME FilesInv, Tick
    PROVE  SameStatus /\ UNCHANGED saved
<1>1. ASSUME NEW s \in Sessions PROVE disk'[s].status = disk[s].status
  <2>1. CASE disk[s].status = "open"
    <3>1. disk'[s] = [disk[s] EXCEPT !.mtime = Older(@), !.review = Older(@),
                                     !.tmp = OlderFile(@), !.live = OlderFile(@)]
      BY <2>1 DEF Tick
    <3>2. disk[s] \in Directory
      BY FilesApart DEF DiskOK
    <3> QED
      BY <3>1, <3>2 DEF Directory
  <2>2. CASE disk[s].status # "open"
    BY <2>2 DEF Tick
  <2> QED
    BY <2>1, <2>2
<1> QED
  BY <1>1 DEF SameStatus, Tick

(* The directory comes.                                                     *)
LEMMA CreateStarts ==
    ASSUME FilesInv, NEW p \in Workers, Create(p)
    PROVE  [Promise!Next]_(Promise!vars)
<1>1. UNCHANGED saved
  BY DEF Create
<1>2. CASE UNCHANGED disk
  BY <1>1, <1>2, Unseen DEF SameStatus
<1>3. ASSUME NEW s \in Sessions, disk[s].status = "unused", NEW d, d.status = "open",
             disk' = [disk EXCEPT ![s] = d]
      PROVE  Promise!Next
  <2>1. disk'[s].status = "open" /\ \A t \in Sessions \ {s} : disk'[t] = disk[t]
    BY <1>3, FilesApart DEF DiskOK
  <2>2. Promise!Start(s)
    BY <1>1, <1>3, <2>1 DEF Promise!Start, OpenSessions
  <2> QED
    BY <2>2 DEF Promise!Next
<1>4. NewDirectory.status = "open" /\ [NewDirectory EXCEPT !.derived = TRUE, !.review = 0].status = "open"
  BY DEF NewDirectory, Unused
<1> QED
  BY <1>2, <1>3, <1>4 DEF Create

(* The directory goes.                                                      *)
LEMMA RemoveErases ==
    ASSUME FilesInv, NEW p \in Workers, RemoveSession(p)
    PROVE  [Promise!Next]_(Promise!vars)
<1>0. PICK v : v = req[p].victim
  OBVIOUS
<1>1. v \in Sessions /\ UNCHANGED saved
  BY <1>0, FilesApart DEF RemoveSession, At, Holds, Purging
<1>2. CASE Removable(p, disk[v])
  <2>1. disk' = [disk EXCEPT ![v] = GoneDir] /\ disk[v].status = "open"
    BY <1>0, <1>2 DEF RemoveSession, Removable
  <2>2. disk'[v].status = "gone" /\ \A t \in Sessions \ {v} : disk'[t] = disk[t]
    BY <1>1, <2>1, PlainDirectories, FilesApart DEF DiskOK
  <2>3. Promise!Erase(v)
    BY <1>1, <2>1, <2>2 DEF Promise!Erase, OpenSessions
  <2> QED
    BY <1>1, <2>3 DEF Promise!Next
<1>3. CASE ~Removable(p, disk[v])
  BY <1>0, <1>1, <1>3, Unseen DEF RemoveSession, SameStatus
<1> QED
  BY <1>2, <1>3

(* An account keeps the result, once.                                       *)
LEMMA SaveKeepsOnce ==
    ASSUME ErasureInv, FilesInv, NEW p \in Workers, Save(p)
    PROVE  [Promise!Next]_(Promise!vars)
<1> DEFINE r == req[p]
<1>1. /\ r.state.rows \in Inputs /\ r.state \in StateFile /\ UNCHANGED disk
      /\ r.s \in Sessions /\ disk[r.s].status \in {"open", "gone"}
  BY FilesApart DEF Save, At, Holds, ErasureInv, Knows, Used
<1>2. CASE Keepable(r)
  <2>1. saved' = Append(saved, [calc |-> r.s, rows |-> r.state.rows, result |-> r.state.result])
    BY <1>2 DEF Save
  <2>2. r.state.result \in Inputs /\ \A i \in DOMAIN saved : saved[i].calc # r.s
    BY <1>1, <1>2 DEF Keepable, StateFile
  <2>3. Promise!Keep(r.s)
    BY <1>1, <2>1, <2>2 DEF Promise!Keep, OpenSessions
  <2> QED
    BY <1>1, <2>3 DEF Promise!Next
<1>3. CASE ~Keepable(r)
  BY <1>1, <1>3, Unseen DEF Save, SameStatus
<1> QED
  BY <1>2, <1>3

LEMMA PromisedStep ==
    ASSUME ErasureInv, FilesInv, [Next]_vars
    PROVE  [Promise!Next]_(Promise!vars)
<1>1. ASSUME UNCHANGED <<disk, saved>> PROVE UNCHANGED Promise!vars
  BY <1>1, Unseen DEF SameStatus
<1>2. ASSUME NEW p \in Workers, Step(p) PROVE [Promise!Next]_(Promise!vars)
  <2>1. CASE Sweep(p) \/ List(p) \/ Load(p) \/ Attach(p) \/ Answer(p)
    BY <1>1, <2>1 DEF Sweep, List, Load, Attach, Answer
  <2>2. CASE Unlink(p) \/ OpenTemporary(p) \/ Write(p) \/ Replace(p) \/ CleanUp(p)
    BY <2>2, WriterUnseen, Unseen
  <2>3. CASE RemoveSession(p) \/ Create(p) \/ Save(p)
    BY <2>3, RemoveErases, CreateStarts, SaveKeepsOnce
  <2> QED
    BY <1>2, <2>1, <2>2, <2>3 DEF Step
<1>3. CASE Tick
  BY <1>3, TickUnseen, Unseen
<1>4. ASSUME NEW p \in Workers,
             BeginSweep(p) \/ StartCalculation(p) \/ Review(p) \/ Discard(p)
               \/ ViewTargets(p) \/ Results(p) \/ SaveForm(p) \/ Complete(p) \/ Crash(p)
      PROVE  [Promise!Next]_(Promise!vars)
  BY <1>1, <1>4 DEF BeginSweep, StartCalculation, Review, Discard, ViewTargets, Results, SaveForm,
     Complete, Calculation, Begin, Crash
<1>5. CASE UNCHANGED vars
  BY <1>1, <1>5 DEF vars
<1> QED
  BY <1>2, <1>3, <1>4, <1>5 DEF Next

(* The temporary store and the accounts keep the promise of a one-time      *)
(* calculation: input that was deleted never comes back, and an account     *)
(* keeps a calculation once, with courses and a result that were confirmed, *)
(* for any number of calculations and requests at once.                     *)
THEOREM PromiseKept == Spec => KeepsPromise
<1>1. Init => Promise!Init
  BY DEF Init, Promise!Init, OpenSessions, Unused
<1>2. WorkspaceInv /\ [Next]_vars => [Promise!Next]_(Promise!vars)
  BY PromisedStep DEF WorkspaceInv
<1> QED
  BY <1>1, <1>2, WorkspaceSound, PTL DEF Spec, KeepsPromise, Promise!Spec
=============================================================================
