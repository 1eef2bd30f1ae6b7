--------------------------- MODULE MCRuleLifecycle ---------------------------
(* One track.  Seeded runs start with rules that separate requests have    *)
(* already taken to a stage each, so that the interesting commits are near *)
(* the start: review at 0, the stages at 1, 2, 4, 5, 6, the golden run at  *)
(* 3, named like its rule; the administrator is "a" throughout and the     *)
(* reviewer "b".                                                           *)
EXTENDS RuleLifecycle, TLC

CONSTANT Seeds   \* the stage of each rule at the start: 0 no rule, 1 DRAFT, 6 PUBLISHED

MCTrackOf == [c \in Contents |-> "track"]
MCUsable == Extractable \X Sources
Symmetry == Permutations(Requests) \cup Permutations(Contents) \cup Permutations(Sources)

At == <<1, 2, 4, 5, 6>>
SeedText == CHOOSE c \in Extractable : TRUE

(* Which rule is which makes no difference: "r1" is the one that may be     *)
(* published, "r3" the one that may be missing, for a clone to take.  In   *)
(* the last of the seeds "r2" may still be approved, by two requests.      *)
ApprovedSeeds ==
    {stage \in [Rules -> {0, 5, 6}] :
        stage["r1"] \in {5, 6} /\ stage["r2"] = 5 /\ stage["r3"] \in {0, 5}} \cup
    {stage \in [Rules -> {0, 4, 6}] : stage["r1"] = 6 /\ stage["r2"] = 4 /\ stage["r3"] = 0}
TestedSeeds == {stage \in [Rules -> {4, 6}] : stage["r2"] = 4}

SeedRow(r, n) ==
    [status |-> IF n = 1 THEN "DRAFT" ELSE Lifecycle[n - 1], content |-> SeedText, writer |-> "a",
     verified |-> n >= 3, golden |-> IF n >= 4 THEN r ELSE None, approvedAt |-> IF n >= 5 THEN At[4] ELSE None]

SeedEvent(r, i) ==
    [actor |-> IF i \in {2, 3} THEN "a" ELSE None, at |-> At[i], content |-> SeedText, source |-> source,
     review |-> IF i \in {2, 3} THEN "b" ELSE None, golden |-> IF i = 3 THEN r ELSE None]

SeedInit ==
    \E stage \in Seeds :
        /\ source \in Sources
        /\ rule = [r \in Rules |-> IF stage[r] = 0 THEN None ELSE SeedRow(r, stage[r])]
        /\ creator = [r \in Rules |-> IF stage[r] = 0 THEN None ELSE "a"]
        /\ audit = [r \in Rules |-> [s \in Stages |->
               LET i == CHOOSE i \in 1..5 : Lifecycle[i] = s
               IN IF i < stage[r] THEN SeedEvent(r, i) ELSE None]]
        /\ review = [r \in Rules |-> [v \in Reviewers |->
               IF v = "b" /\ stage[r] > 1 THEN [at |-> 0, content |-> SeedText, source |-> source] ELSE None]]
        /\ artifact = [g \in Artifacts |->
               IF g \in Rules /\ stage[g] >= 4
               THEN [rule |-> g, review |-> "b", passed |-> TRUE, at |-> 3,
                     content |-> SeedText, source |-> source]
               ELSE None]
        /\ req = [p \in Requests |-> None]

SeededSpec == SeedInit /\ [][Next]_vars
=============================================================================
