---------------------------- MODULE Eligibility ----------------------------
(***************************************************************************)
(* The restricted condition language of the eligibility rules and the two  *)
(* policies built on it: eligibility.py and application_policies.py.       *)
(*                                                                         *)
(* A condition is the sequence of the nodes of a tree, the parts of a      *)
(* node before it and the root last: [op |-> "leaf", fact, holds], where   *)
(* holds is the set of the values of the fact that satisfy the comparison, *)
(* or [op |-> "all" | "any" | "not", of] with the set of its parts.        *)
(* Facts are a function from fact names to a value or Missing.  A rule is  *)
(* [cases, default]: a sequence of [when, status] and a status.            *)
(***************************************************************************)
EXTENDS Naturals, Sequences, FiniteSets

CONSTANT Missing      \* a fact the student did not state

Outcomes == {"MATCH", "NO_MATCH", "UNKNOWN"}
ScoreAllowed == {"ELIGIBLE", "CONDITIONALLY_ELIGIBLE"}

(* Leaves of the tree: the outcome of one comparison.                      *)
Compared(leaf, facts) ==
    IF facts[leaf.fact] = Missing THEN "UNKNOWN"
    ELSE IF facts[leaf.fact] \in leaf.holds THEN "MATCH" ELSE "NO_MATCH"

Negated(outcome) ==
    CASE outcome = "MATCH" -> "NO_MATCH"
      [] outcome = "NO_MATCH" -> "MATCH"
      [] OTHER -> "UNKNOWN"

Parts(node) == IF node.op = "leaf" THEN {} ELSE node.of

(* _parse_condition: a group has parts, a negation one, and a comparison   *)
(* names a fact there is.                                                  *)
ValidCondition(c, names) ==
    /\ Len(c) \in Nat \ {0} /\ DOMAIN c = 1..Len(c)
    /\ \A i \in DOMAIN c :
         /\ c[i].op \in {"leaf", "all", "any", "not"}
         /\ Parts(c[i]) \subseteq 1..(i - 1)
         /\ c[i].op = "leaf" => c[i].fact \in names
         /\ c[i].op # "leaf" => Parts(c[i]) # {}
         /\ c[i].op = "not" => \E j \in 1..(i - 1) : Parts(c[i]) = {j}

(* _evaluate_condition: the strong three-valued logic, at each node from   *)
(* the outcomes of its parts.                                              *)
NodeOutcome(node, of, facts) ==
    CASE node.op = "leaf" -> Compared(node, facts)
      [] node.op = "not" -> Negated(CHOOSE o \in of : TRUE)
      [] node.op = "all" -> IF "NO_MATCH" \in of THEN "NO_MATCH"
                            ELSE IF "UNKNOWN" \in of THEN "UNKNOWN" ELSE "MATCH"
      [] node.op = "any" -> IF "MATCH" \in of THEN "MATCH"
                            ELSE IF "UNKNOWN" \in of THEN "UNKNOWN" ELSE "NO_MATCH"

NodeOutcomes(c, facts) ==
    LET outcome[i \in DOMAIN c] ==
          NodeOutcome(c[i], {outcome[j] : j \in Parts(c[i])}, facts)
    IN  outcome
Outcome(c, facts) == NodeOutcomes(c, facts)[Len(c)]

(* The facts an undecided condition waits for.                             *)
NodeMissing(node, outcome, of) ==
    IF outcome # "UNKNOWN" THEN {} ELSE IF node.op = "leaf" THEN {node.fact} ELSE UNION of

MissingFacts(c, facts) ==
    LET missing[i \in DOMAIN c] ==
          NodeMissing(c[i], NodeOutcomes(c, facts)[i], {missing[j] : j \in Parts(c[i])})
    IN  missing[Len(c)]

Decide_DefaultDespiteUnknown(rule, facts) ==
    LET matched == {i \in DOMAIN rule.cases : Outcome(rule.cases[i].when, facts) = "MATCH"}
    IN  IF matched # {}
        THEN LET first == CHOOSE i \in matched : \A j \in matched : i <= j
             IN  [status |-> rule.cases[first].status, case |-> first, missing |-> {}]
        ELSE [status |-> rule.default, case |-> 0, missing |-> {}]

(* _evaluate_eligibility_payload: the first case that matches decides; the *)
(* default applies only when no case waits for a fact.                     *)
Decide(rule, facts) ==
    LET outcome == [i \in DOMAIN rule.cases |-> Outcome(rule.cases[i].when, facts)]
        matched == {i \in DOMAIN rule.cases : outcome[i] = "MATCH"}
        missing == UNION {MissingFacts(rule.cases[i].when, facts) : i \in DOMAIN rule.cases}
    IN  IF matched # {}
        THEN LET first == CHOOSE i \in matched : \A j \in matched : i <= j
             IN  [status |-> rule.cases[first].status, case |-> first, missing |-> {}]
        ELSE IF missing # {}
        THEN [status |-> "INSUFFICIENT_DATA", case |-> 0, missing |-> missing]
        ELSE [status |-> rule.default, case |-> 0, missing |-> {}]

-----------------------------------------------------------------------------
(* A disqualification rule: an eligibility rule over sensitive facts with  *)
(* two case statuses and two defaults.                                     *)
Sensitive(c) == \A i \in DOMAIN c : c[i].op = "leaf" => c[i].holds \in {{TRUE}, {FALSE}}

(* validate_disqualification_rule_payload                                  *)
ValidDisqualification(rule) ==
    /\ \A i \in DOMAIN rule.cases : /\ rule.cases[i].status \in {"INELIGIBLE", "NEEDS_REVIEW"}
                                    /\ Sensitive(rule.cases[i].when)
    /\ rule.default \in {"ELIGIBLE", "NEEDS_REVIEW"}

(* evaluate_disqualification                                               *)
Disqualification(rule, facts) ==
    LET status == Decide(rule, facts).status
    IN  CASE status = "ELIGIBLE" -> "CLEAR"
          [] status = "INELIGIBLE" -> "DISQUALIFIED"
          [] OTHER -> status

-----------------------------------------------------------------------------
(* A multiple application policy: [total, campus, forbidden], with limits  *)
(* or 0 for none, and a set of pairs of tracks.  A choice is               *)
(* [track, institution, campus]; history is the sequence of the choices a  *)
(* student has made.                                                       *)
Unlimited == 0

Apply_CampusOffByOne(policy, candidate, history, complete) ==
    LET same == {i \in DOMAIN history : history[i].institution = candidate.institution}
        campus == {i \in same : history[i].campus = candidate.campus}
        pairs == {{history[i].track, candidate.track} : i \in same}
        blocked == \/ pairs \cap policy.forbidden # {}
                   \/ policy.total # Unlimited /\ Cardinality(same) + 1 > policy.total
                   \/ policy.campus # Unlimited /\ Cardinality(campus) > policy.campus
    IN  IF ~complete THEN "NEEDS_REVIEW" ELSE IF blocked THEN "BLOCKED" ELSE "ALLOWED"

(* evaluate_multiple_application                                           *)
Apply(policy, candidate, history, complete) ==
    LET same == {i \in DOMAIN history : history[i].institution = candidate.institution}
        campus == {i \in same : history[i].campus = candidate.campus}
        pairs == {{history[i].track, candidate.track} : i \in same}
        blocked == \/ pairs \cap policy.forbidden # {}
                   \/ policy.total # Unlimited /\ Cardinality(same) + 1 > policy.total
                   \/ policy.campus # Unlimited /\ Cardinality(campus) + 1 > policy.campus
    IN  IF ~complete THEN "NEEDS_REVIEW" ELSE IF blocked THEN "BLOCKED" ELSE "ALLOWED"

=============================================================================
