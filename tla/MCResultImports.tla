--------------------------- MODULE MCResultImports ---------------------------
(* Three files of one source.  "list" names one program twice, has a line   *)
(* that is out of range and one that cannot be read; "one" and "portal"     *)
(* name one program each, so that two can be published side by side.  Each  *)
(* year admits to another set of programs.                                  *)
EXTENDS ResultImports, TLC

English == [campus |-> "main", name |-> "english", day |-> "DAY"]
Nursing == [campus |-> "main", name |-> "nursing", day |-> "DAY"]
NightNursing == [campus |-> "main", name |-> "nursing", day |-> "NIGHT"]

MCPrograms == {English, Nursing, NightNursing}
MCTracks == {<<1, English>>, <<1, Nursing>>, <<2, NightNursing>>}

MCSource == [f \in Files |-> "source"]
MCLinesOf == [f \in Files |->
    CASE f = "list" -> {"list1", "list2", "list3", "list4", "list5"}
      [] f = "one" -> {"one1"} [] f = "portal" -> {"portal1"}]

Line(name, day, issues) == [name |-> name, campus |-> None, day |-> day, issues |-> issues]
MCText == [l \in UNION {LinesOf[f] : f \in Files} |->
    CASE l = "list1" -> Line("english", "UNKNOWN", {})
      [] l = "list2" -> Line("english", "DAY", {"SCORE_BASIS_REVIEW_REQUIRED", "SCORE_OUT_OF_RANGE"})
      [] l = "list3" -> Line("nursing", "DAY", {})
      [] l = "list4" -> Line("nursing", "NIGHT", {})
      [] l = "list5" -> Line("nursing", "DAY", {"INVALID_VALUE"})
      [] l = "one1" -> Line("english", "UNKNOWN", {})
      [] l = "portal1" -> Line("nursing", "DAY", {})]

Symmetry == Permutations(Requests)
=============================================================================
