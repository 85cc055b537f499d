---------------------------- MODULE MCSsiNetwork ----------------------------
(* Five nodes of three operators: a rover R and mission operations M of the  *)
(* science mission, which owns the bundles, a ground station G, and two      *)
(* relays of one operator, of which V signs and B only forwards.             *)
EXTENDS SsiNetwork

MCNodes == {"M", "G", "V", "B", "R"}
MCOperators == {"science", "ground", "luna"}
MCOpOf == [n \in MCNodes |-> CASE n \in {"M", "R"} -> "science"
                                [] n = "G" -> "ground"
                                [] OTHER -> "luna"]
MCRoot == [op \in MCOperators |-> <<"root", op>>]
MCIssuer == [op \in MCOperators |-> <<"issuer", op>>]
MCNodeKey == [n \in MCNodes |-> <<"node", n>>]
MCNewKey == <<"new", "V">>
MCKeys == {MCRoot[op] : op \in MCOperators} \cup {MCIssuer[op] : op \in MCOperators}
            \cup {MCNodeKey[n] : n \in MCNodes} \cup {MCNewKey}
MCAnchorEid == [k \in {MCRoot[op] : op \in MCOperators} |-> "none"]
MCRate == [op \in MCOperators |-> CASE op = "science" -> 0 [] op = "ground" -> 1 [] OTHER -> 2]

Contact(from, to, start, end) ==
  [from |-> from, to |-> to, start |-> start, end |-> end, rate |-> 4, owlt |-> 1]

\* Contacts that are always there, and the passes of the relays, any of which
\* may be missing from the plan.
Terrestrial == <<Contact("G", "M", 0, 40), Contact("M", "G", 0, 40)>>
Passes == <<Contact("R", "V", 1, 5), Contact("R", "B", 2, 7), Contact("B", "G", 4, 14),
            Contact("V", "G", 5, 9), Contact("G", "V", 8, 13), Contact("V", "R", 10, 17),
            Contact("R", "V", 12, 20), Contact("V", "G", 16, 26)>>

MCPlans ==
  {Terrestrial \o SelectSeq(Passes, LAMBDA c : c \notin missing) :
     missing \in {m \in SUBSET ToSet(Passes) : Cardinality(m) <= 2}}

Sent(label, src, dst, created) ==
  [label |-> label, src |-> src, dst |-> dst, bytes |-> 4, created |-> created]

MCTraffics ==
  {<<Sent("image", "R", "M", a), Sent("late image", "R", "M", b), Sent("command", "M", "R", c)>> :
     a \in {1, 2}, b \in {3, 12}, c \in {1, 7}}

MCCompromises ==
  {c \in [stolenAt : {2, 6, 12}, detectAt : {3, 7, 15}] : c.stolenAt < c.detectAt}
=============================================================================
