--------------------------- MODULE MCMercariOrder ---------------------------
(* TLC instance of MercariOrder: five casts of jobs. *)
EXTENDS MercariOrder, TLC

CONSTANTS item, part    \* two lines

MCKey == SUBSET {item, part} \ {{}}
Opening(extra, status, n) ==
  [jobs |-> {"project", "push"} \cup extra, status |-> status, lapses |-> n]
MCOpenings == {Opening({"portal", "auto", "ingest", "lifecycle"}, "PAYMENT", 0),
               Opening({"auto", "ingest", "sweep"}, "PAYMENT", 1),
               Opening({"portal", "auto", "ingest", "sweep"}, "SHIPPING", 0),
               Opening({"portal", "lines"}, "SHIPPING", 1),
               Opening({"auto", "lines"}, "SHIPPING", 1)}
RunSymmetry == Permutations(Run)
=============================================================================
