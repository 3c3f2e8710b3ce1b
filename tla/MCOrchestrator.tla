--------------------------- MODULE MCOrchestrator ---------------------------
(***************************************************************************)
(* Instances of Orchestrator for TLC.  The Keys instance has several ids,  *)
(* a salting strategy and a guard smaller than the keys; the Load instance *)
(* has one id and everything that refuses it: pressure, breaker, resolver. *)
(***************************************************************************)
EXTENDS Orchestrator

KeysQpid     == 0..3
KeysRequest  == [qpid : {0, 1, 2}, domain : {"trade"}, scheme : {"rac"}]
\* Salting permutes the keys, so a salted key may equal another's raw id.
KeysSaltedKey == [s \in Strategy |-> [r \in KeysRequest |->
                      IF s = "salting" THEN 3 - r.qpid ELSE r.qpid]]
KeysHints    == [s \in Strategy |-> {"none"}]

LoadQpid     == 0..1
LoadRequest  == {[qpid |-> 0, domain |-> "trade", scheme |-> "http"],
                 [qpid |-> 1, domain |-> "trade", scheme |-> "none"]}
LoadSaltedKey == [s \in Strategy |-> [r \in LoadRequest |-> r.qpid]]
LoadHints    == [s \in Strategy |-> {"none", "Keep", "ForceLocal", "ForceRemote"}]

Schemes      == {"rac", "http", "mcp"}
FullTable    == [x \in Schemes |-> "amo.100"]
\* A reload may install a table with no pattern for a scheme.
BareTable    == [FullTable EXCEPT !["http"] = None]
OneTable     == {FullTable}
TwoTables    == {FullTable, BareTable}

=============================================================================
