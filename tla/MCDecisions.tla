----------------------------- MODULE MCDecisions -----------------------------
(***************************************************************************)
(* The decisions the crate takes from tables, thresholds and text: where a *)
(* request runs, which protocol carries an SIO, where an intent goes and   *)
(* what a URI means.  A behaviour explores one of them; the others stay at *)
(* an input of theirs.                                                     *)
(***************************************************************************)
EXTENDS RoutingQueries, ProtocolQueries, CognitiveRouter, Ingress

VARIABLE topic   \* the one explored

AnyQuery == [ctx |-> [queue |-> 0, cpu |-> 0, peers |-> <<>>], policy |-> "LocalOnly",
             trade |-> FALSE, strategy |-> NoStrategy]
AnyQuestion == CHOOSE q \in Question : TRUE

MCInit == /\ \/ /\ topic = "routing" /\ RoutingInit /\ question = AnyQuestion
             \/ /\ topic = "protocol" /\ ProtocolInit /\ query = AnyQuery
             \/ /\ topic \in {"cognition", "uri"}
                /\ query = AnyQuery /\ question = AnyQuestion
          /\ CognitiveInit /\ IngressInit

MCNext ==
    /\ UNCHANGED topic
    /\ \/ topic = "routing" /\ RoutingNext /\ UNCHANGED <<question, cognition, uri>>
       \/ topic = "protocol" /\ ProtocolNext /\ UNCHANGED <<query, cognition, uri>>
       \/ topic = "cognition" /\ CognitiveNext /\ UNCHANGED <<query, question, uri>>
       \/ topic = "uri" /\ IngressNext /\ UNCHANGED <<query, question, cognition>>

MCSpec == MCInit /\ [][MCNext]_<<topic, query, question, cognition, uri>>

=============================================================================
