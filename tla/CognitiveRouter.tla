--------------------------- MODULE CognitiveRouter ---------------------------
(***************************************************************************)
(* The cognitive router (AlliagCognitiveRouter, src/rac/allo_router.rs):   *)
(* it is given Alliags and metrics one after the other, and routes intents *)
(* and reasoning by what it has at that moment.                            *)
(***************************************************************************)
EXTENDS ProtocolSelection, Sequences, SequencesExt

CONSTANTS
    Score,         \* values of the CI and CE metrics
    MaxConstraints \* bound: constraints of an intent

ASSUME ScoreAssumption == Score \subseteq Nat

Alliag == {"local", "remote", "alliha"}
IntentType == {"Command", "Approval", "Query", "Planning", "Negotiation"}
RoutePriority == {"critical", "high", "low", "background"}
\* What the constraints differ in: the value of one that is named "priority",
\* recognised or not, or that it has another name.
Constraint == RoutePriority \cup {"unrecognised", "other"}
Intent == [type : IntentType, constraints : BoundedSeq(Constraint, MaxConstraints)]

VARIABLES
    present,   \* the Alliags the router was given
    ci, ce,    \* the metrics, a set of at most one score each
    routed     \* history: what the router, as it stands, answered last, if anything

cognition == <<present, ci, ce, routed>>

CognitiveInit == present = {} /\ ci = {} /\ ce = {} /\ routed = {}

WithAlliag(a) == present' = present \cup {a} /\ routed' = {} /\ UNCHANGED <<ci, ce>>

UpdateCi(v) == ci' = {v} /\ routed' = {} /\ UNCHANGED <<present, ce>>
UpdateCe(v) == ce' = {v} /\ routed' = {} /\ UNCHANGED <<present, ci>>

\* Absent metrics count as zero.
Calculate(metrics) == IF metrics = {} THEN 0 ELSE CHOOSE v \in metrics : TRUE

\* Mutant: the second test looks at the other metric.
FromCiCeSwapped(c, e) == CASE c < 10 /\ e < 10 -> "StaticArtifact"
                           [] e < 10 /\ c >= 10 -> "ConaFem"
                           [] e >= 10 /\ c < 10 -> "Allio"
                           [] c > 70 /\ e >= 10 /\ e <= 70 -> "InferenceHeavy"
                           [] c >= 10 /\ c <= 70 /\ e > 70 -> "ExecutionHeavy"
                           [] OTHER -> "BalancedApe"

\* EntityClassification::from_ci_ce
FromCiCe(c, e) == CASE c < 10 /\ e < 10 -> "StaticArtifact"
                    [] c < 10 /\ e >= 10 -> "ConaFem"
                    [] c >= 10 /\ e < 10 -> "Allio"
                    [] c > 70 /\ e >= 10 /\ e <= 70 -> "InferenceHeavy"
                    [] c >= 10 /\ c <= 70 /\ e > 70 -> "ExecutionHeavy"
                    [] OTHER -> "BalancedApe"

ClassifyCurrentEntity == FromCiCe(Calculate(ci), Calculate(ce))

\* select_alliag_for_intent
SelectProtocolFor(type) ==
    CASE type \in {"Command", "Approval"} ->
             IF "alliha" \in present THEN "Racas" ELSE "Raci"
      [] type = "Query" -> IF "remote" \in present THEN "Racag"
                           ELSE IF "local" \in present THEN "Raci" ELSE "Racas"
      [] type = "Planning" -> "Raci"
      [] type = "Negotiation" -> IF "remote" \in present THEN "Racex" ELSE "Raci"

Endpoint(p) == CASE p = "Racag" -> "cloud-ai://inference"
                 [] p = "Racex" -> "cloud-ai://negotiation"
                 [] OTHER -> "none"

\* intent_to_priority: the loop passes over what it does not recognise.
PriorityOf(constraints) ==
    LET first == SelectInSeq(constraints, LAMBDA c : c \in RoutePriority)
    IN  IF first = 0 THEN "normal" ELSE constraints[first]

Decide(intent, p, priority) ==
    routed' = {[intent |-> intent,
                protocol |-> p, endpoint |-> Endpoint(p),
                ci_metrics |-> ci, ce_metrics |-> ce,
                classification |-> ClassifyCurrentEntity,
                priority |-> priority]}

RouteIntent(i) == /\ Decide(i, SelectProtocolFor(i.type), PriorityOf(i.constraints))
                  /\ UNCHANGED <<present, ci, ce>>

\* A reasoning result goes to the local Alliag to be compiled.
Reasoning == [type |-> "Reasoning", constraints |-> <<>>]
RouteReasoning == /\ Decide(Reasoning, "Raci", "normal")
                  /\ UNCHANGED <<present, ci, ce>>

CognitiveNext == \/ \E a \in Alliag : WithAlliag(a)
                 \/ \E v \in Score : UpdateCi(v) \/ UpdateCe(v)
                 \/ \E i \in Intent : RouteIntent(i)
                 \/ RouteReasoning

CognitiveSpec == CognitiveInit /\ [][CognitiveNext]_cognition

-----------------------------------------------------------------------------

\* Nothing is sent away, and no endpoint named, unless there is a remote Alliag;
\* an operator's command never leaves the device; a question goes to a human only
\* when no Alliag can answer; and what needs compiling goes where executables
\* come from (allo_router.rs:310).
RoutedWhereAllowed ==
    \A d \in routed :
        /\ IsRemote(d.protocol) => "remote" \in present
        /\ IsRemote(d.protocol) <=> d.endpoint # "none"
        /\ d.intent.type \in {"Command", "Approval"} => ~IsRemote(d.protocol)
        /\ d.intent.type = "Query" /\ d.protocol = "Racas" => present \subseteq {"alliha"}
        /\ d.intent.type \in {"Planning", "Reasoning"} => ProducesExecutable(d.protocol)

\* The classification splits the plane of the metrics the decision carries: it
\* says "execution" exactly when CE is significant and "inference" exactly when
\* CI is, on both sides of both thresholds (allo_router.rs:158).
ClassCoversMetrics ==
    \A d \in routed :
        /\ d.classification \notin {"StaticArtifact", "Allio"}
               <=> Calculate(d.ce_metrics) >= 10
        /\ d.classification \notin {"StaticArtifact", "ConaFem"}
               <=> Calculate(d.ci_metrics) >= 10

\* A decision has the priority of the intent's first recognised constraint, and
\* an unrecognised one before it does not hide it (allo_router.rs:355).
FirstPriorityWins ==
    \A d \in routed :
        LET c == d.intent.constraints IN
        IF \A k \in DOMAIN c : c[k] \notin RoutePriority THEN d.priority = "normal"
        ELSE \E k \in DOMAIN c : /\ c[k] = d.priority
                                 /\ \A j \in 1..(k - 1) : c[j] \notin RoutePriority

\* Every decision of the router, made at any stage of building it, is one that the
\* Alliags present, the metrics and the constraints justify.
DecisionsJustified == RoutedWhereAllowed /\ ClassCoversMetrics /\ FirstPriorityWins

=============================================================================
