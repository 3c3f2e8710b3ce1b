--------------------------- MODULE DecisionsProofs ---------------------------
(***************************************************************************)
(* Proofs about the decisions the crate takes from tables, thresholds and  *)
(* text, for every load, view, id, latency, score, list of constraints and *)
(* URI.                                                                    *)
(***************************************************************************)
EXTENDS RoutingQueries, ProtocolQueries, CognitiveRouter, Ingress, DataLemmas

-----------------------------------------------------------------------------
(* Protocols.                                                              *)

\* The kernel's ids are those below the bound of the recommendation.
LEMMA KernelIds ==
    ASSUME NEW n \in Nat
    PROVE  Handler(n) = "kernel-handler" <=> n < 1000
<1> DEFINE a == n \in 0..999
           b == n \in 1000..1999
           c == n \in 2000..2999
<1>1. a <=> n < 1000
  OBVIOUS
<1>2. /\ a => ~b /\ ~c 
      /\ b => ~c
  OBVIOUS
<1>3. Handler(n) = CASE a -> "kernel-handler"
                     [] b -> "omina-handler"
                     [] c -> "aura-handler"
                     [] OTHER -> "default-handler"
  BY Zenon DEF Handler
<1>. HIDE DEF a, b, c
<1>4. CASE a
  BY <1>1, <1>2, <1>3, <1>4
<1>5. CASE ~a
  BY <1>1, <1>2, <1>3, <1>5
<1>. QED
  BY <1>4, <1>5

\* The four tables agree on every question.
LEMMA AnswersAgree ==
    ASSUME question \in Question
    PROVE  ProtocolTablesAgree
<1>1. question.id \in Nat /\ question.latency_ns \in Nat
      /\ question.type \in SioType /\ question.remote \in BOOLEAN
      /\ question.same_process \in BOOLEAN
  BY QuestionAssumption DEF Question
<1> DEFINE id == question.id
           type == question.type
           remote == question.remote
           same == question.same_process
           latency == question.latency_ns
<1>. HIDE DEF id, type, remote, same, latency
<1>2. KernelIntentsLocal
  <2>1. type = "Intent" => (Recommended = "Raci" <=> id < 1000)
    BY DEF type, id, Recommended, RecommendedProtocol
  <2>2. Handler(id) = "kernel-handler" <=> id < 1000
    BY <1>1, KernelIds DEF id
  <2>. QED
    BY <2>1, <2>2 DEF KernelIntentsLocal, type, id
<1>3. SelectorsAgree
  BY <1>1 DEF SelectorsAgree, Selected, SelectProtocol, Planned, PlanProtocol, Recommended,
        RecommendedProtocol, RequiresCompilation, SioType
<1>4. ExecuteOnExecutors
  BY <1>1 DEF ExecuteOnExecutors, EnvelopeProtocol, Planned, PlanProtocol, Recommended,
        RecommendedProtocol, RequiresCompilation, SioType, ProducesExecutable
<1>5. ChannelOrDirect
  BY <1>1 DEF ChannelOrDirect, Planned, PlanProtocol, Recommended, RecommendedProtocol,
        Selected, SelectProtocol, RequiresCompilation, SioType, HasChannel
<1>. QED
  BY <1>2, <1>3, <1>4, <1>5 DEF ProtocolTablesAgree

-----------------------------------------------------------------------------
(* Cognition.                                                              *)

\* The priority of a list of constraints is that of the first one that is recognised.
LEMMA PriorityIsFirst ==
    ASSUME NEW c \in Seq(Constraint)
    PROVE  IF \A k \in DOMAIN c : c[k] \notin RoutePriority THEN PriorityOf(c) = "normal"
           ELSE \E k \in DOMAIN c : /\ c[k] = PriorityOf(c)
                                    /\ \A j \in 1..(k - 1) : c[j] \notin RoutePriority
<1> DEFINE I == {i \in 1..Len(c) : c[i] \in RoutePriority}
           first == IF I # {} THEN Min(I) ELSE 0
<1>1. Len(c) \in Nat /\ DOMAIN c = 1..Len(c)
  BY LenProperties
<1>2. PriorityOf(c) = IF first = 0 THEN "normal" ELSE c[first]
  BY DEF PriorityOf, SelectInSeq
<1>3. /\ first = 0 => I = {}
      /\ first # 0 => first \in I /\ \A j \in 1..(first - 1) : j \notin I
  <2>. HIDE DEF I
  <2>1. I \subseteq 1..Len(c)
    BY DEF I
  <2>. QED
    BY <1>1, <2>1, FirstPlace
<1>. HIDE DEF first
<1>4. CASE first = 0
  BY <1>1, <1>2, <1>3, <1>4
<1>5. CASE first # 0
  <2>1. first \in DOMAIN c /\ c[first] \in RoutePriority /\ c[first] = PriorityOf(c)
    BY <1>1, <1>2, <1>3, <1>5
  <2>2. ASSUME NEW j \in 1..(first - 1)
        PROVE  c[j] \notin RoutePriority
    <3>1. j \in 1..Len(c) /\ j \notin I
      BY <1>1, <1>3, <1>5, <2>1
    <3>. QED
      BY <3>1
  <2>. QED
    BY <2>1, <2>2
<1>. QED
  BY <1>4, <1>5

\* The classification tells the four sides of the two thresholds apart.
LEMMA ClassSplits ==
    ASSUME NEW c \in Nat, NEW e \in Nat
    PROVE  /\ FromCiCe(c, e) \notin {"StaticArtifact", "Allio"} <=> e >= 10
           /\ FromCiCe(c, e) \notin {"StaticArtifact", "ConaFem"} <=> c >= 10
BY DEF FromCiCe

\* What a decision rests on, and the decisions.
MetricsOK == present \subseteq Alliag /\ ci \subseteq Score /\ ce \subseteq Score

CInv == MetricsOK /\ DecisionsJustified

\* A metric is a number, given or not.
LEMMA MetricsAreNats ==
    ASSUME NEW m, m \subseteq Score
    PROVE  Calculate(m) \in Nat
BY ScoreAssumption DEF Calculate

\* One decision is justified when it is made.
LEMMA DecideStep ==
    ASSUME MetricsOK, NEW i, NEW p, i.constraints \in Seq(Constraint),
           UNCHANGED <<present, ci, ce>>,
           Decide(i, p, PriorityOf(i.constraints)),
           p \in RacProtocol,
           IsRemote(p) => "remote" \in present /\ p \in {"Racag", "Racex"},
           i.type \in {"Command", "Approval"} => ~IsRemote(p),
           i.type = "Query" /\ p = "Racas" => present \cap {"local", "remote"} = {},
           i.type \in {"Planning", "Reasoning"} => ProducesExecutable(p)
    PROVE  CInv'
<1> DEFINE d == [intent |-> i, protocol |-> p, endpoint |-> Endpoint(p),
                 ci_metrics |-> ci, ce_metrics |-> ce,
                 classification |-> ClassifyCurrentEntity,
                 priority |-> PriorityOf(i.constraints)]
<1>1. routed' = {d}
  BY DEF Decide
<1>2. /\ d.intent = i /\ d.protocol = p /\ d.endpoint = Endpoint(p)
      /\ d.ci_metrics = ci /\ d.ce_metrics = ce
      /\ d.classification = ClassifyCurrentEntity /\ d.priority = PriorityOf(i.constraints)
  OBVIOUS
<1>. HIDE DEF d
<1>3. IsRemote(p) <=> Endpoint(p) # "none"
  BY DEF IsRemote, Endpoint, RacProtocol
<1>4. RoutedWhereAllowed'
  BY <1>1, <1>2, <1>3 DEF MetricsOK, Alliag, RoutedWhereAllowed
<1>5. ClassCoversMetrics'
  <2>1. Calculate(ci) \in Nat /\ Calculate(ce) \in Nat
    BY MetricsAreNats DEF MetricsOK
  <2>. QED
    BY <1>1, <1>2, <2>1, ClassSplits DEF ClassCoversMetrics, ClassifyCurrentEntity
<1>6. FirstPriorityWins'
  BY <1>1, <1>2, PriorityIsFirst DEF FirstPriorityWins
<1>. QED
  BY <1>4, <1>5, <1>6 DEF CInv, MetricsOK, DecisionsJustified

\* What is built on forgets the last decision, and a new one is justified.
LEMMA CognitiveStep ==
    ASSUME CInv, [CognitiveNext]_cognition
    PROVE  CInv'
<1>1. ASSUME NEW a \in Alliag, WithAlliag(a)
      PROVE  CInv'
  BY <1>1 DEF WithAlliag, CInv, MetricsOK, DecisionsJustified, RoutedWhereAllowed,
        ClassCoversMetrics, FirstPriorityWins
<1>2. ASSUME NEW v \in Score, UpdateCi(v) \/ UpdateCe(v)
      PROVE  CInv'
  BY <1>2 DEF UpdateCi, UpdateCe, CInv, MetricsOK, DecisionsJustified, RoutedWhereAllowed,
        ClassCoversMetrics, FirstPriorityWins
<1>3. ASSUME NEW i \in Intent, RouteIntent(i)
      PROVE  CInv'
  <2> DEFINE p == SelectProtocolFor(i.type)
  <2>1. i.type \in IntentType /\ i.constraints \in Seq(Constraint)
    BY DEF Intent, BoundedSeq, SeqOf
  <2>2. /\ p \in RacProtocol
        /\ IsRemote(p) => "remote" \in present /\ p \in {"Racag", "Racex"}
        /\ i.type \in {"Command", "Approval"} => ~IsRemote(p)
        /\ i.type \in {"Planning", "Reasoning"} => ProducesExecutable(p)
    BY <2>1 DEF SelectProtocolFor, RacProtocol, IsRemote, ProducesExecutable, IntentType
  <2>3. i.type = "Query" /\ p = "Racas" => present \cap {"local", "remote"} = {}
    BY <2>1 DEF SelectProtocolFor
  <2>. QED
    BY <1>3, <2>1, <2>2, <2>3, DecideStep DEF RouteIntent, CInv
<1>4. CASE RouteReasoning
  <2>1. /\ Reasoning.constraints = << >> /\ << >> \in Seq(Constraint)
        /\ Reasoning.type = "Reasoning"
    BY EmptySeq DEF Reasoning
  <2>2. PriorityOf(<< >>) = "normal"
    <3>1. \A k \in DOMAIN << >> : << >>[k] \notin RoutePriority
      OBVIOUS
    <3>. QED
      BY <2>1, <3>1, PriorityIsFirst
  <2>. QED
    BY <1>4, <2>1, <2>2, DecideStep
       DEF RouteReasoning, CInv, RacProtocol, IsRemote, ProducesExecutable
<1>5. CASE UNCHANGED cognition
  BY <1>5 DEF cognition, CInv, MetricsOK, DecisionsJustified, RoutedWhereAllowed,
        ClassCoversMetrics, FirstPriorityWins
<1>. QED
  BY <1>1, <1>2, <1>3, <1>4, <1>5 DEF CognitiveNext

-----------------------------------------------------------------------------
(* Routing.                                                                *)

\* Of the places with the least value, the first.
LEMMA FirstLeast ==
    ASSUME NEW n \in Nat, n # 0, NEW m \in [1..n -> Nat],
           NEW I, I = {i \in 1..n : m[i] = Min({m[j] : j \in 1..n})},
           NEW k, k = IF I # {} THEN Min(I) ELSE 0
    PROVE  /\ k \in 1..n
           /\ \A j \in 1..n : m[k] <= m[j]
<1> DEFINE M == {m[j] : j \in 1..n}
<1>1. M \subseteq Nat /\ M # {}
  OBVIOUS
<1>2. Min(M) \in M /\ \A y \in M : Min(M) <= y
  BY <1>1, MinOfNats
<1>3. I \subseteq 1..n /\ I # {}
  BY <1>2
<1>4. k \in I
  BY <1>3, FirstPlace
<1>. QED
  BY <1>2, <1>3, <1>4

\* The requests there are.
Query == [ctx : Context, policy : RoutingPolicy, trade : BOOLEAN,
          strategy : {NoStrategy, Trading} \cup OtherStrategy]

\* What is known of a view.
LEMMA ViewFacts ==
    ASSUME NEW v \in Views
    PROVE  /\ Len(v) \in Nat /\ DOMAIN v = 1..Len(v)
           /\ v = << >> <=> Len(v) = 0
           /\ \A i \in 1..Len(v) : v[i].node = i /\ v[i].queue \in Nat /\ v[i].cpu \in Nat
<1>1. v \in Seq(Peer) /\ \A i \in DOMAIN v : v[i].node = i
  BY DEF Views, SeqOf
<1>2. Len(v) \in Nat /\ DOMAIN v = 1..Len(v) /\ (v = << >> <=> Len(v) = 0)
  BY <1>1, LenProperties, EmptySeq
<1>3. \A i \in 1..Len(v) : v[i] \in Peer
  BY <1>1, ElementOfSeq
<1>. QED
  BY <1>1, <1>2, <1>3, LoadAssumption DEF Peer

\* The peer with the least score, and the one with the shortest queue.
LEMMA LeastScore ==
    ASSUME NEW v \in Views, v # << >>
    PROVE  /\ Least(v, NodeScore) \in 1..Len(v)
           /\ \A j \in 1..Len(v) : NodeScore(v[Least(v, NodeScore)]) <= NodeScore(v[j])
<1> DEFINE n == Len(v)
           m == [i \in 1..n |-> NodeScore(v[i])]
           I == {i \in 1..n : m[i] = Min({m[j] : j \in 1..n})}
           k == IF I # {} THEN Min(I) ELSE 0
<1>1. n \in Nat /\ n # 0 /\ DOMAIN v = 1..n
  BY ViewFacts
<1>2. m \in [1..n -> Nat]
  BY ViewFacts DEF NodeScore
<1>3. {m[j] : j \in 1..n} = {NodeScore(v[i]) : i \in DOMAIN v}
  BY <1>1
<1>4. I = {i \in 1..n : NodeScore(v[i]) = Min({NodeScore(v[j]) : j \in DOMAIN v})}
  BY <1>3
<1>5. Least(v, NodeScore) = k
  BY <1>4, Zenon DEF Least, SelectInSeq
<1>6. k \in 1..n /\ \A j \in 1..n : m[k] <= m[j]
  <2>. HIDE DEF m, n
  <2>. QED
    BY <1>1, <1>2, FirstLeast
<1>. QED
  BY <1>5, <1>6

LEMMA LeastQueue ==
    ASSUME NEW v \in Views, v # << >>
    PROVE  /\ Least(v, Queue) \in 1..Len(v)
           /\ \A j \in 1..Len(v) : v[Least(v, Queue)].queue <= v[j].queue
<1> DEFINE n == Len(v)
           m == [i \in 1..n |-> Queue(v[i])]
           I == {i \in 1..n : m[i] = Min({m[j] : j \in 1..n})}
           k == IF I # {} THEN Min(I) ELSE 0
<1>1. n \in Nat /\ n # 0 /\ DOMAIN v = 1..n
  BY ViewFacts
<1>2. m \in [1..n -> Nat]
  BY ViewFacts DEF Queue
<1>3. {m[j] : j \in 1..n} = {Queue(v[i]) : i \in DOMAIN v}
  BY <1>1
<1>4. I = {i \in 1..n : Queue(v[i]) = Min({Queue(v[j]) : j \in DOMAIN v})}
  BY <1>3
<1>5. Least(v, Queue) = k
  BY <1>4, Zenon DEF Least, SelectInSeq
<1>6. k \in 1..n /\ \A j \in 1..n : m[k] <= m[j]
  <2>. HIDE DEF m, n
  <2>. QED
    BY <1>1, <1>2, FirstLeast
<1>7. \A j \in 1..n : Queue(v[k]) <= Queue(v[j])
  BY <1>6
<1>. HIDE DEF k
<1>8. ASSUME NEW j \in 1..n
      PROVE  v[k].queue <= v[j].queue
  <2>1. v[k].queue \in Nat /\ v[j].queue \in Nat
    BY <1>1, <1>6, ViewFacts
  <2>2. 10 * v[k].queue <= 10 * v[j].queue
    BY <1>7 DEF Queue
  <2>. QED
    BY <2>1, <2>2
<1>. QED
  BY <1>5, <1>6, <1>8

\* The fallback is the first peer with room, if there is one.
LEMMA FallbackFinds ==
    ASSUME NEW c \in Context
    PROVE  \/ /\ FallbackRemote(c) = Local
              /\ \A i \in DOMAIN c.peers : ~(c.peers[i].queue < 70)
           \/ \E i \in DOMAIN c.peers : /\ FallbackRemote(c) = Remote(i)
                                        /\ c.peers[i].queue < 70
<1> DEFINE v == c.peers
           I == {i \in 1..Len(v) : v[i].queue < 70}
           k == IF I # {} THEN Min(I) ELSE 0
<1>1. v \in Views
  BY DEF Context
<1>2. FallbackRemote(c) = IF k = 0 THEN Local ELSE Remote(v[k].node)
  BY DEF FallbackRemote, SelectInSeq
<1>3. Len(v) \in Nat /\ DOMAIN v = 1..Len(v) /\ \A i \in 1..Len(v) : v[i].node = i
  BY <1>1, ViewFacts
<1>4. I \subseteq 1..Len(v)
  OBVIOUS
<1>5. /\ k = 0 => I = {}
      /\ k # 0 => k \in I
  <2>. HIDE DEF I
  <2>. QED
    BY <1>3, <1>4, FirstPlace
<1>. HIDE DEF k
<1>6. CASE k = 0
  BY <1>2, <1>3, <1>5, <1>6
<1>7. CASE k # 0
  BY <1>2, <1>3, <1>5, <1>7
<1>. QED
  BY <1>6, <1>7

\* The best node has a shorter queue, if its score is less than the local queue.
LEMMA BestFinds ==
    ASSUME NEW c \in Context
    PROVE  \/ SelectBestNode(c) = Local
           \/ \E i \in DOMAIN c.peers :
                  SelectBestNode(c) = Remote(i) /\ c.peers[i].queue < c.queue
<1>1. c.peers \in Views /\ c.queue \in Nat
  BY LoadAssumption DEF Context
<1>2. CASE c.peers = << >>
  BY <1>2 DEF SelectBestNode
<1>3. CASE c.peers # << >>
  <2> DEFINE i == Least(c.peers, NodeScore)
  <2>1. i \in 1..Len(c.peers)
    BY <1>1, <1>3, LeastScore
  <2>2. SelectBestNode(c) = IF NodeScore(c.peers[i]) < 10 * c.queue
                            THEN Remote(c.peers[i].node) ELSE Local
    BY <1>3 DEF SelectBestNode
  <2>. HIDE DEF i
  <2>3. /\ c.peers[i].node = i /\ c.peers[i].queue \in Nat /\ c.peers[i].cpu \in Nat
        /\ DOMAIN c.peers = 1..Len(c.peers)
    BY <1>1, <2>1, ViewFacts
  <2>4. NodeScore(c.peers[i]) < 10 * c.queue => c.peers[i].queue < c.queue
    <3> DEFINE q == c.peers[i].queue
               u == c.peers[i].cpu
    <3>1. q \in Nat /\ u \in Nat /\ c.queue \in Nat
      BY <1>1, <2>3
    <3>2. NodeScore(c.peers[i]) = 10 * q + 5 * u
      BY DEF NodeScore
    <3>. HIDE DEF q, u
    <3>3. 10 * q + 5 * u < 10 * c.queue => q < c.queue
      BY <3>1
    <3>. QED
      BY <3>2, <3>3 DEF q
  <2>. QED
    BY <2>1, <2>2, <2>3, <2>4
<1>. QED
  BY <1>2, <1>3

\* What the policy alone sends away goes to a peer with a shorter queue.
LEMMA PolicyRelieves ==
    ASSUME NEW c \in Context, NEW p \in RoutingPolicy
    PROVE  \/ ByPolicy(c, p) = Local
           \/ \E i \in DOMAIN c.peers : /\ ByPolicy(c, p) = Remote(i)
                                        /\ c.peers[i].queue < c.queue
<1>1. c.queue \in Nat /\ \A i \in DOMAIN c.peers : c.peers[i].queue \in Nat
  <2>1. c.peers \in Views /\ c.queue \in Nat
    BY LoadAssumption DEF Context
  <2>. QED
    BY <2>1, ViewFacts
<1>2. CASE p = "LocalOnly"
  BY <1>2 DEF ByPolicy
<1>3. CASE p = "PreferLocal" /\ c.queue < 80
  BY <1>3 DEF ByPolicy
<1>4. CASE p = "PreferLocal" /\ ~(c.queue < 80)
  <2>1. ByPolicy(c, p) = FallbackRemote(c)
    BY <1>4 DEF ByPolicy
  <2>. QED
    BY <1>1, <1>4, <2>1, FallbackFinds
<1>5. CASE p = "PressureAware"
  <2>1. ByPolicy(c, p) = SelectBestNode(c)
    BY <1>5 DEF ByPolicy
  <2>. QED
    BY <2>1, BestFinds
<1>. QED
  BY <1>2, <1>3, <1>4, <1>5 DEF RoutingPolicy

\* Without a strategy the policy has the last word.
LEMMA RouteOfPolicy ==
    ASSUME NEW q \in Query
    PROVE  /\ q.strategy = NoStrategy => Route(q) = ByPolicy(q.ctx, q.policy)
           /\ q.strategy # NoStrategy =>
                  Route(q) = ApplyHint(IF PressureScore(q) > 950 THEN FallbackRemote(q.ctx)
                                       ELSE ByPolicy(q.ctx, q.policy), HintOf(q))
BY DEF Route

\* The hints there are.
LEMMA Hints ==
    ASSUME NEW q \in Query
    PROVE  \/ HintOf(q).hint \in {"none", "Keep"}
           \/ HintOf(q).hint = "ForceLocal"
           \/ HintOf(q).hint = "ForceRemote"
<1>1. CASE IsTrade(q)
  BY <1>1 DEF HintOf, SelectRoute, ForceLocal, ForceRemote, None
<1>2. CASE ~IsTrade(q)
  <2>1. HintOf(q) = q.strategy.hint
    BY <1>2 DEF HintOf
  <2>2. q.strategy \in {NoStrategy, Trading} \cup OtherStrategy
    BY DEF Query
  <2>3. q.strategy.hint \in {None, Keep, ForceLocal, ForceRemote(Strange)}
    BY <2>2 DEF NoStrategy, Trading, OtherStrategy
  <2>. QED
    BY <2>1, <2>3 DEF None, Keep, ForceLocal, ForceRemote
<1>. QED
  BY <1>1, <1>2

\* A request that leaves goes where there is room.
LEMMA RemotesRelieve ==
    ASSUME query \in Query
    PROVE  RemoteRelieves
<1>1. SUFFICES ASSUME IsRemoteTarget, HintOf(query).hint # "ForceRemote"
               PROVE  \E i \in DOMAIN ctx.peers :
                          /\ Route(query) = Remote(i)
                          /\ \/ ctx.peers[i].queue < ctx.queue
                             \/ Overloaded /\ ctx.peers[i].queue < 70
  BY DEF RemoteRelieves, Chosen, Remote
<1>2. ctx \in Context /\ query.policy \in RoutingPolicy
  BY DEF Query, ctx
<1> DEFINE first == ByPolicy(ctx, query.policy)
           base == IF PressureScore(query) > 950 THEN FallbackRemote(ctx) ELSE first
<1>3. Route(query) # Local
  BY <1>1 DEF IsRemoteTarget, Local
<1>4. \/ first = Local
      \/ \E i \in DOMAIN ctx.peers : first = Remote(i) /\ ctx.peers[i].queue < ctx.queue
  BY <1>2, PolicyRelieves
<1>. HIDE DEF first
<1>5. CASE query.strategy = NoStrategy
  <2>1. Route(query) = first
    BY <1>5, RouteOfPolicy DEF first, ctx
  <2>. QED
    BY <1>3, <1>4, <2>1
<1>6. CASE query.strategy # NoStrategy
  <2>1. Route(query) = ApplyHint(base, HintOf(query))
    BY <1>6, RouteOfPolicy DEF first, ctx
  <2>2. HintOf(query).hint \in {"none", "Keep"} \/ HintOf(query).hint = "ForceLocal"
    BY <1>1, Hints
  <2>3. Route(query) = base
    <3>1. HintOf(query).hint # "ForceLocal"
      BY <1>3, <2>1 DEF ApplyHint
    <3>. QED
      BY <2>1, <2>2, <3>1 DEF ApplyHint
  <2>4. CASE PressureScore(query) > 950
    <3>1. Route(query) = FallbackRemote(ctx)
      BY <2>3, <2>4
    <3>. QED
      BY <1>2, <1>3, <1>6, <2>4, <3>1, FallbackFinds DEF Overloaded
  <2>5. CASE ~(PressureScore(query) > 950)
    BY <1>3, <1>4, <2>3, <2>5
  <2>. QED
    BY <2>4, <2>5
<1>. QED
  BY <1>5, <1>6

\* Trades follow their own table.
LEMMA TradesStay ==
    ASSUME query \in Query
    PROVE  TradesStayLocal
<1>1. SUFFICES ASSUME IsTrade(query)
               PROVE  /\ ctx.queue <= 90 => ~IsRemoteTarget
                      /\ ctx.queue >= 95 /\ ctx.peers # <<>> =>
                             /\ IsRemoteTarget
                             /\ \A i \in DOMAIN ctx.peers :
                                    Chosen.queue <= ctx.peers[i].queue
  BY DEF TradesStayLocal
<1>2. ctx \in Context /\ ctx.peers \in Views /\ ctx.queue \in Nat
  BY LoadAssumption DEF Query, Context, ctx
<1>3. query.strategy # NoStrategy
  BY <1>1 DEF IsTrade, Trading, NoStrategy
<1>4. PICK base : Route(query) = ApplyHint(base, SelectRoute(ctx))
  BY <1>1, <1>3, RouteOfPolicy DEF HintOf, ctx
<1>5. CASE ctx.queue <= 90
  <2>1. SelectRoute(ctx) = ForceLocal
    BY <1>2, <1>5 DEF SelectRoute
  <2>2. Route(query) = Local
    BY <1>4, <2>1 DEF ApplyHint, ForceLocal
  <2>. QED
    BY <1>2, <1>5, <2>2 DEF IsRemoteTarget, Local
<1>6. CASE ctx.queue >= 95 /\ ctx.peers # <<>>
  <2> DEFINE i == Least(ctx.peers, Queue)
  <2>1. /\ i \in 1..Len(ctx.peers)
        /\ \A j \in 1..Len(ctx.peers) : ctx.peers[i].queue <= ctx.peers[j].queue
    BY <1>2, <1>6, LeastQueue
  <2>2. SelectRoute(ctx) = ForceRemote(ctx.peers[i].node)
    BY <1>2, <1>6 DEF SelectRoute
  <2>. HIDE DEF i
  <2>3. ctx.peers[i].node = i /\ DOMAIN ctx.peers = 1..Len(ctx.peers)
    BY <1>2, <2>1, ViewFacts
  <2>4. Route(query) = Remote(i)
    BY <1>4, <2>2, <2>3 DEF ApplyHint, ForceRemote
  <2>. QED
    BY <1>2, <1>6, <2>1, <2>3, <2>4 DEF IsRemoteTarget, Chosen, Remote
<1>7. CASE ctx.queue > 90 /\ ~(ctx.queue >= 95 /\ ctx.peers # <<>>)
  BY <1>2, <1>7
<1>. QED
  BY <1>2, <1>5, <1>6, <1>7

\* The copies of the table agree.
LEMMA CopiesAgree ==
    ASSUME query \in Query
    PROVE  RoutingTablesAgree
<1>1. ctx \in Context /\ query.policy \in RoutingPolicy /\ ctx.queue \in Nat
  BY LoadAssumption DEF Query, Context, ctx
<1>2. RouteAgrees
  BY Zenon DEF RouteAgrees, Route, RouteLegacy, ByPolicy, ctx
<1>3. SelectTargetCovers
  <2>1. SUFFICES ASSUME query.strategy = NoStrategy, query.policy # "PressureAware"
                 PROVE  SelectTarget(query.policy, ctx.queue).at =
                            Route([query EXCEPT !.ctx.peers = <<IdlePeer>>]).at
    BY DEF SelectTargetCovers
  <2> DEFINE q == [query EXCEPT !.ctx.peers = <<IdlePeer>>]
  <2>2. q.strategy = NoStrategy /\ q.policy = query.policy /\ q.ctx.queue = ctx.queue
        /\ q.ctx.peers = <<IdlePeer>>
    <3> DEFINE c == [ctx EXCEPT !.peers = <<IdlePeer>>]
    <3>1. q = [query EXCEPT !.ctx = c]
      BY DEF ctx
    <3>2. c.queue = ctx.queue /\ c.peers = <<IdlePeer>>
      BY <1>1 DEF Context
    <3>. HIDE DEF c
    <3>3. q.strategy = query.strategy /\ q.policy = query.policy /\ q.ctx = c
      BY <3>1 DEF Query
    <3>. QED
      BY <2>1, <3>2, <3>3
  <2>. HIDE DEF q
  <2>3. Route(q) = ByPolicy(q.ctx, query.policy)
    BY <2>1, <2>2 DEF Route
  <2>4. FallbackRemote(q.ctx).at = "Remote"
    <3> DEFINE v == q.ctx.peers
               I == {i \in 1..Len(v) : v[i].queue < 70}
               k == IF I # {} THEN Min(I) ELSE 0
    <3>1. Len(v) = 1 /\ v[1].queue = 0
      BY <2>2 DEF IdlePeer
    <3>2. I \subseteq 1..1 /\ 1 \in I
      BY <3>1
    <3>3. k # 0
      <4>. HIDE DEF I
      <4>. QED
        BY <3>2, FirstPlace
    <3>4. FallbackRemote(q.ctx) = IF k = 0 THEN Local ELSE Remote(v[k].node)
      BY DEF FallbackRemote, SelectInSeq
    <3>. QED
      BY <3>3, <3>4 DEF Remote
  <2>5. CASE query.policy = "LocalOnly"
    BY <2>3, <2>5 DEF ByPolicy, SelectTarget, q
  <2>6. CASE query.policy = "PreferLocal"
    <3>1. ByPolicy(q.ctx, query.policy) = IF ctx.queue < 80 THEN Local
                                          ELSE FallbackRemote(q.ctx)
      BY <2>2, <2>6 DEF ByPolicy
    <3>. QED
      BY <2>3, <2>4, <2>6, <3>1 DEF SelectTarget, Local, Remote, q
  <2>. QED
    BY <1>1, <2>1, <2>5, <2>6 DEF RoutingPolicy
<1>4. NeverRetried
  BY DEF NeverRetried, Decision, QosPolicy, RetryPolicy, IdempotencySalt
<1>. QED
  BY <1>2, <1>3, <1>4 DEF RoutingTablesAgree

\* A longer queue changes nothing for what is already sent away.
LEMMA LoadStep ==
    ASSUME query \in Query, [RoutingNext]_query
    PROVE  /\ query' \in Query
           /\ /\ query.strategy = NoStrategy /\ IsRemoteTarget
              /\ query'.ctx.queue >= ctx.queue
              => Route(query').at = "Remote"
<1>1. /\ query' \in Query
      /\ query'.policy = query.policy /\ query'.strategy = query.strategy
      /\ query'.ctx.peers = query.ctx.peers
  BY DEF RoutingNext, LoadChanges, CpuChanges, Query, Context
<1>2. SUFFICES ASSUME query.strategy = NoStrategy, IsRemoteTarget,
                      query'.ctx.queue >= ctx.queue
               PROVE  Route(query').at = "Remote"
  BY <1>1
<1> DEFINE c == query.ctx
           d == query'.ctx
           p == query.policy
<1>3. /\ c \in Context /\ d \in Context /\ c.queue \in Nat /\ d.queue \in Nat
      /\ p \in RoutingPolicy /\ d.peers = c.peers /\ d.queue >= c.queue
  BY <1>1, <1>2, LoadAssumption DEF Query, Context, ctx
<1>4. Route(query) = ByPolicy(c, p) /\ Route(query') = ByPolicy(d, p)
  BY <1>1, <1>2, RouteOfPolicy
<1>5. ByPolicy(c, p).at = "Remote"
  BY <1>2, <1>4 DEF IsRemoteTarget
<1>6. SUFFICES ByPolicy(d, p).at = "Remote"
  BY <1>4
<1>. HIDE DEF c, d, p
<1>7. CASE p = "LocalOnly"
  BY <1>5, <1>7 DEF ByPolicy, Local
<1>8. CASE p = "PreferLocal"
  <2>1. /\ ByPolicy(c, p) = IF c.queue < 80 THEN Local ELSE FallbackRemote(c)
        /\ ByPolicy(d, p) = IF d.queue < 80 THEN Local ELSE FallbackRemote(d)
    BY <1>8 DEF ByPolicy
  <2>2. ~(c.queue < 80) /\ ~(d.queue < 80)
    BY <1>3, <1>5, <2>1 DEF Local
  <2>3. FallbackRemote(d) = FallbackRemote(c)
    BY <1>3, Zenon DEF FallbackRemote
  <2>. QED
    BY <1>5, <2>1, <2>2, <2>3
<1>9. CASE p = "PressureAware"
  <2>1. ByPolicy(c, p) = SelectBestNode(c) /\ ByPolicy(d, p) = SelectBestNode(d)
    BY <1>9 DEF ByPolicy
  <2>2. c.peers # << >>
    <3>1. c.peers = << >> => SelectBestNode(c) = Local
      BY DEF SelectBestNode
    <3>. QED
      BY <1>5, <2>1, <3>1 DEF Local
  <2> DEFINE best == c.peers[Least(c.peers, NodeScore)]
  <2>3. /\ SelectBestNode(c) = IF NodeScore(best) < 10 * c.queue
                               THEN Remote(best.node) ELSE Local
        /\ SelectBestNode(d) = IF NodeScore(best) < 10 * d.queue
                               THEN Remote(best.node) ELSE Local
    BY <1>3, <2>2 DEF SelectBestNode
  <2>4. NodeScore(best) \in Nat
    <3>1. c.peers \in Views
      BY <1>3 DEF Context
    <3>2. Least(c.peers, NodeScore) \in 1..Len(c.peers)
      BY <2>2, <3>1, LeastScore
    <3>3. best.queue \in Nat /\ best.cpu \in Nat
      BY <3>1, <3>2, ViewFacts
    <3>. HIDE DEF best
    <3>. QED
      BY <3>3 DEF NodeScore
  <2>. HIDE DEF best
  <2>5. NodeScore(best) < 10 * c.queue
    BY <1>5, <2>1, <2>3 DEF Local
  <2>6. NodeScore(best) < 10 * d.queue
    BY <1>3, <2>4, <2>5
  <2>. QED
    BY <2>1, <2>3, <2>6 DEF Remote
<1>. QED
  BY <1>3, <1>7, <1>8, <1>9 DEF RoutingPolicy

-----------------------------------------------------------------------------
(* Sequences of tokens.                                                    *)

\* A prefix, place by place.
LEMMA PrefixMeans ==
    ASSUME NEW S, NEW s \in Seq(S), NEW t \in Seq(S)
    PROVE  IsPrefix(s, t) <=> Len(s) <= Len(t) /\ \A i \in 1..Len(s) : s[i] = t[i]
<1>1. Len(s) \in Nat /\ Len(t) \in Nat
  BY LenProperties
<1>2. SubSeq(s, 1, Len(s)) = s
  BY SubSeqFull
<1>3. SUFFICES ASSUME Len(s) <= Len(t)
               PROVE  s = SubSeq(t, 1, Len(s)) <=> \A i \in 1..Len(s) : s[i] = t[i]
  BY <1>2 DEF IsPrefix
<1> DEFINE w == SubSeq(t, 1, Len(s))
<1>4. \A i \in 1..Len(s) : t[i] \in S
  BY <1>1, <1>3, ElementOfSeq
<1>5. w \in Seq(S) /\ Len(w) = Len(s) /\ \A i \in 1..Len(s) : w[i] = t[i]
  BY <1>1, <1>4, SubSeqProperties
<1>. HIDE DEF w
<1>6. (\A i \in 1..Len(s) : s[i] = t[i]) => s = w
  BY <1>5, SeqEqual
<1>. QED
  BY <1>5, <1>6

\* The reverse of a sequence, place by place.
LEMMA ReverseMeans ==
    ASSUME NEW S, NEW s \in Seq(S)
    PROVE  /\ Reverse(s) \in Seq(S)
           /\ Len(Reverse(s)) = Len(s)
           /\ \A i \in 1..Len(s) : Reverse(s)[i] = s[Len(s) - i + 1]
<1> DEFINE n == Len(s)
           w == [i \in 1..n |-> s[(n - i) + 1]]
<1>1. n \in Nat /\ \A i \in 1..n : (n - i) + 1 \in 1..n /\ s[(n - i) + 1] \in S
  <2>1. n \in Nat
    BY LenProperties
  <2>2. \A i \in 1..n : (n - i) + 1 \in 1..n
    BY <2>1
  <2>. QED
    BY <2>1, <2>2, ElementOfSeq
<1>2. Reverse(s) = w
  BY DEF Reverse
<1>. HIDE DEF n
<1>3. w \in [1..n -> S]
  BY <1>1
<1>4. w \in Seq(S) /\ Len(w) = n
  BY <1>1, <1>3
<1>. QED
  BY <1>1, <1>2, <1>4 DEF n

\* One token in front, or at the end.
LEMMA EndsMean ==
    ASSUME NEW S, NEW s \in Seq(S), NEW t \in S
    PROVE  /\ IsPrefix(<<t>>, s) <=> Len(s) # 0 /\ s[1] = t
           /\ IsSuffix(<<t>>, s) <=> Len(s) # 0 /\ s[Len(s)] = t
<1> DEFINE a == <<t>>
           u == Reverse(a)
           w == Reverse(s)
<1>1. a \in Seq(S) /\ Len(a) = 1 /\ a[1] = t /\ Len(s) \in Nat
  BY LenProperties
<1>. HIDE DEF a
<1>2. IsPrefix(a, s) <=> Len(s) # 0 /\ s[1] = t
  <2>1. \A i \in 1..Len(a) : i = 1
    BY <1>1
  <2>2. IsPrefix(a, s) <=> Len(a) <= Len(s) /\ \A i \in 1..Len(a) : a[i] = s[i]
    BY <1>1, PrefixMeans
  <2>. QED
    BY <1>1, <2>1, <2>2
<1>3. u \in Seq(S) /\ Len(u) = 1 /\ u[1] = t
  <2>1. u \in Seq(S) /\ Len(u) = Len(a) /\ \A i \in 1..Len(a) : u[i] = a[Len(a) - i + 1]
    BY <1>1, ReverseMeans
  <2>. HIDE DEF u
  <2>2. 1 \in 1..Len(a) /\ Len(a) - 1 + 1 = 1
    BY <1>1
  <2>. QED
    BY <1>1, <2>1, <2>2
<1>4. w \in Seq(S) /\ Len(w) = Len(s) /\ (Len(s) # 0 => w[1] = s[Len(s)])
  BY <1>1, ReverseMeans
<1>5. IsSuffix(a, s) <=> IsPrefix(u, w)
  BY DEF IsSuffix
<1>. HIDE DEF u, w
<1>6. IsPrefix(u, w) <=> Len(w) # 0 /\ w[1] = t
  <2>1. \A i \in 1..Len(u) : i = 1
    BY <1>3
  <2>2. IsPrefix(u, w) <=> Len(u) <= Len(w) /\ \A i \in 1..Len(u) : u[i] = w[i]
    BY <1>3, <1>4, PrefixMeans
  <2>. QED
    BY <1>1, <1>3, <1>4, <2>1, <2>2
<1>. QED
  BY <1>2, <1>4, <1>5, <1>6 DEF a

\* What TrimEnd leaves: everything up to the last other token.
LEMMA TrimEndLeaves ==
    ASSUME NEW S, NEW s \in Seq(S), NEW t
    PROVE  /\ TrimEnd(s, t) \in Seq(S)
           /\ Len(TrimEnd(s, t)) \in 0..Len(s)
           /\ \A i \in 1..Len(TrimEnd(s, t)) : TrimEnd(s, t)[i] = s[i]
           /\ Len(TrimEnd(s, t)) # 0 => s[Len(TrimEnd(s, t))] # t
           /\ \A i \in (Len(TrimEnd(s, t)) + 1)..Len(s) : s[i] = t
<1> DEFINE I == {i \in 1..Len(s) : s[i] # t}
           k == IF I # {} THEN Max(I) ELSE 0
           w == SubSeq(s, 1, k)
<1>1. TrimEnd(s, t) = w
  BY DEF TrimEnd, SelectLastInSeq
<1>2. Len(s) \in Nat /\ I \subseteq 1..Len(s) /\ \A i \in 1..Len(s) : s[i] \in S
  BY LenProperties, ElementOfSeq
<1>3. /\ k \in 0..Len(s) /\ (k # 0 => k \in I)
      /\ \A j \in (k + 1)..Len(s) : j \notin I
  <2>. HIDE DEF I
  <2>. QED
    BY <1>2, LastPlace
<1>4. /\ k # 0 => s[k] # t
      /\ \A j \in (k + 1)..Len(s) : s[j] = t
  <2>1. k # 0 => s[k] # t
    <3>. HIDE DEF k
    <3>. QED
      BY <1>3
  <2>2. ASSUME NEW j \in (k + 1)..Len(s)
        PROVE  s[j] = t
    <3>. HIDE DEF k
    <3>1. j \in 1..Len(s) /\ j \notin I
      BY <1>2, <1>3
    <3>. QED
      BY <3>1
  <2>. QED
    BY <2>1, <2>2
<1>. HIDE DEF k
<1>5. w \in Seq(S) /\ Len(w) = k /\ \A i \in 1..k : w[i] = s[i]
  <2>1. k \in Int /\ \A i \in 1..k : s[i] \in S
    BY <1>2, <1>3
  <2>2. /\ w \in Seq(S) /\ Len(w) = IF 1 <= k THEN k - 1 + 1 ELSE 0
        /\ \A i \in 1..(k - 1 + 1) : w[i] = s[1 + i - 1]
    BY <2>1, SubSeqProperties
  <2>. HIDE DEF w
  <2>. QED
    BY <1>3, <2>2
<1>. HIDE DEF w
<1>. QED
  BY <1>1, <1>3, <1>4, <1>5

\* Where nothing is to be trimmed, nothing changes.
LEMMA TrimEndKeeps ==
    ASSUME NEW S, NEW s \in Seq(S), NEW t, Len(s) # 0 => s[Len(s)] # t
    PROVE  TrimEnd(s, t) = s
<1> DEFINE w == TrimEnd(s, t)
<1>1. /\ w \in Seq(S) /\ Len(w) \in 0..Len(s) /\ Len(s) \in Nat
      /\ \A i \in 1..Len(w) : w[i] = s[i]
      /\ \A i \in (Len(w) + 1)..Len(s) : s[i] = t
  BY TrimEndLeaves, LenProperties
<1>. HIDE DEF w
<1>2. Len(w) = Len(s)
  BY <1>1
<1>3. w = s
  BY <1>1, <1>2, SeqEqual
<1>. QED
  BY <1>3 DEF w

\* What Trim leaves neither begins nor ends with the token.
LEMMA TrimLeaves ==
    ASSUME NEW S, NEW s \in Seq(S), NEW t
    PROVE  /\ Trim(s, t) \in Seq(S)
           /\ Len(Trim(s, t)) # 0 => /\ Trim(s, t)[1] # t
                                     /\ Trim(s, t)[Len(Trim(s, t))] # t
<1> DEFINE a == TrimEnd(s, t)
           b == Reverse(a)
           c == TrimEnd(b, t)
           w == Reverse(c)
<1>1. /\ a \in Seq(S) /\ Len(a) \in Nat
      /\ Len(a) # 0 => a[Len(a)] # t
  <2>1. /\ a \in Seq(S) /\ Len(a) \in 0..Len(s)
        /\ \A i \in 1..Len(a) : a[i] = s[i]
        /\ Len(a) # 0 => s[Len(a)] # t
    BY TrimEndLeaves
  <2>. HIDE DEF a
  <2>2. Len(a) \in Nat
    BY <2>1, LenProperties
  <2>. QED
    BY <2>1, <2>2
<1>2. /\ b \in Seq(S) /\ Len(b) = Len(a)
      /\ Len(b) # 0 => b[1] # t
  <2>. HIDE DEF a
  <2>1. b \in Seq(S) /\ Len(b) = Len(a) /\ \A i \in 1..Len(a) : b[i] = a[Len(a) - i + 1]
    BY <1>1, ReverseMeans
  <2>. HIDE DEF b
  <2>2. Len(a) # 0 => 1 \in 1..Len(a) /\ Len(a) - 1 + 1 = Len(a)
    BY <1>1
  <2>. QED
    BY <1>1, <2>1, <2>2
<1>3. /\ c \in Seq(S) /\ Len(c) \in Nat
      /\ Len(c) # 0 => c[Len(c)] # t /\ c[1] # t
  <2>. HIDE DEF b
  <2>1. /\ c \in Seq(S) /\ Len(c) \in 0..Len(b)
        /\ \A i \in 1..Len(c) : c[i] = b[i]
        /\ Len(c) # 0 => b[Len(c)] # t
    BY <1>2, TrimEndLeaves
  <2>. HIDE DEF c
  <2>. QED
    BY <1>1, <1>2, <2>1
<1>4. /\ w \in Seq(S) /\ Len(w) = Len(c)
      /\ Len(w) # 0 => w[1] # t /\ w[Len(w)] # t
  <2>. HIDE DEF c
  <2>1. w \in Seq(S) /\ Len(w) = Len(c) /\ \A i \in 1..Len(c) : w[i] = c[Len(c) - i + 1]
    BY <1>3, ReverseMeans
  <2>. HIDE DEF w
  <2>2. Len(c) # 0 => /\ 1 \in 1..Len(c) /\ Len(c) - 1 + 1 = Len(c)
                      /\ Len(c) \in 1..Len(c) /\ Len(c) - Len(c) + 1 = 1
    BY <1>3
  <2>. QED
    BY <1>3, <2>1, <2>2
<1>5. Trim(s, t) = w
  BY DEF Trim
<1>. HIDE DEF w
<1>. QED
  BY <1>4, <1>5

\* Where nothing is to be trimmed at either end, nothing changes.
LEMMA TrimKeeps ==
    ASSUME NEW S, NEW s \in Seq(S), NEW t,
           Len(s) # 0 => s[1] # t /\ s[Len(s)] # t
    PROVE  Trim(s, t) = s
<1> DEFINE b == Reverse(s)
           w == Reverse(b)
<1>1. TrimEnd(s, t) = s /\ Len(s) \in Nat
  BY TrimEndKeeps, LenProperties
<1>2. b \in Seq(S) /\ Len(b) = Len(s) /\ \A i \in 1..Len(s) : b[i] = s[Len(s) - i + 1]
  BY ReverseMeans
<1>. HIDE DEF b
<1>3. TrimEnd(b, t) = b
  <2>1. Len(s) # 0 => Len(s) \in 1..Len(s) /\ Len(s) - Len(s) + 1 = 1
    BY <1>1
  <2>2. Len(b) # 0 => b[Len(b)] # t
    BY <1>2, <2>1
  <2>. QED
    BY <1>2, <2>2, TrimEndKeeps
<1>4. w \in Seq(S) /\ Len(w) = Len(b) /\ \A i \in 1..Len(b) : w[i] = b[Len(b) - i + 1]
  BY <1>2, ReverseMeans
<1>5. Trim(s, t) = w
  BY <1>1, <1>3 DEF Trim, b
<1>. HIDE DEF w
<1>6. ASSUME NEW i \in 1..Len(w)
      PROVE  w[i] = s[i]
  <2> DEFINE j == Len(s) - i + 1
  <2>1. j \in 1..Len(s) /\ Len(s) - j + 1 = i
    BY <1>1, <1>2, <1>4
  <2>2. w[i] = b[j]
    BY <1>2, <1>4
  <2>3. b[j] = s[Len(s) - j + 1]
    <3>. HIDE DEF j
    <3>. QED
      BY <1>2, <2>1
  <2>. HIDE DEF j
  <2>. QED
    BY <2>1, <2>2, <2>3
<1>7. w = s
  BY <1>2, <1>4, <1>6, SeqEqual
<1>. QED
  BY <1>5, <1>7

\* The token " ", by a name: Z3 cannot read the string itself.
Blank == " "

\* What is left of a URI: a beginning of it without the blanks around, cut only where
\* slashes follow, and with a slash or blank at its end only as the last cases say.
LEMMA NormalizeLeaves ==
    ASSUME NEW S, NEW s \in Seq(S), "/" \in S,
           NEW T, T = Trim(s, Blank), NEW N, N = NormalizeUri(s)
    PROVE  /\ T \in Seq(S) /\ Len(T) \in Nat
           /\ N \in Seq(S) /\ Len(N) \in 0..Len(T)
           /\ \A i \in 1..Len(N) : N[i] = T[i]
           /\ \A i \in (Len(N) + 1)..Len(T) : T[i] = "/"
           /\ Len(T) > 1 /\ Len(N) # 0 => N[Len(N)] # "/"
           /\ Len(T) <= 1 => N = T
           /\ Len(N) # 0 => N[1] # Blank
           /\ Len(N) # 0 /\ N[Len(N)] = Blank => Len(T) # 0 /\ T[Len(T)] = "/"
<1>1. /\ T \in Seq(S) /\ Len(T) \in Nat
      /\ Len(T) # 0 => T[1] # Blank /\ T[Len(T)] # Blank
  BY TrimLeaves, LenProperties
<1>2. IsSuffix(<<"/">>, T) <=> Len(T) # 0 /\ T[Len(T)] = "/"
  BY <1>1, EndsMean
<1>3. N = IF IsSuffix(<<"/">>, T) /\ Len(T) > 1 THEN TrimEnd(T, "/") ELSE T
  BY Zenon DEF NormalizeUri, Blank
<1>4. CASE IsSuffix(<<"/">>, T) /\ Len(T) > 1
  <2> DEFINE w == TrimEnd(T, "/")
  <2>1. /\ w \in Seq(S) /\ Len(w) \in 0..Len(T)
        /\ \A i \in 1..Len(w) : w[i] = T[i]
        /\ Len(w) # 0 => T[Len(w)] # "/"
        /\ \A i \in (Len(w) + 1)..Len(T) : T[i] = "/"
    BY <1>1, TrimEndLeaves
  <2>2. N = w
    BY <1>3, <1>4
  <2>. HIDE DEF w
  <2>3. Len(w) # 0 => /\ Len(w) \in 1..Len(w) /\ 1 \in 1..Len(w)
                      /\ w[Len(w)] # "/" /\ w[1] # Blank
    BY <1>1, <2>1
  <2>4. Len(T) # 0 /\ T[Len(T)] = "/"
    BY <1>2, <1>4
  <2>. QED
    BY <1>1, <1>4, <2>1, <2>2, <2>3, <2>4
<1>5. CASE ~(IsSuffix(<<"/">>, T) /\ Len(T) > 1)
  <2>1. N = T
    BY <1>3, <1>5
  <2>2. Len(T) > 1 => T[Len(T)] # "/"
    BY <1>1, <1>2, <1>5
  <2>3. \A i \in (Len(T) + 1)..Len(T) : FALSE
    BY <1>1
  <2>. QED
    BY <1>1, <2>1, <2>2, <2>3
<1>. QED
  BY <1>4, <1>5

\* The tokens of a URI, with those the code puts in.
Chars == Token \cup SchemeToken \cup {"/", Blank, "."}

\* A normalised URI is in normal form.
LEMMA NormalFormHolds ==
    ASSUME uri \in Seq(Chars)
    PROVE  NormalForm
<1> DEFINE T == Trim(uri, Blank)
           N == NormalizeUri(uri)
<1>1. \A r \in Requests : r.uri = N
  BY DEF Requests, HandleRac, HandleHttp, HandleMcp
<1>2. "/" \in Chars /\ Blank \in Chars
  BY DEF Chars
<1>3. /\ T \in Seq(Chars) /\ Len(T) \in Nat
      /\ N \in Seq(Chars) /\ Len(N) \in 0..Len(T)
      /\ Len(T) > 1 /\ Len(N) # 0 => N[Len(N)] # "/"
      /\ Len(T) <= 1 => N = T
      /\ Len(N) # 0 => N[1] # Blank
      /\ Len(N) # 0 /\ N[Len(N)] = Blank => Len(T) # 0 /\ T[Len(T)] = "/"
  <2>. HIDE DEF T, N
  <2>1. T = Trim(uri, Blank) /\ N = NormalizeUri(uri)
    BY DEF T, N
  <2>. QED
    BY <1>2, <2>1, NormalizeLeaves
<1>4. N = CanonicalUri(uri)
  BY Zenon DEF NormalizeUri, CanonicalUri
<1>. HIDE DEF T, N
<1>5. /\ IsSuffix(<<"/">>, N) <=> Len(N) # 0 /\ N[Len(N)] = "/"
      /\ IsSuffix(<<Blank>>, N) <=> Len(N) # 0 /\ N[Len(N)] = Blank
      /\ IsPrefix(<<Blank>>, N) <=> Len(N) # 0 /\ N[1] = Blank
      /\ IsSuffix(<<"/">>, T) <=> Len(T) # 0 /\ T[Len(T)] = "/"
  BY <1>2, <1>3, EndsMean
<1>6. N = <<"/">> \/ ~IsSuffix(<<"/">>, N)
  <2>1. SUFFICES ASSUME Len(N) # 0, N[Len(N)] = "/"
                 PROVE  N = <<"/">>
    BY <1>5
  <2>2. Len(T) <= 1 /\ Len(N) = 1
    <3> DEFINE n == Len(T)
    <3>1. n <= 1 /\ n \in Nat
      BY <1>3, <2>1
    <3>2. N = T /\ n # 0
      BY <1>3, <2>1, <3>1
    <3>. HIDE DEF n
    <3>3. n = 1
      BY <3>1, <3>2
    <3>. QED
      BY <3>1, <3>2, <3>3 DEF n
  <2> DEFINE a == <<"/">>
  <2>3. a \in Seq(Chars) /\ Len(a) = 1 /\ a[1] = "/"
    BY <1>2
  <2>. HIDE DEF a
  <2>4. \A i \in 1..Len(N) : N[i] = a[i]
    BY <2>1, <2>2, <2>3
  <2>5. N = a
    BY <1>3, <2>2, <2>3, <2>4, SeqEqual
  <2>. QED
    BY <2>5 DEF a
<1>7. ~IsPrefix(<<Blank>>, N) /\ (IsSuffix(<<Blank>>, N) => IsSuffix(<<"/">>, T))
  BY <1>3, <1>5
<1>8. ~IsSuffix(<<Blank>>, N) => NormalizeUri(N) = N
  <2>1. SUFFICES ASSUME ~IsSuffix(<<Blank>>, N)
                 PROVE  NormalizeUri(N) = N
    OBVIOUS
  <2>2. Trim(N, Blank) = N
    BY <1>3, <1>5, <2>1, TrimKeeps
  <2>3. ~(IsSuffix(<<"/">>, N) /\ Len(N) > 1)
    BY <1>3, <1>5
  <2>4. NormalizeUri(N) = IF IsSuffix(<<"/">>, Trim(N, Blank)) /\ Len(Trim(N, Blank)) > 1
                          THEN TrimEnd(Trim(N, Blank), "/") ELSE Trim(N, Blank)
    BY Zenon DEF NormalizeUri, Blank
  <2>. QED
    BY <2>2, <2>3, <2>4
<1>. QED
  <2>1. ASSUME NEW r \in Requests
        PROVE  /\ r.uri = <<"/">> \/ ~IsSuffix(<<"/">>, r.uri)
               /\ ~IsPrefix(<<Blank>>, r.uri)
               /\ IsSuffix(<<Blank>>, r.uri) => IsSuffix(<<"/">>, Trim(uri, Blank))
               /\ r.uri = CanonicalUri(uri)
               /\ ~IsSuffix(<<Blank>>, r.uri) => NormalizeUri(r.uri) = r.uri
    BY <1>1, <1>4, <1>6, <1>7, <1>8 DEF T
  <2>. QED
    BY <2>1, Zenon DEF NormalForm, Blank

-----------------------------------------------------------------------------
(* Schemes, fans and domains.                                              *)

\* A URI fits an entry of the table, or has its scheme, by its first three tokens.
LEMMA SchemeMeans ==
    ASSUME NEW S, NEW s \in Seq(S), "/" \in S, NEW t \in S
    PROVE  IsPrefix(<<t>> \o Slashes, s) <=>
               Len(s) >= 3 /\ s[1] = t /\ s[2] = "/" /\ s[3] = "/"
<1> DEFINE a == <<t>>
           b == Slashes
           p == a \o b
<1>1. a \in Seq(S) /\ Len(a) = 1 /\ a[1] = t
  OBVIOUS
<1>2. b \in Seq(S) /\ Len(b) = 2 /\ b[1] = "/" /\ b[2] = "/"
  BY DEF Slashes
<1>3. p \in Seq(S) /\ Len(p) = 3 /\ p[1] = t /\ p[2] = "/" /\ p[3] = "/"
  <2>. HIDE DEF a, b
  <2>1. /\ p \in Seq(S) /\ Len(p) = Len(a) + Len(b)
        /\ \A i \in 1..Len(a) + Len(b) : p[i] = IF i <= Len(a) THEN a[i] ELSE b[i - Len(a)]
    BY <1>1, <1>2, ConcatProperties
  <2>. HIDE DEF p
  <2>2. 1 \in 1..3 /\ 2 \in 1..3 /\ 3 \in 1..3
    OBVIOUS
  <2>. QED
    BY <1>1, <1>2, <2>1, <2>2
<1>. HIDE DEF p
<1>4. IsPrefix(p, s) <=> Len(p) <= Len(s) /\ \A i \in 1..Len(p) : p[i] = s[i]
  BY <1>3, PrefixMeans
<1>5. Len(s) \in Nat /\ 1..Len(p) = {1, 2, 3}
  BY <1>3, LenProperties
<1>. QED
  BY <1>3, <1>4, <1>5 DEF p

\* The entries' patterns are the schemes with their slashes.
LEMMA Entries ==
    /\ Len(DefaultEntries) = 3
    /\ DefaultEntries[1].pattern = <<"rac:">> \o Slashes
    /\ DefaultEntries[2].pattern = <<"http:">> \o Slashes
    /\ DefaultEntries[3].pattern = <<"mcp:">> \o Slashes
    /\ DefaultEntries[1].fan = "core.echo"
BY DEF DefaultEntries

\* The fan depends on the first three tokens.
LEMMA ResolveByHead ==
    ASSUME NEW S, NEW s \in Seq(S), NEW u \in Seq(S), SchemeToken \cup {"/"} \subseteq S,
           \A t \in SchemeToken :
               IsPrefix(<<t>> \o Slashes, s) <=> IsPrefix(<<t>> \o Slashes, u)
    PROVE  Resolve(s) = Resolve(u)
<1> DEFINE I(x) == {i \in 1..Len(DefaultEntries) : IsPrefix(DefaultEntries[i].pattern, x)}
           k(x) == IF I(x) # {} THEN Min(I(x)) ELSE 0
<1>1. \A x : Resolve(x) = IF k(x) = 0 THEN "none" ELSE DefaultEntries[k(x)].fan
  BY Zenon DEF Resolve, SelectInSeq
<1>2. I(s) = I(u)
  <2>1. 1..Len(DefaultEntries) = {1, 2, 3}
    BY Entries
  <2>2. \A i \in {1, 2, 3} :
            \E t \in SchemeToken : DefaultEntries[i].pattern = <<t>> \o Slashes
    BY Entries DEF SchemeToken
  <2>3. \A i \in 1..Len(DefaultEntries) :
            IsPrefix(DefaultEntries[i].pattern, s)
                <=> IsPrefix(DefaultEntries[i].pattern, u)
    BY <2>1, <2>2
  <2>. QED
    BY <2>3
<1>3. k(s) = k(u)
  BY <1>2
<1>. HIDE DEF k
<1>. QED
  BY <1>1, <1>3

\* The scheme that is put in front names the echo.
LEMMA RacResolves ==
    ASSUME NEW S, NEW s \in Seq(S), SchemeToken \cup {"/"} \subseteq S
    PROVE  Resolve(<<"rac:">> \o Slashes \o s) = "core.echo"
<1> DEFINE p == <<"rac:">> \o Slashes
           u == p \o s
           I == {i \in 1..Len(DefaultEntries) : IsPrefix(DefaultEntries[i].pattern, u)}
           k == IF I # {} THEN Min(I) ELSE 0
<1>1. p \in Seq(S) /\ Len(p) \in Nat
  <2>1. <<"rac:">> \in Seq(S) /\ Slashes \in Seq(S)
    BY DEF Slashes, SchemeToken
  <2>2. p \in Seq(S)
    BY <2>1, ConcatProperties
  <2>. QED
    BY <2>2, LenProperties
<1>2. IsPrefix(p, u)
  <2>. HIDE DEF p
  <2>1. /\ u \in Seq(S) /\ Len(u) = Len(p) + Len(s)
        /\ \A i \in 1..Len(p) + Len(s) : u[i] = IF i <= Len(p) THEN p[i] ELSE s[i - Len(p)]
    BY <1>1, ConcatProperties
  <2>2. Len(s) \in Nat
    BY LenProperties
  <2>. HIDE DEF u
  <2>3. Len(p) <= Len(u) /\ \A i \in 1..Len(p) : p[i] = u[i]
    BY <1>1, <2>1, <2>2
  <2>. QED
    BY <1>1, <2>1, <2>3, PrefixMeans
<1>3. Resolve(u) = IF k = 0 THEN "none" ELSE DefaultEntries[k].fan
  BY Zenon DEF Resolve, SelectInSeq
<1>4. I \subseteq 1..3 /\ 1 \in I
  <2>. HIDE DEF p, u
  <2>1. 1..Len(DefaultEntries) = 1..3 /\ DefaultEntries[1].pattern = p
    BY Entries DEF p
  <2>. QED
    BY <1>2, <2>1
<1>5. k = 1
  <2>. HIDE DEF I
  <2>1. I \subseteq Nat /\ I # {}
    BY <1>4
  <2>2. k \in I /\ \A j \in I : k <= j
    BY <2>1, MinOfNats
  <2>. HIDE DEF k
  <2>. QED
    BY <1>4, <2>2
<1>. HIDE DEF k
<1>. QED
  BY <1>3, <1>5, Entries

\* The fan that a URI names survives its normalisation.
LEMMA FanSurvives ==
    ASSUME uri \in Seq(Chars)
    PROVE  FanAsNamed
<1> DEFINE T == Trim(uri, Blank)
           N == NormalizeUri(uri)
<1>1. \A r \in Requests : r.uri = N
  BY DEF Requests, HandleRac, HandleHttp, HandleMcp
<1>2. SchemeToken \cup {"/"} \subseteq Chars
  BY DEF Chars
<1>3. /\ T \in Seq(Chars) /\ Len(T) \in Nat
      /\ N \in Seq(Chars) /\ Len(N) \in 0..Len(T)
      /\ \A i \in 1..Len(N) : N[i] = T[i]
      /\ \A i \in (Len(N) + 1)..Len(T) : T[i] = "/"
      /\ Len(T) > 1 /\ Len(N) # 0 => N[Len(N)] # "/"
  <2>. HIDE DEF T, N
  <2>1. T = Trim(uri, Blank) /\ N = NormalizeUri(uri) /\ "/" \in Chars
    BY DEF T, N, Chars
  <2>. QED
    BY <2>1, NormalizeLeaves
<1> DEFINE named == HasScheme(T) /\ \E i \in 4..Len(T) : T[i] # "/"
<1>4. Named = IF named THEN Resolve(T) ELSE "core.echo"
  BY Zenon DEF Named, Blank
<1>. HIDE DEF T, N
<1>5. \A t \in SchemeToken :
          /\ IsPrefix(<<t>> \o Slashes, T) <=>
                 Len(T) >= 3 /\ T[1] = t /\ T[2] = "/" /\ T[3] = "/"
          /\ IsPrefix(<<t>> \o Slashes, N) <=>
                 Len(N) >= 3 /\ N[1] = t /\ N[2] = "/" /\ N[3] = "/"
  BY <1>2, <1>3, SchemeMeans
<1>6. CASE named
  <2>1. PICK i \in 4..Len(T) : T[i] # "/"
    BY <1>6
  <2>2. Len(N) >= 3 /\ N[1] = T[1] /\ N[2] = T[2] /\ N[3] = T[3]
    BY <1>3, <2>1
  <2>3. \A t \in SchemeToken :
            IsPrefix(<<t>> \o Slashes, N) <=> IsPrefix(<<t>> \o Slashes, T)
    <3>1. Len(T) >= 3
      BY <1>3, <2>1
    <3>. QED
      BY <1>5, <2>2, <3>1
  <2>4. HasScheme(N)
    BY <1>6, <2>3 DEF HasScheme
  <2>5. Resolve(N) = Resolve(T)
    BY <1>2, <1>3, <2>3, ResolveByHead
  <2>6. WithScheme(N) = N
    BY <2>4 DEF WithScheme
  <2>. QED
    BY <1>1, <1>4, <1>6, <2>5, <2>6 DEF FanAsNamed
<1>7. CASE ~named
  <2>1. ~HasScheme(N)
    <3>1. SUFFICES ASSUME NEW t \in SchemeToken, IsPrefix(<<t>> \o Slashes, N)
                   PROVE  FALSE
      BY DEF HasScheme
    <3>2. Len(N) >= 3 /\ N[1] = t /\ N[2] = "/" /\ N[3] = "/"
      BY <1>5, <3>1
    <3>3. Len(T) >= 3 /\ T[1] = t /\ T[2] = "/" /\ T[3] = "/"
      BY <1>3, <3>2
    <3>4. HasScheme(T)
      BY <1>5, <3>3 DEF HasScheme
    <3>5. N[Len(N)] # "/" /\ Len(N) # 3
      BY <1>3, <3>2
    <3>6. Len(N) \in 4..Len(T) /\ T[Len(N)] = N[Len(N)]
      BY <1>3, <3>2, <3>5
    <3>. QED
      BY <1>7, <3>4, <3>5, <3>6
  <2>2. WithScheme(N) = <<"rac:">> \o Slashes \o N
    BY <2>1 DEF WithScheme
  <2>3. Resolve(WithScheme(N)) = "core.echo"
    BY <1>2, <1>3, <2>2, RacResolves
  <2>. QED
    BY <1>1, <1>4, <1>7, <2>3 DEF FanAsNamed
<1>. QED
  BY <1>6, <1>7

\* What follows the first scheme, or all: either way tokens of the URI, and after a
\* scheme the token in front of them is a slash.
LEMMA NoSchemeLeaves ==
    ASSUME NEW S, NEW s \in Seq(S), "/" \in S
    PROVE  /\ NoScheme(s) \in Seq(S)
           /\ HasScheme(s) /\ Len(NoScheme(s)) # 0 =>
                  \E m \in 2..Len(s) : s[m - 1] = "/" /\ s[m] = NoScheme(s)[1]
<1> DEFINE at == {i \in DOMAIN s : /\ s[i] \in SchemeToken
                                   /\ IsPrefix(Slashes, SubSeq(s, i + 1, Len(s)))}
           m == Min(at)
           w == SubSeq(s, m + 3, Len(s))
<1>1. NoScheme(s) = IF at = {} THEN s ELSE w
  BY DEF NoScheme
<1>2. Len(s) \in Nat /\ DOMAIN s = 1..Len(s) /\ \A i \in 1..Len(s) : s[i] \in S
  BY LenProperties, ElementOfSeq
<1>3. CASE at # {}
  <2>1. m \in at
    <3>1. at \subseteq Nat
      BY <1>2
    <3>. HIDE DEF at
    <3>. QED
      BY <1>3, <3>1, MinOfNats
  <2>. HIDE DEF m
  <2> DEFINE v == SubSeq(s, m + 1, Len(s))
  <2>2. m \in 1..Len(s) /\ IsPrefix(Slashes, v)
    BY <1>2, <2>1
  <2>3. v \in Seq(S) /\ \A i \in 1..(Len(s) - (m + 1) + 1) : v[i] = s[m + 1 + i - 1]
    <3>1. m + 1 \in Int /\ Len(s) \in Int /\ \A i \in (m + 1)..Len(s) : s[i] \in S
      BY <1>2, <2>2
    <3>. QED
      BY <3>1, SubSeqProperties
  <2>4. Len(v) = IF m + 1 <= Len(s) THEN Len(s) - (m + 1) + 1 ELSE 0
    <3>1. m + 1 \in Int /\ Len(s) \in Int /\ \A i \in (m + 1)..Len(s) : s[i] \in S
      BY <1>2, <2>2
    <3>. QED
      BY <3>1, SubSeqProperties
  <2>. HIDE DEF v
  <2>5. Len(v) >= 2 /\ v[2] = "/"
    <3> DEFINE b == Slashes
    <3>1. b \in Seq(S) /\ Len(b) = 2 /\ b[2] = "/"
      BY DEF Slashes
    <3>. HIDE DEF b
    <3>2. Len(b) <= Len(v) /\ \A i \in 1..Len(b) : b[i] = v[i]
      BY <2>2, <2>3, <3>1, PrefixMeans DEF b
    <3>3. 2 \in 1..Len(b)
      BY <3>1
    <3>. QED
      BY <3>1, <3>2, <3>3
  <2>6. m + 2 \in 2..Len(s) /\ s[m + 2] = "/"
    <3>1. Len(v) = Len(s) - m /\ m + 2 <= Len(s)
      <4> DEFINE n == Len(s)
                 l == Len(v)
      <4>1. n \in Nat /\ m \in 1..n /\ l >= 2
            /\ l = IF m + 1 <= n THEN n - (m + 1) + 1 ELSE 0
        BY <1>2, <2>2, <2>4, <2>5
      <4>. HIDE DEF n, l
      <4>2. l = n - m /\ m + 2 <= n
        BY <4>1
      <4>. QED
        BY <4>2 DEF n, l
    <3>2. 2 \in 1..(Len(s) - (m + 1) + 1) /\ m + 1 + 2 - 1 = m + 2
      BY <1>2, <2>2, <3>1
    <3>3. v[2] = s[m + 2]
      BY <2>3, <3>2
    <3>. QED
      BY <1>2, <2>2, <2>5, <3>1, <3>3
  <2>7. /\ w \in Seq(S)
        /\ Len(w) = IF m + 3 <= Len(s) THEN Len(s) - (m + 3) + 1 ELSE 0
        /\ \A i \in 1..(Len(s) - (m + 3) + 1) : w[i] = s[m + 3 + i - 1]
    <3>1. m + 3 \in Int /\ Len(s) \in Int /\ \A i \in (m + 3)..Len(s) : s[i] \in S
      BY <1>2, <2>2
    <3>. QED
      BY <3>1, SubSeqProperties
  <2>. HIDE DEF w
  <2>8. NoScheme(s) = w
    BY <1>1, <1>3
  <2>9. ASSUME Len(w) # 0
        PROVE  m + 3 \in 2..Len(s) /\ s[(m + 3) - 1] = "/" /\ s[m + 3] = w[1]
    <3>1. m + 3 <= Len(s)
      BY <1>2, <2>2, <2>7, <2>9
    <3>2. 1 \in 1..(Len(s) - (m + 3) + 1) /\ m + 3 + 1 - 1 = m + 3 /\ (m + 3) - 1 = m + 2
      BY <1>2, <2>2, <3>1
    <3>3. w[1] = s[m + 3]
      BY <2>7, <3>2
    <3>. QED
      BY <1>2, <2>2, <2>6, <3>1, <3>2, <3>3
  <2>. QED
    BY <2>7, <2>8, <2>9
<1>4. CASE at = {}
  <2>1. NoScheme(s) = s
    BY <1>1, <1>4
  <2>2. ~HasScheme(s)
    <3>1. SUFFICES ASSUME NEW t \in SchemeToken, IsPrefix(<<t>> \o Slashes, s)
                   PROVE  1 \in at
      BY <1>4 DEF HasScheme
    <3> DEFINE U == S \cup SchemeToken
    <3>2. s \in Seq(U) /\ "/" \in U /\ t \in U
      BY SeqMonotonic
    <3>3. Len(s) >= 3 /\ s[1] = t /\ s[2] = "/" /\ s[3] = "/"
      <4>. HIDE DEF U
      <4>. QED
        BY <3>1, <3>2, SchemeMeans
    <3> DEFINE v == SubSeq(s, 2, Len(s))
               b == Slashes
    <3>4. /\ v \in Seq(S)
          /\ Len(v) = IF 2 <= Len(s) THEN Len(s) - 2 + 1 ELSE 0
          /\ \A i \in 1..(Len(s) - 2 + 1) : v[i] = s[2 + i - 1]
      <4>1. 2 \in Int /\ Len(s) \in Int /\ \A i \in 2..Len(s) : s[i] \in S
        BY <1>2
      <4>. QED
        BY <4>1, SubSeqProperties
    <3>5. b \in Seq(S) /\ Len(b) = 2 /\ b[1] = "/" /\ b[2] = "/"
      BY DEF Slashes
    <3>. HIDE DEF v, b
    <3>6. Len(v) >= 2 /\ v[1] = "/" /\ v[2] = "/"
      <4>1. 1 \in 1..(Len(s) - 2 + 1) /\ 2 \in 1..(Len(s) - 2 + 1)
        BY <1>2, <3>3
      <4>2. v[1] = s[2] /\ v[2] = s[3]
        BY <3>4, <4>1
      <4> DEFINE n == Len(s)
                 l == Len(v)
      <4>3. n \in Nat /\ n >= 3 /\ l = IF 2 <= n THEN n - 2 + 1 ELSE 0
        BY <1>2, <3>3, <3>4
      <4>. HIDE DEF n, l
      <4>4. l >= 2
        BY <4>3
      <4>. QED
        BY <3>3, <4>2, <4>4 DEF l
    <3>7. IsPrefix(b, v)
      <4>1. 1..Len(b) = {1, 2}
        BY <3>5
      <4>2. Len(b) <= Len(v) /\ \A i \in 1..Len(b) : b[i] = v[i]
        BY <3>5, <3>6, <4>1
      <4>. QED
        BY <3>4, <3>5, <4>2, PrefixMeans
    <3>. QED
      BY <1>2, <3>3, <3>7 DEF v, b
  <2>. QED
    BY <2>1, <2>2
<1>. QED
  BY <1>3, <1>4

\* The domain is what stands before the first slash, if that is not the first token.
LEMMA DomainMeans ==
    ASSUME NEW S, NEW r, NEW rest \in Seq(S), rest = NoScheme(r.uri)
    PROVE  \/ StrategyDomain(r) \in {<<"default">>, <<"trade">>}
           \/ \E k \in 2..Len(rest) : /\ StrategyDomain(r) = SubSeq(rest, 1, k - 1)
                                      /\ rest[k] = "/"
                                      /\ \A j \in 1..(k - 1) : rest[j] # "/"
<1> DEFINE I == {i \in 1..Len(rest) : rest[i] = "/"}
           k == IF I # {} THEN Min(I) ELSE 0
           e == IF r.actor = "trade-desk" THEN <<"trade">> ELSE <<"default">>
<1>1. StrategyDomain(r) = IF k > 1 THEN SubSeq(rest, 1, k - 1) ELSE e
  BY Zenon DEF StrategyDomain, SelectInSeq
<1>2. e \in {<<"default">>, <<"trade">>}
  BY Zenon
<1>3. Len(rest) \in Nat /\ I \subseteq 1..Len(rest)
  BY LenProperties
<1>4. k # 0 => k \in I /\ \A j \in 1..(k - 1) : j \notin I
  <2>. HIDE DEF I
  <2>. QED
    BY <1>3, FirstPlace
<1>5. k = 0 => ~(k > 1)
  <2>. HIDE DEF k
  <2>. QED
    OBVIOUS
<1>. HIDE DEF e, k
<1>6. CASE k > 1
  <2>1. k \in 2..Len(rest) /\ rest[k] = "/"
    BY <1>3, <1>4, <1>5, <1>6
  <2>2. \A j \in 1..(k - 1) : rest[j] # "/"
    BY <1>3, <1>4, <1>5, <2>1
  <2>. QED
    BY <1>1, <1>6, <2>1, <2>2
<1>. QED
  BY <1>1, <1>2, <1>6

\* A domain is the head of the path.
LEMMA DomainHeads ==
    ASSUME uri \in Seq(Chars)
    PROVE  DomainIsHead
<1>1. SUFFICES ASSUME NEW r \in Requests
               PROVE  LET d == StrategyDomain(r) IN
                      /\ d # <<>> /\ "/" \notin {d[i] : i \in DOMAIN d}
                      /\ \/ d \in {<<"default">>, <<"trade">>}
                         \/ IsPrefix(d \o <<"/">>, NoScheme(r.uri))
  BY DEF DomainIsHead
<1> DEFINE d == StrategyDomain(r)
           rest == NoScheme(r.uri)
<1>2. r.uri = NormalizeUri(uri) /\ "/" \in Chars
  BY DEF Requests, HandleRac, HandleHttp, HandleMcp, Chars
<1>3. r.uri \in Seq(Chars)
  BY <1>2, NormalizeLeaves
<1>4. rest \in Seq(Chars) /\ Len(rest) \in Nat /\ \A i \in 1..Len(rest) : rest[i] \in Chars
  <2>1. rest \in Seq(Chars)
    BY <1>2, <1>3, NoSchemeLeaves
  <2>. HIDE DEF rest
  <2>. QED
    BY <2>1, LenProperties, ElementOfSeq
<1>5. \/ d \in {<<"default">>, <<"trade">>}
      \/ \E k \in 2..Len(rest) : /\ d = SubSeq(rest, 1, k - 1)
                                 /\ rest[k] = "/"
                                 /\ \A j \in 1..(k - 1) : rest[j] # "/"
  BY <1>4, DomainMeans
<1>. HIDE DEF d, rest
<1>6. CASE d \in {<<"default">>, <<"trade">>}
  <2>1. d # <<>> /\ DOMAIN d = {1} /\ d[1] # "/"
    BY <1>6
  <2>. QED
    BY <1>6, <2>1 DEF d, rest
<1>7. ASSUME NEW k \in 2..Len(rest), d = SubSeq(rest, 1, k - 1), rest[k] = "/",
             \A j \in 1..(k - 1) : rest[j] # "/"
      PROVE  /\ d # <<>> /\ "/" \notin {d[i] : i \in DOMAIN d}
             /\ IsPrefix(d \o <<"/">>, rest)
  <2>0. k \in Nat /\ k >= 2 /\ k <= Len(rest)
    BY <1>4
  <2>1. /\ d \in Seq(Chars) /\ Len(d) = k - 1
        /\ \A i \in 1..(k - 1) : d[i] = rest[i]
    <3> DEFINE v == SubSeq(rest, 1, k - 1)
    <3>1. k - 1 \in Int /\ \A i \in 1..(k - 1) : rest[i] \in Chars
      BY <1>4, <2>0
    <3>2. /\ v \in Seq(Chars) /\ Len(v) = IF 1 <= k - 1 THEN (k - 1) - 1 + 1 ELSE 0
          /\ \A i \in 1..((k - 1) - 1 + 1) : v[i] = rest[1 + i - 1]
      BY <3>1, SubSeqProperties
    <3>. HIDE DEF v
    <3>3. (k - 1) - 1 + 1 = k - 1 /\ 1 <= k - 1 /\ \A i \in 1..(k - 1) : 1 + i - 1 = i
      BY <2>0
    <3>. QED
      BY <1>7, <3>2, <3>3 DEF v
  <2>2. d # <<>> /\ "/" \notin {d[i] : i \in DOMAIN d}
    <3>1. DOMAIN d = 1..(k - 1)
      BY <2>1, LenProperties
    <3>2. 1 \in DOMAIN d
      BY <2>0, <3>1
    <3>. QED
      BY <1>7, <2>1, <3>1, <3>2
  <2> DEFINE a == <<"/">>
             p == d \o a
  <2>3. a \in Seq(Chars) /\ Len(a) = 1 /\ a[1] = "/"
    BY <1>2
  <2>. HIDE DEF a
  <2>4. /\ p \in Seq(Chars) /\ Len(p) = Len(d) + Len(a)
        /\ \A i \in 1..Len(d) + Len(a) : p[i] = IF i <= Len(d) THEN d[i] ELSE a[i - Len(d)]
    BY <2>1, <2>3, ConcatProperties
  <2>. HIDE DEF p
  <2>5. Len(p) = k /\ \A i \in 1..k : p[i] = rest[i]
    <3>1. Len(d) + Len(a) = k
      BY <2>0, <2>1, <2>3
    <3>2. \A i \in 1..k : i = k \/ i \in 1..(k - 1)
      BY <2>0
    <3>3. p[k] = rest[k]
      <4>1. k \in 1..k /\ ~(k <= k - 1) /\ k - (k - 1) = 1
        BY <2>0
      <4>. QED
        BY <1>7, <2>1, <2>3, <2>4, <3>1, <4>1
    <3>4. ASSUME NEW i \in 1..(k - 1)
          PROVE  p[i] = rest[i]
      <4>1. i \in 1..k /\ i <= k - 1
        BY <2>0
      <4>. QED
        BY <2>1, <2>4, <3>1, <4>1
    <3>. QED
      BY <2>4, <3>1, <3>2, <3>3, <3>4
  <2>6. IsPrefix(p, rest)
    BY <1>4, <2>0, <2>4, <2>5, PrefixMeans
  <2>. QED
    BY <2>2, <2>6 DEF p, a
<1>8. CASE \E k \in 2..Len(rest) : /\ d = SubSeq(rest, 1, k - 1)
                                   /\ rest[k] = "/"
                                   /\ \A j \in 1..(k - 1) : rest[j] # "/"
  BY <1>7, <1>8 DEF d, rest
<1>. QED
  BY <1>5, <1>6, <1>8

\* The domain "trade" by scheme and path is a trade.
LEMMA TradeByPath ==
    ASSUME uri \in Seq(Chars)
    PROVE  TradeDomainTrades
<1>1. SUFFICES ASSUME NEW r \in Requests, HasScheme(r.uri),
                      IsPrefix(<<"trade", "/">>, NoScheme(r.uri))
               PROVE  StrategyDomain(r) = <<"trade">> /\ IsTradeRequest(r)
  BY DEF TradeDomainTrades
<1> DEFINE U == Chars \cup {"trade"}
           rest == NoScheme(r.uri)
           s == r.uri
<1>2. "/" \in U /\ "trade" \in U
  BY DEF Chars
<1>3. s \in Seq(U)
  <2>1. s = NormalizeUri(uri) /\ "/" \in Chars
    BY DEF Requests, HandleRac, HandleHttp, HandleMcp, Chars
  <2>2. s \in Seq(Chars)
    BY <2>1, NormalizeLeaves
  <2>. HIDE DEF s
  <2>. QED
    BY <2>2, SeqMonotonic
<1>. HIDE DEF U
<1>4. /\ rest \in Seq(U)
      /\ Len(rest) # 0 => \E m \in 2..Len(s) : s[m - 1] = "/" /\ s[m] = rest[1]
  BY <1>1, <1>2, <1>3, NoSchemeLeaves
<1>. HIDE DEF rest
<1>5. Len(rest) \in Nat /\ Len(rest) >= 2 /\ rest[1] = "trade" /\ rest[2] = "/"
  <2> DEFINE a == <<"trade", "/">>
  <2>1. a \in Seq(U) /\ Len(a) = 2 /\ a[1] = "trade" /\ a[2] = "/"
    BY <1>2
  <2>2. IsPrefix(a, rest)
    BY <1>1 DEF rest
  <2>. HIDE DEF a
  <2>3. Len(a) <= Len(rest) /\ \A i \in 1..Len(a) : a[i] = rest[i]
    BY <1>4, <2>1, <2>2, PrefixMeans
  <2>4. 1 \in 1..Len(a) /\ 2 \in 1..Len(a) /\ Len(rest) \in Nat
    BY <1>4, <2>1, LenProperties
  <2>. QED
    BY <2>1, <2>3, <2>4
<1>6. StrategyDomain(r) = <<"trade">>
  <2> DEFINE I == {i \in 1..Len(rest) : rest[i] = "/"}
             k == IF I # {} THEN Min(I) ELSE 0
  <2>1. k = 2
    <3>1. I \subseteq Nat /\ 2 \in I /\ 1 \notin I
      BY <1>5
    <3>2. \A i \in I : i >= 1
      BY <1>5
    <3>. HIDE DEF I
    <3>3. k \in I /\ \A j \in I : k <= j
      BY <3>1, MinOfNats
    <3>. HIDE DEF k
    <3>. QED
      BY <3>1, <3>2, <3>3
  <2>2. k > 1 => StrategyDomain(r) = SubSeq(rest, 1, k - 1)
    BY Zenon DEF StrategyDomain, SelectInSeq, rest
  <2>. HIDE DEF k
  <2>3. StrategyDomain(r) = SubSeq(rest, 1, 1)
    BY <2>1, <2>2
  <2> DEFINE v == SubSeq(rest, 1, 1)
             a == <<"trade">>
  <2>4. v \in Seq(U) /\ Len(v) = 1 /\ v[1] = "trade"
    <3>1. \A i \in 1..1 : rest[i] \in U
      BY <1>2, <1>5
    <3>2. /\ v \in Seq(U) /\ Len(v) = IF 1 <= 1 THEN 1 - 1 + 1 ELSE 0
          /\ \A i \in 1..(1 - 1 + 1) : v[i] = rest[1 + i - 1]
      BY <3>1, SubSeqProperties
    <3>. HIDE DEF v
    <3>. QED
      BY <1>5, <3>2
  <2>5. a \in Seq(U) /\ Len(a) = 1 /\ a[1] = "trade"
    BY <1>2
  <2>. HIDE DEF v, a
  <2>6. v = a
    <3>1. \A i \in 1..Len(v) : v[i] = a[i]
      BY <2>4, <2>5
    <3>. QED
      BY <2>4, <2>5, <3>1, SeqEqual
  <2>. QED
    BY <2>3, <2>6 DEF v, a
<1>7. <<"/", "trade">> \in SubSeqs(s)
  <2>1. PICK m \in 2..Len(s) : s[m - 1] = "/" /\ s[m] = "trade"
    BY <1>4, <1>5
  <2>2. Len(s) \in Nat /\ m \in Nat /\ m >= 2 /\ m <= Len(s)
    BY <1>3, <2>1, LenProperties
  <2> DEFINE v == SubSeq(s, m - 1, m)
             a == <<"/", "trade">>
  <2>3. v \in Seq(U) /\ Len(v) = 2 /\ v[1] = "/" /\ v[2] = "trade"
    <3>1. m - 1 \in Int /\ m \in Int /\ \A i \in (m - 1)..m : s[i] \in U
      BY <1>3, <2>2, ElementOfSeq
    <3>2. /\ v \in Seq(U) /\ Len(v) = IF m - 1 <= m THEN m - (m - 1) + 1 ELSE 0
          /\ \A i \in 1..(m - (m - 1) + 1) : v[i] = s[(m - 1) + i - 1]
      BY <3>1, SubSeqProperties
    <3>. HIDE DEF v
    <3>3. /\ m - (m - 1) + 1 = 2 /\ m - 1 <= m
          /\ 1 \in 1..2 /\ 2 \in 1..2 /\ (m - 1) + 1 - 1 = m - 1 /\ (m - 1) + 2 - 1 = m
      BY <2>2
    <3>. QED
      BY <2>1, <3>2, <3>3
  <2>4. a \in Seq(U) /\ Len(a) = 2 /\ a[1] = "/" /\ a[2] = "trade"
    BY <1>2
  <2>. HIDE DEF a
  <2>5. v = a
    <3>. HIDE DEF v
    <3>1. \A i \in 1..Len(v) : v[i] = a[i]
      <4>1. 1..Len(v) = {1, 2}
        BY <2>3
      <4>. QED
        BY <2>3, <2>4, <4>1
    <3>. QED
      BY <2>3, <2>4, <3>1, SeqEqual
  <2>6. v \in SubSeqs(s)
    <3>1. m - 2 \in 0..Len(s) /\ m \in 0..Len(s) /\ (m - 2) + 1 = m - 1
      BY <2>2
    <3> DEFINE i == m - 2
    <3>2. v = SubSeq(s, i + 1, m) /\ i \in 0..Len(s) /\ m \in 0..Len(s)
      BY <3>1
    <3>. HIDE DEF v, i, s
    <3>. QED
      BY <3>2 DEF SubSeqs
  <2>. QED
    BY <2>5, <2>6 DEF a
<1>8. IsTradeRequest(r)
  BY <1>7, Zenon DEF IsTradeRequest
<1>. QED
  BY <1>6, <1>8

-----------------------------------------------------------------------------

\* The tables that choose a protocol agree on who executes, on what stays with the
\* kernel and on which protocols need a channel, for every id and every latency.
THEOREM ProtocolsAgree == ProtocolSpec => []ProtocolTablesAgree
<1>1. ProtocolInit => question \in Question
  BY DEF ProtocolInit
<1>2. question \in Question /\ [ProtocolNext]_question => (question \in Question)'
  BY DEF ProtocolNext
<1>. QED
  BY <1>1, <1>2, AnswersAgree, PTL DEF ProtocolSpec

\* Every decision of the cognitive router is one that the Alliags present, the metrics
\* and the constraints justify, in whatever order it was given them.
THEOREM DecisionsAreJustified == CognitiveSpec => []DecisionsJustified
<1>1. CognitiveInit => CInv
  BY DEF CognitiveInit, CInv, MetricsOK, DecisionsJustified, RoutedWhereAllowed,
        ClassCoversMetrics, FirstPriorityWins
<1>2. CInv => DecisionsJustified
  BY DEF CInv
<1>. QED
  BY <1>1, <1>2, CognitiveStep, PTL DEF CognitiveSpec

\* The requests stay requests.
LEMMA QueriesAsked == RoutingSpec => [](query \in Query)
<1>1. RoutingInit => query \in Query
  BY DEF RoutingInit, Query
<1>2. query \in Query /\ [RoutingNext]_query => (query \in Query)'
  BY LoadStep
<1>. QED
  BY <1>1, <1>2, PTL DEF RoutingSpec

\* The copies of the routing table agree, and so do the strategy's tests for a trade.
THEOREM RoutingAgrees == RoutingSpec => []RoutingTablesAgree
BY QueriesAsked, CopiesAgree, PTL

\* Unless a strategy names the node, a request leaves for a peer of the view that has
\* a shorter queue or, by overload, room.
THEOREM RemoteHasRoom == RoutingSpec => []RemoteRelieves
BY QueriesAsked, RemotesRelieve, PTL

\* A trade runs locally up to a queue of 0.9, and from 0.95 on goes to the peer with
\* the shortest queue, whatever the policy and the score say.
THEOREM TradesRunLocally == RoutingSpec => []TradesStayLocal
BY QueriesAsked, TradesStay, PTL

\* Without a strategy a longer queue never calls a request back.
THEOREM SentAwayStaysAway == RoutingSpec => StaysAway
<1>1. query \in Query /\ [RoutingNext]_query =>
          [ /\ query.strategy = NoStrategy /\ IsRemoteTarget
            /\ query'.ctx.queue >= ctx.queue
            => Route(query').at = "Remote" ]_query
  BY LoadStep
<1>. QED
  BY <1>1, QueriesAsked, PTL DEF StaysAway, RoutingSpec

\* A URI consists of tokens.
LEMMA UrisAreTokens == IngressSpec => [](uri \in Seq(Chars))
<1>1. IngressInit => uri \in Seq(Chars)
  BY DEF IngressInit
<1>2. uri \in Seq(Chars) /\ [IngressNext]_uri => (uri \in Seq(Chars))'
  <2>1. Token \subseteq Chars
    BY DEF Chars
  <2>2. ASSUME uri \in Seq(Chars), NEW t \in Token, uri' = Append(uri, t)
        PROVE  uri' \in Seq(Chars)
    BY <2>1, <2>2, AppendProperties
  <2>. QED
    BY <2>2 DEF IngressNext
<1>. QED
  BY <1>1, <1>2, PTL DEF IngressSpec

\* Normalisation has one result per request and keeps the fan that the URI names,
\* for a URI of any length over any tokens.
THEOREM UrisKept == IngressSpec => []UriKept
<1>1. uri \in Seq(Chars) => UriKept
  BY NormalFormHolds, FanSurvives DEF UriKept
<1>. QED
  BY <1>1, UrisAreTokens, PTL

\* The domain that chooses a strategy is the head of the path, and the trading
\* strategy takes what reaches it by that domain for a trade.
THEOREM DomainsFit == IngressSpec => []DomainsAgree
<1>1. uri \in Seq(Chars) => DomainsAgree
  BY DomainHeads, TradeByPath DEF DomainsAgree
<1>. QED
  BY <1>1, UrisAreTokens, PTL

=============================================================================
