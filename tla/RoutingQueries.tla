--------------------------- MODULE RoutingQueries ----------------------------
(***************************************************************************)
(* Every decision of Router for one request whose local load changes.      *)
(***************************************************************************)
EXTENDS Router

CONSTANTS
    LocalQueue, LocalCpu,  \* what a snapshot shows
    PeerQueue, PeerCpu,    \* what the view shows
    MaxPeers               \* bound: peers in a view

ASSUME LoadAssumption == /\ LocalQueue \subseteq Nat /\ LocalCpu \subseteq Nat
                         /\ PeerQueue \subseteq Nat /\ PeerCpu \subseteq Nat
                         /\ MaxPeers \in Nat

\* Of other strategies: calming, neutral and alarming.
Bias == {-300, 0, 400}

Nodes == 1..MaxPeers
Strange == MaxPeers + 1    \* a node outside the view

Peer == [node : Nodes, queue : PeerQueue, cpu : PeerCpu]
IdlePeer == [node |-> 1, queue |-> 0, cpu |-> 0]

\* The peer at place i is node i.
Views == {v \in SeqOf(Peer, MaxPeers) : \A i \in DOMAIN v : v[i].node = i}

Context == [queue : LocalQueue, cpu : LocalCpu, peers : Views]

OtherStrategy == [name : {"other"}, hint : {None, Keep, ForceLocal, ForceRemote(Strange)},
                  bias : Bias]

VARIABLE query

RoutingInit == \E c \in Context, p \in RoutingPolicy, t \in BOOLEAN,
           s \in {NoStrategy, Trading} \cup OtherStrategy :
            query = [ctx |-> c, policy |-> p, trade |-> t, strategy |-> s]

LoadChanges == \E q \in LocalQueue : query' = [query EXCEPT !.ctx.queue = q]

CpuChanges == \E c \in LocalCpu : query' = [query EXCEPT !.ctx.cpu = c]

RoutingNext == LoadChanges \/ CpuChanges

RoutingSpec == RoutingInit /\ [][RoutingNext]_query

-----------------------------------------------------------------------------

ctx == query.ctx
IsRemoteTarget == Route(query).at = "Remote"
Chosen == ctx.peers[Route(query).node]
Overloaded == query.strategy # NoStrategy /\ PressureScore(query) > 950

\* Without a strategy route answers what route_legacy answers: the table is
\* written down twice (router.rs:78 and :146).
RouteAgrees ==
    query.strategy = NoStrategy => Route(query) = RouteLegacy(ctx, query.policy)

\* Unless a strategy names the node, a request leaves for a peer of the view whose
\* queue is shorter than the local one, or, by overload, has room (router.rs:161).
RemoteRelieves ==
    IsRemoteTarget /\ HintOf(query).hint # "ForceRemote" =>
        /\ Route(query).node \in DOMAIN ctx.peers
        /\ Chosen.queue < ctx.queue \/ (Overloaded /\ Chosen.queue < 70)

\* A trade that the pressure gate lets in, at a queue of at most 0.9
\* (backpressure.rs:85), runs locally whatever the policy, the view and the score
\* say; past that, where only callers without the gate get, no peer has a shorter
\* queue than the one it goes to.
TradesStayLocal ==
    IsTrade(query) =>
        /\ ctx.queue <= 90 => ~IsRemoteTarget
        /\ ctx.queue >= 95 /\ ctx.peers # <<>> =>
               /\ IsRemoteTarget
               /\ \A i \in DOMAIN ctx.peers : Chosen.queue <= ctx.peers[i].queue

\* select_target has no view: under LocalOnly and PreferLocal it sends away exactly
\* what route would send away to an idle peer (router.rs:60 repeats the bound).
SelectTargetCovers ==
    query.strategy = NoStrategy /\ query.policy # "PressureAware" =>
        SelectTarget(query.policy, ctx.queue).at =
            Route([query EXCEPT !.ctx.peers = <<IdlePeer>>]).at

\* A request that must not wait is neither retried nor mixed up with another one:
\* low latency, no retry and a salted key come together (trading_strategy.rs:46).
NeverRetried ==
    LET d == Decision(query) IN
    /\ d.qos = "LowLatency" <=> d.retry = "NoRetry"
    /\ d.retry = "NoRetry" <=> d.idempotency_salt # "none"

\* What is written down more than once agrees: the routing table (three times) and
\* the strategy's tests for a trade (three hooks).
RoutingTablesAgree == RouteAgrees /\ SelectTargetCovers /\ NeverRetried

\* Without a strategy a longer queue never calls a request back: once the policy
\* sends it away it stays away until the queue is shorter.
StaysAway ==
    [][ query.strategy = NoStrategy /\ IsRemoteTarget /\ query'.ctx.queue >= ctx.queue =>
            Route(query').at = "Remote" ]_query

=============================================================================
