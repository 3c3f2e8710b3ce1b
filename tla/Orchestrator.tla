---------------------------- MODULE Orchestrator ----------------------------
(***************************************************************************)
(* IoOrchestrator::dispatch_unified (src/core/orch.rs) and what surrounds  *)
(* it.  The orchestrator holds RefCells, so one dispatch runs at a time;   *)
(* its counters, breaker, resolver and strategy registry are shared with   *)
(* other threads, whose operations fall between any two of its steps.  A   *)
(* step of the dispatch ends where it next touches what others can change. *)
(***************************************************************************)
EXTENDS IdempotencyGuard, Supervision, StrategyTable

CONSTANTS
    Request,     \* what ingress hands over: [qpid, domain, scheme]
    SaltedKey,   \* SaltedKey[s][r]: strategy_qpid under strategy s
    Hints,       \* Hints[s]: the answers s.select_route may give
    Amo,         \* the modules a resolver table can name
    Scheme,      \* the URI schemes a resolver table can hold
    FanTable,    \* the tables reload may install: scheme -> Amo or None
    DefaultTable,\* DEFAULT_TABLE
    Intake,      \* other threads that use inc_queue and dec_queue
    MayStepBack, \* may the wall clock be set back?
    MaxPanics    \* bound: panics out of the shell

Status == {200, 404, 409, 429, 503}
Hint   == {"none", "Keep", "ForceLocal", "ForceRemote"}

ASSUME RequestAssumption ==
    /\ \A r \in Request : /\ r.qpid \in Qpid
                          /\ r.domain \in Domain
                          /\ r.scheme \in Scheme \cup {"none"}
    /\ "rac" \in Scheme
    /\ SaltedKey \in [Strategy -> [Request -> Qpid]]
    /\ Hints \in [Strategy -> (SUBSET Hint) \ {{}}]
ASSUME TableAssumption ==
    /\ FanTable \subseteq [Scheme -> Amo \cup {None}]
    /\ DefaultTable \in FanTable
ASSUME WidthAssumption ==
    /\ IsFiniteSet(Intake)
    /\ Cardinality(Intake) + 1 < U32
    /\ MaxPanics \in Nat
    /\ MaxPanics + 1 < U32
ASSUME StepBackAssumption == MayStepBack \in BOOLEAN
ASSUME NoneAssumption == /\ None \notin Qpid /\ None \notin Request
                         /\ None \notin Amo /\ None \notin Status

VARIABLES
    strategy,    \* IoOrchestrator::strategy
    fans,        \* the resolver's current table
    loaded,      \* AmoLoader::loaded
    pc, req, using, key, amo, target, stamp, status, \* the running dispatch
    held,        \* the intake threads between inc_queue and dec_queue
    executed,    \* history: times a request ran under a key
    panics       \* history: executions that unwound

config == <<strategy, table, fans>>
local  == <<pc, req, using, key, amo, target, stamp, status>>
others == <<held, supervisor, failures>>
runs   == <<loaded, executed, panics>>
vars   == <<pressure, latency, breaker, now, config, guard, local, others, runs>>

NoDispatch == /\ pc = "idle" /\ req = None /\ using = None /\ key = None
              /\ amo = None /\ target = None /\ stamp = 0 /\ status = None

Init == /\ PressureInit
        /\ TableInit
        /\ strategy = None
        /\ fans = DefaultTable
        /\ GuardInit
        /\ NoDispatch
        /\ held = {}
        /\ SupervisionInit
        /\ loaded = {} /\ executed = [k \in Qpid |-> 0] /\ panics = 0

-----------------------------------------------------------------------------
(* The dispatch, step by step.                                             *)

Goto(from, to) == pc = from /\ pc' = to

\* An early return: what is left is to drop the ScopeGuard of the queue.
Answer(from, code) == Goto(from, "return") /\ status' = code

\* Mutant: the clock of a build without `std`, which stands at 0.
EnterClockless(r) ==
    /\ Goto("idle", "breaker")
    /\ IncQueue
    /\ req' = r /\ stamp' = 0
    /\ UNCHANGED <<in_flight, latency, breaker, now, config, guard, using, key,
                   amo, target, status, others, runs>>

\* inc_queue, then the clock reading the breaker is checked with.  The bound
\* on acceptances stops new dispatches, never one under way.
Enter(r) ==
    /\ \A k \in Qpid : accepts[k] < MaxAccepts
    /\ Goto("idle", "breaker")
    /\ IncQueue
    /\ req' = r /\ stamp' = now
    /\ UNCHANGED <<in_flight, latency, breaker, now, config, guard, using, key,
                   amo, target, status, others, runs>>

\* Mutant: a refusal that returns past the guard of the queue.
CheckBreakerUnguarded ==
    /\ \/ Closed(stamp) /\ Goto("breaker", "claim") /\ UNCHANGED <<req, stamp>>
       \/ ~Closed(stamp) /\ Goto("breaker", "idle") /\ req' = None /\ stamp' = 0
    /\ UNCHANGED <<pressure, latency, breaker, now, config, guard, using, key,
                   amo, target, status, others, runs>>

CheckBreaker ==
    /\ \/ Closed(stamp) /\ Goto("breaker", "claim") /\ UNCHANGED status
       \/ ~Closed(stamp) /\ Answer("breaker", 503)
    /\ UNCHANGED <<pressure, latency, breaker, now, config, guard, req, using, key,
                   amo, target, stamp, others, runs>>

\* The strategy in force: the one set on the orchestrator, or else what the
\* registry resolves for the request's domain.
StrategyFor(r) == IF strategy # None THEN strategy ELSE Lookup(r.domain)

\* strategy_qpid
KeyUnder(s, r) == IF s = None THEN r.qpid ELSE SaltedKey[s][r]

\* Mutant: the verdict of check_qpid is ignored.
ClaimUnchecked ==
    /\ Goto("claim", "gate")
    /\ using' = StrategyFor(req)
    /\ key' = KeyUnder(using', req)
    /\ seen' = Remember(seen, key')
    /\ accepts' = [accepts EXCEPT ![key'] = @ + 1]
    /\ UNCHANGED <<pressure, latency, breaker, now, config, req, amo, target, stamp,
                   status, others, runs>>

\* Strategy lookup and check_qpid.
Claim ==
    /\ pc = "claim"
    /\ using' = StrategyFor(req)
    /\ key' = KeyUnder(using', req)
    /\ \/ Fresh(key') /\ Goto("claim", "gate") /\ UNCHANGED status
       \/ Duplicate(key') /\ Answer("claim", 409)
    /\ UNCHANGED <<pressure, latency, breaker, now, config, req, amo, target, stamp,
                   others, runs>>

\* Mutant: a request waits at the gate until the pressure falls.
GateWaiting ==
    /\ Decide(queue_depth, in_flight) # "Reject"
    /\ Goto("gate", "resolve")
    /\ UNCHANGED <<pressure, latency, breaker, now, config, guard, req, using, key,
                   amo, target, stamp, status, others, runs>>

\* gate_now: only Reject stops the request, and the key stays claimed.
Gate ==
    /\ LET decision == Decide(queue_depth, in_flight)
       IN  \/ decision = "Reject" /\ Answer("gate", 429)
           \/ decision # "Reject" /\ Goto("gate", "resolve") /\ UNCHANGED status
    /\ UNCHANGED <<pressure, latency, breaker, now, config, guard, req, using, key,
                   amo, target, stamp, others, runs>>

\* A URI without one of the three schemes is read as rac://.
SchemeOf(r) == IF r.scheme = "none" THEN "rac" ELSE r.scheme

\* The entry of the table installed now whose pattern starts the URI, or None.
ResolveUri(r) == fans[SchemeOf(r)]

\* Mutant: the result of resolve_uri is used unchecked.
ResolveUnchecked ==
    /\ Goto("resolve", "route")
    /\ amo' = ResolveUri(req)
    /\ UNCHANGED <<pressure, latency, breaker, now, config, guard, req, using, key,
                   target, stamp, status, others, runs>>

\* Without a fan the request ends with 404, and the key stays claimed.
Resolve ==
    /\ pc = "resolve"
    /\ amo' = ResolveUri(req)
    /\ \/ amo' = None /\ Answer("resolve", 404)
       \/ amo' # None /\ Goto("resolve", "route") /\ UNCHANGED status
    /\ UNCHANGED <<pressure, latency, breaker, now, config, guard, req, using, key,
                   target, stamp, others, runs>>

\* route_with_strategy with a view that has no peers: local whatever the
\* pressure and the bias, unless the strategy's hint forces a remote node.
Targets(s) == IF s = None THEN {"Local"}
              ELSE {IF h = "ForceRemote" THEN "Remote" ELSE "Local" : h \in Hints[s]}

\* ensure_loaded; verify_hooks before it always passes.
EnsureLoaded(a) == loaded' = loaded \cup {a}

\* Routing, loading, inc_inflight and the clock reading that starts the
\* measurement.
Route ==
    /\ Goto("route", "execute")
    /\ target' \in Targets(using)
    /\ EnsureLoaded(amo)
    /\ IncInflight
    /\ stamp' = now
    /\ UNCHANGED <<queue_depth, latency, breaker, now, config, guard, req, using, key,
                   amo, status, others, executed, panics>>

\* The kernel binds the request to the fan and has the shell execute it.
Ran == executed' = [executed EXCEPT ![key] = @ + 1]

\* execute_bound returns, with a result or with an error rendered as one: the
\* target is not consulted.  The clock is read and stamp now holds the time
\* it took.
Execute ==
    /\ Goto("execute", "settle")
    /\ Ran
    /\ stamp' = SaturatingSub(now, stamp)
    /\ UNCHANGED <<pressure, latency, breaker, now, config, guard, req, using, key,
                   amo, target, status, others, loaded, panics>>

\* A panic out of the shell unwinds: the guard of the queue is dropped, no
\* one calls dec_inflight, and there is no answer.
Unwind ==
    /\ panics < MaxPanics
    /\ Goto("execute", "return")
    /\ Ran
    /\ panics' = panics + 1
    /\ UNCHANGED <<pressure, latency, breaker, now, config, guard, req, using, key,
                   amo, target, stamp, status, others, loaded>>

\* Mutant: the counter of running requests is not put back.
SettleLeaking ==
    /\ Goto("settle", "succeed")
    /\ UpdateLatency(stamp)
    /\ UNCHANGED <<pressure, breaker, now, config, guard, req, using,
                   key, amo, target, stamp, status, others, runs>>

\* update_latency and dec_inflight.
Settle ==
    /\ Goto("settle", "succeed")
    /\ UpdateLatency(stamp)
    /\ DecInflight
    /\ UNCHANGED <<queue_depth, breaker, now, config, guard, req, using,
                   key, amo, target, stamp, status, others, runs>>

\* Mutant: pressure is consulted once more, after the request has run.
SucceedGated ==
    /\ OnSuccess
    /\ Answer("succeed", IF Decide(queue_depth, in_flight) = "Reject" THEN 429 ELSE 200)
    /\ UNCHANGED <<pressure, latency, open_until, now, config, guard, req, using, key,
                   amo, target, stamp, others, runs>>

\* The breaker's failures are forgotten whatever the kernel returned.
Succeed ==
    /\ OnSuccess
    /\ Answer("succeed", 200)
    /\ UNCHANGED <<pressure, latency, open_until, now, config, guard, req, using, key,
                   amo, target, stamp, others, runs>>

\* Every way out, unwinding included, drops the ScopeGuard: dec_queue.
Return ==
    /\ Goto("return", "idle")
    /\ DecQueue
    /\ req' = None /\ using' = None /\ key' = None /\ amo' = None
    /\ target' = None /\ stamp' = 0 /\ status' = None
    /\ UNCHANGED <<in_flight, latency, breaker, now, config, guard, others, runs>>

Step == \/ CheckBreaker \/ Claim \/ Gate \/ Resolve \/ Route
        \/ Execute \/ Settle \/ Succeed \/ Return

Dispatch == (\E r \in Request : Enter(r)) \/ Step \/ Unwind

-----------------------------------------------------------------------------
(* What other threads do to the shared parts, and the owner between two    *)
(* dispatches.                                                             *)

Arrive(p) == /\ p \notin held
             /\ held' = held \cup {p}
             /\ IncQueue
             /\ UNCHANGED <<in_flight, latency, breaker, now, config, guard, local,
                            supervisor, failures, runs>>

Depart(p) == /\ p \in held
             /\ held' = held \ {p}
             /\ DecQueue
             /\ UNCHANGED <<in_flight, latency, breaker, now, config, guard, local,
                            supervisor, failures, runs>>

SuperviseBreaker(s) ==
    /\ Supervise(s)
    /\ UNCHANGED <<pressure, latency, now, config, guard, local, held, runs>>

Tick == /\ \E t \in Instants : /\ t # now
                               /\ MayStepBack \/ t > now
                               /\ now' = t
        /\ UNCHANGED <<pressure, latency, breaker, config, guard, local, others, runs>>

\* set_strategy, enable_trading_strategy and clear_strategy need &mut self:
\* never during a dispatch.
SetStrategy(s) ==
    /\ pc = "idle"
    /\ strategy' = s
    /\ UNCHANGED <<pressure, latency, breaker, now, table, fans, guard, local, others,
                   runs>>

ChangeRegistry ==
    /\ Change
    /\ UNCHANGED <<pressure, latency, breaker, now, strategy, fans, guard, local, others,
                   runs>>

Reload(t) == /\ fans' = t
             /\ UNCHANGED <<pressure, latency, breaker, now, strategy, table, guard,
                            local, others, runs>>

Surroundings == \/ \E p \in Intake : Arrive(p) \/ Depart(p)
                \/ \E s \in Supervisor : SuperviseBreaker(s)
                \/ Tick
                \/ \E s \in Strategy \cup {None} : SetStrategy(s)
                \/ ChangeRegistry
                \/ \E t \in FanTable : Reload(t)

Next == Dispatch \/ Surroundings

Spec == Init /\ [][Next]_vars

\* The caller's thread keeps running, and the shell returns or unwinds.
LiveSpec == Spec /\ WF_vars(Step)

\* Requests keep coming and time passes.
BusySpec == LiveSpec /\ WF_vars(\E r \in Request : Enter(r)) /\ WF_vars(Tick)

-----------------------------------------------------------------------------
(* Properties.                                                             *)

Pcs == {"idle", "breaker", "claim", "gate", "resolve", "route", "execute",
        "settle", "succeed", "return"}

\* Between claim and run, and while counted in in_flight.
Waiting   == pc \in {"gate", "resolve", "route", "execute"}
Running   == pc \in {"execute", "settle"}

\* The variables have their types; the counters never leave their width.
TypeOK ==
    /\ PressureTypeOK
    /\ TableTypeOK
    /\ GuardTypeOK
    /\ strategy \in Strategy \cup {None}
    /\ fans \in FanTable
    /\ loaded \subseteq Amo
    /\ pc \in Pcs
    /\ req \in Request \cup {None} /\ (pc # "idle" => req # None)
    /\ using \in Strategy \cup {None}
    /\ key \in Qpid \cup {None} /\ (Waiting \/ Running \/ pc = "succeed" => key # None)
    /\ amo \in Amo \cup {None} /\ (pc = "route" => amo # None)
    /\ target \in {"Local", "Remote", None}
    /\ stamp \in 0..MaxU64
    /\ status \in Status \cup {None}
    /\ held \subseteq Intake
    /\ SupervisionTypeOK
    /\ executed \in [Qpid -> Nat]
    /\ panics \in 0..MaxPanics

Count(b) == IF b THEN 1 ELSE 0

\* The queue counts exactly the dispatch under way and the intake threads
\* between their two calls: every exit of dispatch_unified gives back the
\* place it took.
QueueBalance == queue_depth = Cardinality(held) + Count(pc # "idle")

\* in_flight counts the request being executed, plus one for every execution
\* that ever unwound: nothing gives those back.
InflightBalance == in_flight = Count(Running) + panics

\* A key the guard still remembers has run at most once, across duplicates,
\* refusals, evictions, strategy changes and unwinding.
AtMostOnce == \A k \in seen : executed[k] <= 1

\* The answer a dispatch is about to give agrees with what happened to its
\* key: refusals by the breaker hold none, an answer of 404 or 429 left an
\* acceptance that never ran, and one of 200 ran.
AnswerTruthful ==
    pc = "return" =>
        /\ status = 503 => key = None
        /\ status \in {404, 429} => executed[key] < accepts[key]
        /\ status = 200 => executed[key] > 0

\* The moving average of latencies never exceeds the longest interval the
\* clock can show, even when the clock is set back during an execution.
LatencyBounded ==
    \E first, last \in Instants : avg_latency_ns <= last - first

\* Where each key stands in the abstract ledger.
Standing(k) ==
    IF k = key /\ Waiting THEN IF k \in seen THEN "claimed" ELSE "passing"
    ELSE IF k \in seen THEN IF executed[k] > 0 THEN "ran" ELSE "refused"
    ELSE "free"

Ledger == INSTANCE DispatchLedger WITH
              Key <- Qpid, Capacity <- MaxEntries, ledger <- [k \in Qpid |-> Standing(k)]

\* The pipeline implements the ledger: claims are exclusive, settled once and
\* final until the guard forgets the key.
LedgerSpec == Ledger!Spec

\* Every dispatch ends: from entry, the caller gets control back.
DispatchReturns == (pc = "breaker") ~> (pc = "idle")

\* Once failures stop being reported, and while requests keep coming and time
\* passes, the breaker does not refuse for ever: neither the trips in flight
\* nor the deadline they stored hold it open.
CircuitRecovers == []<>(pc = "return" /\ status # 503)

\* A request routed to a remote node is not executed by the local kernel
\* (canon/asi/runtime_selector.asi: "remote" uses rac_bridge_router).
RemoteUsesBridge == pc = "execute" => target # "Remote"

=============================================================================
