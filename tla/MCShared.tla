------------------------------ MODULE MCShared ------------------------------
(***************************************************************************)
(* The parts of the orchestrator that other threads wait for or read       *)
(* while it uses them: the strategy registry, the resolver cache and the   *)
(* port.  They do not touch each other, so each is explored by itself: a   *)
(* behaviour moves one of them, and the others stay as they are new.       *)
(***************************************************************************)
EXTENDS StrategyRegistry, ResolverCache

CONSTANT Task

VARIABLES
    part,                               \* the one that moves
    queue_depth, in_flight, avg_latency_ns, last_tick_ns, failure_count, open_until, now,
    supervisor, failures, port_pc, at, load

\* A queue of two that two tasks are too many for; the breaker stays closed.
port == INSTANCE PortEntry WITH
            pc <- port_pc, MaxQueue <- 2, MaxInflight <- 1, U32 <- 5, MaxU64 <- 1,
            Instants <- {0, 1}, Supervisor <- {}, Threshold <- 0, OpenFor <- 1,
            MaxFailures <- 0

portVars == <<queue_depth, in_flight, avg_latency_ns, last_tick_ns, failure_count,
              open_until, now, supervisor, failures, port_pc, at, load>>

SharedInit == /\ part \in {"registry", "cache", "port"}
              /\ Init /\ CacheInit /\ port!Init

SharedNext == /\ UNCHANGED part
              /\ \/ part = "registry" /\ Next /\ UNCHANGED <<cacheVars, portVars>>
                 \/ part = "cache" /\ CacheNext /\ UNCHANGED <<vars, portVars>>
                 \/ part = "port" /\ port!Next /\ UNCHANGED <<vars, cacheVars>>

\* The fairness of the parts: whoever is inside a call keeps running.
SharedSpec == /\ SharedInit
              /\ [][SharedNext]_<<part, vars, cacheVars, portVars>>
              /\ \A t \in Thread : WF_vars(Step(t))
              /\ \A t \in Task : WF_portVars(port!Proceed(t))

-----------------------------------------------------------------------------

\* Every task that enters the port leaves: no one waits in the queue for the others
\* to leave it (the gate of backpressure.rs:107).
EntryReturns == port!EntryReturns

=============================================================================
