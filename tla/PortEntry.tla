----------------------------- MODULE PortEntry -----------------------------
(***************************************************************************)
(* hp_port_entry and its sleeping gate (src/backpressure.rs), called by    *)
(* many tasks at once.  The crate exports it without calling it: around    *)
(* it, a task moves the counters the way dispatch_unified                  *)
(* (src/core/orch.rs) does.  A step ends at every load and store of an     *)
(* atomic that others change.  The clock only goes forward.                *)
(***************************************************************************)
EXTENDS Supervision, FiniteSets

CONSTANT Task

ASSUME TaskAssumption == IsFiniteSet(Task) /\ Cardinality(Task) < U32

VARIABLES
    pc,          \* where each task is
    at,          \* the clock reading it checks the breaker with
    load         \* the queue depth its snapshot found

tasks == <<pc, at, load>>
watch == <<supervisor, failures>>
vars  == <<pressure, latency, breaker, now, watch, tasks>>

Init == /\ PressureInit
        /\ SupervisionInit
        /\ pc = [t \in Task |-> "idle"]
        /\ at = [t \in Task |-> 0]
        /\ load = [t \in Task |-> 0]

-----------------------------------------------------------------------------

Goto(t, from, to) == pc[t] = from /\ pc' = [pc EXCEPT ![t] = to]

\* inc_queue, before anything is checked.
Enter(t) == /\ Goto(t, "idle", "clock")
            /\ IncQueue
            /\ UNCHANGED <<in_flight, latency, breaker, now, watch, at, load>>

\* The argument of check.
ReadClock(t) == /\ Goto(t, "clock", "breaker")
                /\ at' = [at EXCEPT ![t] = now]
                /\ UNCHANGED <<pressure, latency, breaker, now, watch, load>>

CheckBreaker(t) ==
    /\ \/ Closed(at[t]) /\ Goto(t, "breaker", "queue")
       \/ ~Closed(at[t]) /\ Goto(t, "breaker", "leave")
    /\ at' = [at EXCEPT ![t] = 0]
    /\ UNCHANGED <<pressure, latency, breaker, now, watch, load>>

\* Mutant: a task does not count its own place.
LoadOthers(t) == /\ Goto(t, "queue", "inflight")
                 /\ load' = [load EXCEPT ![t] = Dec(queue_depth)]
                 /\ UNCHANGED <<pressure, latency, breaker, now, watch, at>>

\* snapshot loads the queue ...
LoadQueue(t) == /\ Goto(t, "queue", "inflight")
                /\ load' = [load EXCEPT ![t] = queue_depth]
                /\ UNCHANGED <<pressure, latency, breaker, now, watch, at>>

\* Mutant: a rejected task looks again, in its place of the queue.
PassGateRetrying(t) ==
    /\ LET decision == Decide(load[t], in_flight)
       IN  \/ decision = "Accept" /\ Goto(t, "inflight", "admitted")
           \/ decision = "Throttle" /\ Goto(t, "inflight", "sleep")
           \/ decision = "Reject" /\ Goto(t, "inflight", "queue")
    /\ load' = [load EXCEPT ![t] = 0]
    /\ UNCHANGED <<pressure, latency, breaker, now, watch, at>>

\* ... then the requests in flight, and the gate decides on the pair.
PassGate(t) ==
    /\ LET decision == Decide(load[t], in_flight)
       IN  \/ decision = "Accept" /\ Goto(t, "inflight", "admitted")
           \/ decision = "Throttle" /\ Goto(t, "inflight", "sleep")
           \/ decision = "Reject" /\ Goto(t, "inflight", "leave")
    /\ load' = [load EXCEPT ![t] = 0]
    /\ UNCHANGED <<pressure, latency, breaker, now, watch, at>>

\* throttle_delay is over: the task is let through whatever the pressure is
\* by now.
Wake(t) == /\ Goto(t, "sleep", "admitted")
           /\ UNCHANGED <<pressure, latency, breaker, now, watch, at, load>>

\* What the caller does with its admission: inc_inflight, dec_inflight after
\* the work, on_success.
Begin(t) == /\ Goto(t, "admitted", "work")
            /\ IncInflight
            /\ UNCHANGED <<queue_depth, latency, breaker, now, watch, at, load>>

Finish(t) == /\ Goto(t, "work", "finished")
             /\ DecInflight
             /\ UNCHANGED <<queue_depth, latency, breaker, now, watch, at, load>>

Succeed(t) == /\ Goto(t, "finished", "leave")
              /\ OnSuccess
              /\ UNCHANGED <<pressure, latency, open_until, now, watch, at, load>>

\* The ScopeGuard: dec_queue, on every way out.
Leave(t) == /\ Goto(t, "leave", "idle")
            /\ DecQueue
            /\ UNCHANGED <<in_flight, latency, breaker, now, watch, at, load>>

Proceed(t) == \/ ReadClock(t) \/ CheckBreaker(t) \/ LoadQueue(t) \/ PassGate(t)
              \/ Wake(t) \/ Begin(t) \/ Finish(t) \/ Succeed(t) \/ Leave(t)

SuperviseBreaker(s) == Supervise(s) /\ UNCHANGED <<pressure, latency, now, tasks>>

Tick == /\ \E i \in Instants : i > now /\ now' = i
        /\ UNCHANGED <<pressure, latency, breaker, watch, tasks>>

Next == \/ \E t \in Task : Enter(t) \/ Proceed(t)
        \/ \E s \in Supervisor : SuperviseBreaker(s)
        \/ Tick

Spec == Init /\ [][Next]_vars

\* The runtime polls every task that is ready, and its timers fire.
LiveSpec == Spec /\ \A t \in Task : WF_vars(Proceed(t))

-----------------------------------------------------------------------------

Pcs == {"idle", "clock", "breaker", "queue", "inflight", "sleep", "admitted", "work",
        "finished", "leave"}

\* The variables have their types; deadlines and counters keep their width.
TypeOK == /\ PressureTypeOK
          /\ SupervisionTypeOK
          /\ pc \in [Task -> Pcs]
          /\ at \in [Task -> Instants \cup {0}]
          /\ load \in [Task -> 0..(U32 - 1)]

Admitted == {t \in Task : pc[t] \in {"sleep", "admitted", "work", "finished"}}

\* Every task takes its place before it looks at the queue, so however the
\* loads of the tasks interleave, and although a task that slept is let
\* through on an old snapshot, the tasks between the gate and the exit never
\* outgrow the share of the queue at which gate rejects.
AdmittedBounded == 10 * Cardinality(Admitted) <= 9 * MaxQueue

\* However many supervisors trip the breaker, on readings of the clock as old
\* as they may be, it is open for at most one duration from now.
DeadlineBounded == open_until <= now + OpenFor

\* Every task that enters leaves: no one waits in the queue for the others to
\* leave it.
EntryReturns == \A t \in Task : (pc[t] = "clock") ~> (pc[t] = "idle")

=============================================================================
