---------------------------- MODULE Backpressure ----------------------------
(***************************************************************************)
(* The shared atomics of src/backpressure.rs: the pressure counters, the   *)
(* circuit breaker and the wall clock they read, with the operations other *)
(* modules build their steps from.  Every field is a Relaxed atomic, so an *)
(* operation that loads and then stores is split where it is used.  Each   *)
(* operator constrains only the variables it names.                        *)
(***************************************************************************)
EXTENDS Naturals

CONSTANTS
    MaxQueue,      \* BackpressureState::max_queue
    MaxInflight,   \* BackpressureState::max_inflight
    U32,           \* 2^32: counters wrap at this modulus
    MaxU64,        \* u64::MAX: where saturating arithmetic stops
    Instants       \* the readings the wall clock can show

ASSUME SizesAssumption == /\ MaxQueue \in Nat \ {0}
                          /\ MaxInflight \in Nat \ {0}
                          /\ U32 \in Nat \ {0}
ASSUME ClockAssumption == /\ MaxU64 \in Nat
                          /\ Instants \subseteq 0..MaxU64
                          /\ Instants # {}

VARIABLES
    queue_depth, in_flight,         \* AtomicU32
    avg_latency_ns, last_tick_ns,   \* AtomicU64
    failure_count, open_until,      \* CircuitBreaker
    now                             \* SystemTime::now(), external

pressure == <<queue_depth, in_flight>>
latency  == <<avg_latency_ns, last_tick_ns>>
breaker  == <<failure_count, open_until>>

PressureInit ==
    /\ queue_depth = 0 /\ in_flight = 0
    /\ avg_latency_ns = 0 /\ last_tick_ns = 0
    /\ failure_count = 0 /\ open_until = 0
    /\ now \in Instants

PressureTypeOK ==
    /\ queue_depth \in 0..(U32 - 1) /\ in_flight \in 0..(U32 - 1)
    /\ avg_latency_ns \in 0..MaxU64 /\ last_tick_ns \in 0..MaxU64
    /\ failure_count \in 0..(U32 - 1) /\ open_until \in 0..MaxU64
    /\ now \in Instants

-----------------------------------------------------------------------------

\* fetch_add and fetch_sub wrap around.
Inc(n) == IF n = U32 - 1 THEN 0 ELSE n + 1
Dec(n) == IF n = 0 THEN U32 - 1 ELSE n - 1

IncQueue    == queue_depth' = Inc(queue_depth)
DecQueue    == queue_depth' = Dec(queue_depth)
IncInflight == in_flight' = Inc(in_flight)
DecInflight == in_flight' = Dec(in_flight)

\* decide, on exact fractions: memory pressure is the constant 0.25 and never
\* rejects.  Below sizes of 2^20 the f32 quotients compare the same way.
Decide(queue, inflight) ==
    IF 10 * queue > 9 * MaxQueue THEN "Reject"
    ELSE IF 10 * queue > 7 * MaxQueue \/ 10 * inflight > 8 * MaxInflight
         THEN "Throttle" ELSE "Accept"

Saturate(n) == IF n > MaxU64 THEN MaxU64 ELSE n

\* Mutant: an ordinary subtraction, which wraps around.
WrappingSub(a, b) == (a + MaxU64 + 1 - b) % (MaxU64 + 1)

SaturatingSub(a, b) == IF a >= b THEN a - b ELSE 0

\* The moving average of update_latency, one part new in eight.
Average(old, new) == Saturate(Saturate(7 * old) + new) \div 8

\* update_latency; only for a caller that is the only writer of the average.
UpdateLatency(new) == /\ avg_latency_ns' = Average(avg_latency_ns, new)
                      /\ last_tick_ns' = now

-----------------------------------------------------------------------------

\* CircuitBreaker::check against a clock reading taken earlier.
Closed(at) == at >= open_until

OnSuccess == failure_count' = 0
OnFailure == failure_count' = Inc(failure_count)

\* Mutant: a trip prolongs the deadline that stands.
TripProlonging(at, duration) == open_until' = Saturate(open_until + duration)

\* The store of trip; the clock was read in an earlier step.
Trip(at, duration) == open_until' = Saturate(at + duration)

=============================================================================
