---------------------------- MODULE Supervision ----------------------------
(***************************************************************************)
(* Threads that report failures to the circuit breaker and let it trip:    *)
(* on_failure followed by maybe_trip (src/backpressure.rs), cut at every   *)
(* load and store.  Nothing in the crate plays this part; a user of the    *)
(* crate's public breaker does.                                            *)
(***************************************************************************)
EXTENDS Backpressure

CONSTANTS
    Supervisor,
    Threshold,   \* maybe_trip's threshold
    OpenFor,     \* trip's duration
    MaxFailures  \* bound: failures reported

ASSUME SupervisionAssumption ==
    MaxFailures \in Nat /\ Threshold \in Nat /\ OpenFor \in Nat

VARIABLES
    supervisor,  \* what each supervisor does, and the clock reading it holds
    failures     \* failures reported

Watching == [doing |-> "watch", at |-> 0]

SupervisionInit == /\ supervisor = [s \in Supervisor |-> Watching]
                   /\ failures = 0

SupervisionTypeOK ==
    /\ supervisor \in [Supervisor -> [doing : {"watch", "check", "read", "store"},
                                      at : 0..MaxU64]]
    /\ failures \in 0..MaxFailures

Becomes(s, from, to) == /\ supervisor[s].doing = from
                        /\ supervisor' = [supervisor EXCEPT ![s].doing = to]

\* on_failure, to be followed by maybe_trip.
ReportFailure(s) == /\ failures < MaxFailures
                    /\ Becomes(s, "watch", "check")
                    /\ failures' = failures + 1
                    /\ OnFailure
                    /\ UNCHANGED open_until

\* maybe_trip loads the count and decides.
CheckThreshold(s) ==
    /\ \/ failure_count > Threshold /\ Becomes(s, "check", "read")
       \/ failure_count <= Threshold /\ Becomes(s, "check", "watch")
    /\ UNCHANGED <<failures, breaker>>

\* trip reads the clock ...
ReadTripClock(s) ==
    /\ supervisor[s].doing = "read"
    /\ supervisor' = [supervisor EXCEPT ![s] = [doing |-> "store", at |-> now]]
    /\ UNCHANGED <<failures, breaker>>

\* ... and stores the deadline it computed from that reading.
StoreTrip(s) == /\ supervisor[s].doing = "store"
                /\ Trip(supervisor[s].at, OpenFor)
                /\ supervisor' = [supervisor EXCEPT ![s] = Watching]
                /\ UNCHANGED <<failures, failure_count>>

Supervise(s) == \/ ReportFailure(s) \/ CheckThreshold(s)
                \/ ReadTripClock(s) \/ StoreTrip(s)

=============================================================================
