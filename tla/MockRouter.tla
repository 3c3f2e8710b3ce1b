----------------------------- MODULE MockRouter -----------------------------
(***************************************************************************)
(* The in-memory RACEX router (src/rac/mock_router.rs).  Threads share it  *)
(* by reference: they route chains of calls to FEMs and report failures,   *)
(* and each FEM's circuit is two atomics written one at a time.  A relaxed *)
(* store may become visible before an earlier one to the other atomic, so  *)
(* the two stores of on_success happen in either order.                    *)
(***************************************************************************)
EXTENDS Naturals, Sequences, SequencesExt

CONSTANTS
    Fem,           \* names of FEMs
    Thread,        \* threads that hold the router
    Config,        \* [threshold, cool_epochs] pairs given to with_circuit_config
    Epoch,         \* epochs the callers pass
    Chain,         \* chains of FEMs that are called; call is a chain of one
    MaxInjections  \* bound: failures reported per FEM and registration

ASSUME RouterAssumption ==
    /\ Config \subseteq [threshold : Nat \ {0}, cool_epochs : Nat \ {0}]
    /\ Epoch \subseteq Nat
    /\ Chain \subseteq Seq(Fem)
    /\ MaxInjections \in Nat

VARIABLES
    config,    \* cb_threshold and cb_cool_epochs
    fems,      \* the FEMs registered, each with its circuit:
    failures, open_until, \* its two atomics
    limits,    \* its threshold and cool_epochs
    pc, hops, epoch, resets, answer, \* per thread: its step, the hops left, ...
    asked, trail, \* history: the chain asked for and the handlers run for it
    injected,  \* history: failures reported since the FEM was registered
    late       \* history: the threads whose circuit was tripped after their check

circuits == <<fems, failures, open_until, limits>>
local == <<pc, hops, epoch, resets, answer, asked, trail>>
vars == <<config, circuits, local, injected, late>>

Cells == {"failures", "open_until"}
Idle(t) == pc[t] = "idle"
At(t) == Head(hops[t])

Init == /\ config \in Config
        /\ fems = {}
        /\ failures = [f \in Fem |-> 0]
        /\ open_until = [f \in Fem |-> 0]
        /\ limits = [f \in Fem |-> config]
        /\ pc = [t \in Thread |-> "idle"]
        /\ hops = [t \in Thread |-> <<>>]
        /\ epoch = [t \in Thread |-> 0]
        /\ resets = [t \in Thread |-> {}]
        /\ answer = [t \in Thread |-> "none"]
        /\ asked = [t \in Thread |-> <<>>]
        /\ trail = [t \in Thread |-> <<>>]
        /\ injected = [f \in Fem |-> 0]
        /\ late = {}

-----------------------------------------------------------------------------
\* The operations that need the router for themselves: no call is under way.

\* with_circuit_config: for the FEMs registered from now on.
Configure(c) == /\ \A t \in Thread : Idle(t)
                /\ config' = c
                /\ UNCHANGED <<circuits, local, injected, late>>

\* register_fem: a FEM registered again starts with a new circuit.
RegisterFem(f) ==
    /\ \A t \in Thread : Idle(t)
    /\ fems' = fems \cup {f}
    /\ failures' = [failures EXCEPT ![f] = 0]
    /\ open_until' = [open_until EXCEPT ![f] = 0]
    /\ limits' = [limits EXCEPT ![f] = config]
    /\ injected' = [injected EXCEPT ![f] = 0]
    /\ UNCHANGED <<config, local, late>>

-----------------------------------------------------------------------------
\* call and call_chain

Goto(t, p) == pc' = [pc EXCEPT ![t] = p]

\* The call's frame is gone; what it ran and what it was asked stay as history.
Return(t, a) == /\ Goto(t, "idle")
                /\ answer' = [answer EXCEPT ![t] = a]
                /\ epoch' = [epoch EXCEPT ![t] = 0]

CallChain(t, c, e) ==
    /\ Idle(t)
    /\ Goto(t, "check")
    /\ hops' = [hops EXCEPT ![t] = c]
    /\ asked' = [asked EXCEPT ![t] = c]
    /\ epoch' = [epoch EXCEPT ![t] = e]
    /\ trail' = [trail EXCEPT ![t] = <<>>]
    /\ answer' = [answer EXCEPT ![t] = "none"]
    /\ UNCHANGED <<config, circuits, resets, injected, late>>

\* Mutant: the deadline alone decides, whatever the epoch of the call.
OpenIgnored(f, e) == open_until[f] > 0 /\ e > open_until[f]

IsOpen(f, e) == open_until[f] > 0 /\ e < open_until[f]

\* Mutant: call_chain goes on with the next hop when one is refused.
CheckSkipping(t) ==
    /\ pc[t] = "check" /\ hops[t] # <<>>
    /\ IF At(t) \in fems /\ ~IsOpen(At(t), epoch[t])
       THEN Goto(t, "execute") /\ UNCHANGED hops
       ELSE hops' = [hops EXCEPT ![t] = Tail(@)] /\ UNCHANGED pc
    /\ late' = late \ {t}
    /\ UNCHANGED <<config, circuits, answer, epoch, resets, asked, trail, injected>>

\* The head of call: the first hop that is refused ends the chain.
Check(t) ==
    /\ pc[t] = "check" /\ hops[t] # <<>>
    /\ \/ /\ At(t) \notin fems
          /\ Return(t, "FemNotFound")
       \/ /\ At(t) \in fems /\ IsOpen(At(t), epoch[t])
          /\ Return(t, "CircuitOpen")
       \/ /\ At(t) \in fems /\ ~IsOpen(At(t), epoch[t])
          /\ Goto(t, "execute") /\ UNCHANGED <<answer, epoch>>
    /\ late' = late \ {t}
    /\ UNCHANGED <<config, circuits, hops, resets, asked, trail, injected>>

\* Every hop succeeded.
ChainDone(t) == /\ pc[t] = "check" /\ hops[t] = <<>>
                /\ Return(t, "Ok")
                /\ UNCHANGED <<config, circuits, hops, resets, asked, trail,
                               injected, late>>

Execute(t) == /\ pc[t] = "execute"
              /\ trail' = [trail EXCEPT ![t] = Append(@, At(t))]
              /\ resets' = [resets EXCEPT ![t] = Cells]
              /\ Goto(t, "reset")
              /\ UNCHANGED <<config, circuits, hops, epoch, answer, asked, injected, late>>

\* The handler panics: the call unwinds and on_success is not reached.
Unwind(t) == /\ pc[t] = "execute"
             /\ Return(t, "Panicked")
             /\ UNCHANGED <<config, circuits, hops, resets, asked, trail, injected, late>>

\* on_success, one store at a time; after both the chain moves to its next hop.
Reset(t, cell) ==
    /\ pc[t] = "reset" /\ cell \in resets[t]
    /\ IF cell = "failures"
       THEN failures' = [failures EXCEPT ![At(t)] = 0] /\ UNCHANGED open_until
       ELSE open_until' = [open_until EXCEPT ![At(t)] = 0] /\ UNCHANGED failures
    /\ resets' = [resets EXCEPT ![t] = @ \ {cell}]
    /\ \/ /\ resets[t] # {cell}
          /\ UNCHANGED <<pc, hops>>
       \/ /\ resets[t] = {cell}
          /\ Goto(t, "check")
          /\ hops' = [hops EXCEPT ![t] = Tail(@)]
    /\ UNCHANGED <<config, fems, limits, epoch, answer, asked, trail, injected, late>>

-----------------------------------------------------------------------------
\* inject_failure

\* Mutant: the comparison is off by one.
TripsEarly(f) == failures[f] + 2 >= limits[f].threshold

Trips(f) == failures[f] + 1 >= limits[f].threshold

\* on_failure's fetch_add, for a FEM that has a circuit.
CountFailure(t, f, e) ==
    /\ Idle(t) /\ f \in fems
    /\ injected[f] < MaxInjections
    /\ failures' = [failures EXCEPT ![f] = @ + 1]
    /\ injected' = [injected EXCEPT ![f] = @ + 1]
    /\ IF Trips(f)
       THEN /\ Goto(t, "trip")
            /\ hops' = [hops EXCEPT ![t] = <<f>>]
            /\ asked' = [asked EXCEPT ![t] = <<f>>]
            /\ trail' = [trail EXCEPT ![t] = <<>>]
            /\ epoch' = [epoch EXCEPT ![t] = e]
            /\ answer' = [answer EXCEPT ![t] = "none"]
       ELSE UNCHANGED <<pc, hops, asked, trail, epoch, answer>>
    /\ UNCHANGED <<config, fems, open_until, limits, resets, late>>

\* on_failure's store
Trip(t) ==
    /\ pc[t] = "trip"
    /\ open_until' = [open_until EXCEPT ![At(t)] = epoch[t] + limits[At(t)].cool_epochs]
    /\ late' = late \cup {u \in Thread : pc[u] \in {"execute", "reset"} /\ At(u) = At(t)}
    /\ Return(t, "none")
    /\ UNCHANGED <<config, fems, failures, limits, hops, resets, asked, trail, injected>>

Next == \/ \E c \in Config : Configure(c)
        \/ \E f \in Fem : RegisterFem(f)
        \/ \E t \in Thread : \/ \E e \in Epoch : \/ \E c \in Chain : CallChain(t, c, e)
                                                 \/ \E f \in Fem : CountFailure(t, f, e)
                             \/ Check(t) \/ ChainDone(t) \/ Execute(t) \/ Unwind(t)
                             \/ \E cell \in Cells : Reset(t, cell)
                             \/ Trip(t)

Spec == Init /\ [][Next]_vars

-----------------------------------------------------------------------------

\* A thread past a check has a hop left, and its FEM is registered.
HopLeft == \A t \in Thread : pc[t] \in {"execute", "reset", "trip"} =>
               hops[t] # <<>> /\ At(t) \in fems

\* The variables have their types, and no thread works on a FEM that is not there.
TypeOK == /\ config \in Config
          /\ fems \subseteq Fem
          /\ failures \in [Fem -> Nat] /\ open_until \in [Fem -> Nat]
          /\ limits \in [Fem -> Config]
          /\ pc \in [Thread -> {"idle", "check", "execute", "reset", "trip"}]
          /\ hops \in [Thread -> Seq(Fem)] /\ asked \in [Thread -> Seq(Fem)]
          /\ trail \in [Thread -> Seq(Fem)]
          /\ epoch \in [Thread -> Nat]
          /\ resets \in [Thread -> SUBSET Cells]
          /\ answer \in [Thread -> {"none", "Ok", "FemNotFound", "CircuitOpen", "Panicked"}]
          /\ injected \in [Fem -> Nat]
          /\ late \subseteq Thread
          /\ HopLeft

\* A circuit is open only if as many failures as its own threshold, the one
\* configured when its FEM was registered, were reported since then, however
\* the threads' resets and counts interleave (mock_router.rs:80).
OpenEarned == \A f \in fems :
                  open_until[f] > 0 => injected[f] >= limits[f].threshold

\* A success closes an open circuit before its deadline only if the circuit was
\* tripped while that call was under way (mock_router.rs:192): a call that
\* starts on an open circuit never closes it.
ClosedByAdmitted ==
    [][\A f \in fems :
          open_until[f] > 0 /\ open_until'[f] = 0 =>
             \/ \A t \in Thread : Idle(t)
             \/ \E t \in Thread : /\ pc[t] = "reset" /\ At(t) = f
                                  /\ t \in late \/ epoch[t] >= open_until[f]]_vars

\* The handlers run for a chain are, in order, those of the hops before the one
\* that ended it (call_chain, mock_router.rs:216): none is skipped or run twice,
\* none runs after a refusal, and the answer is Ok exactly when all have run.
ChainInOrder ==
    \A t \in Thread :
        /\ trail[t] \o (IF pc[t] = "reset" THEN Tail(hops[t]) ELSE hops[t]) = asked[t]
        /\ answer[t] = "Ok" => hops[t] = <<>>
        /\ answer[t] \in {"FemNotFound", "CircuitOpen", "Panicked"} => hops[t] # <<>>

\* Once nobody is inside an operation, a FEM whose failures have reached the
\* threshold is tripped (mock_router.rs:17, "trip after N failures").
TripsAtThreshold ==
    (\A t \in Thread : Idle(t)) =>
        \A f \in fems :
            failures[f] >= limits[f].threshold => open_until[f] > 0

=============================================================================
