-------------------------- MODULE StrategyRegistry --------------------------
(***************************************************************************)
(* src/registry.rs with its two spin::RwLocks.  resolve keeps the read     *)
(* guard of `entries`, a temporary of the returned expression, while it    *)
(* takes the read guard of `fallback`; every writer takes one lock only.   *)
(* A spin lock admits whoever finds it free: readers pass waiting writers. *)
(***************************************************************************)
EXTENDS StrategyTable, Naturals, FiniteSets

CONSTANTS
    Thread,
    Unanswered,
    MaxCalls     \* bound: calls made in a behaviour

ASSUME RegistryAssumption == /\ MaxCalls \in Nat
                             /\ None \notin Thread /\ None \notin Domain
                             /\ Unanswered \notin Strategy \cup {None}

Lock == {"entries", "fallback"}

VARIABLES
    readers,     \* lock -> threads that hold it for reading
    writer,      \* lock -> the thread that holds it for writing, or None
    pc,          \* where each thread is in its call
    asked, answer,
    calls

locks == <<readers, writer>>
vars  == <<table, locks, pc, asked, answer, calls>>

Init == /\ TableInit
        /\ readers = [l \in Lock |-> {}]
        /\ writer = [l \in Lock |-> None]
        /\ pc = [t \in Thread |-> "idle"]
        /\ asked = [t \in Thread |-> None]
        /\ answer = [t \in Thread |-> Unanswered]
        /\ calls = 0

Goto(t, from, to) == pc[t] = from /\ pc' = [pc EXCEPT ![t] = to]

AcquireRead(l, t) == /\ writer[l] = None
                     /\ readers' = [readers EXCEPT ![l] = @ \cup {t}]
                     /\ UNCHANGED writer
ReleaseRead(l, t) == readers' = [readers EXCEPT ![l] = @ \ {t}] /\ UNCHANGED writer

AcquireWrite(l, t) == /\ writer[l] = None /\ readers[l] = {}
                      /\ writer' = [writer EXCEPT ![l] = t]
                      /\ UNCHANGED readers
ReleaseWrite(l, t) == /\ writer[l] = t
                      /\ writer' = [writer EXCEPT ![l] = None]
                      /\ UNCHANGED readers

-----------------------------------------------------------------------------
(* resolve(d)                                                              *)

CallResolve(t, d) == /\ calls < MaxCalls /\ calls' = calls + 1
                     /\ Goto(t, "idle", "resolve")
                     /\ asked' = [asked EXCEPT ![t] = d]
                     /\ UNCHANGED <<table, locks, answer>>

Found(t) == entries[asked[t]] # None

\* Mutant: the guard of `entries` is dropped before the fallback is read.
ReadEntriesReleasing(t) ==
    /\ pc[t] = "resolve"
    /\ writer["entries"] = None
    /\ IF Found(t)
       THEN /\ answer' = [answer EXCEPT ![t] = entries[asked[t]]]
            /\ pc' = [pc EXCEPT ![t] = "release"]
       ELSE pc' = [pc EXCEPT ![t] = "missed"] /\ UNCHANGED answer
    /\ UNCHANGED <<table, locks, asked, calls>>

\* entries.read().get(domain): on a miss the guard stays held.
ReadEntries(t) ==
    /\ pc[t] = "resolve"
    /\ AcquireRead("entries", t)
    /\ \/ /\ Found(t) /\ Goto(t, "resolve", "release")
          /\ answer' = [answer EXCEPT ![t] = entries[asked[t]]]
       \/ /\ ~Found(t) /\ Goto(t, "resolve", "missed")
          /\ UNCHANGED answer
    /\ UNCHANGED <<table, asked, calls>>

\* fallback.read().clone()
ReadFallback(t) == /\ Goto(t, "missed", "releaseBoth")
                   /\ AcquireRead("fallback", t)
                   /\ answer' = [answer EXCEPT ![t] = fallback]
                   /\ UNCHANGED <<table, asked, calls>>

ReleaseFallback(t) == /\ Goto(t, "releaseBoth", "release")
                      /\ ReleaseRead("fallback", t)
                      /\ UNCHANGED <<table, asked, answer, calls>>

\* Mutant: the guard of `entries` outlives the call.
ReturnResolveHolding(t) == /\ Goto(t, "release", "idle")
                           /\ asked' = [asked EXCEPT ![t] = None]
                           /\ answer' = [answer EXCEPT ![t] = Unanswered]
                           /\ UNCHANGED <<table, locks, calls>>

ReturnResolve(t) == /\ Goto(t, "release", "idle")
                    /\ ReleaseRead("entries", t)
                    /\ asked' = [asked EXCEPT ![t] = None]
                    /\ answer' = [answer EXCEPT ![t] = Unanswered]
                    /\ UNCHANGED <<table, calls>>

-----------------------------------------------------------------------------
(* register, unregister, clear, set_fallback and clear_fallback            *)

CallWrite(t, l) == /\ calls < MaxCalls /\ calls' = calls + 1
                   /\ Goto(t, "idle", l)
                   /\ UNCHANGED <<table, locks, asked, answer>>

Lockup(t, l) == /\ Goto(t, l, "write")
                /\ AcquireWrite(l, t)
                /\ UNCHANGED <<table, asked, answer, calls>>

EntriesChange == \/ \E d \in Domain, s \in Strategy : Register(d, s)
                 \/ \E d \in Domain : Unregister(d)
                 \/ Clear

FallbackChange == (\E s \in Strategy : SetFallback(s)) \/ ClearFallback

\* The change and the drop of the guard: no one can look in between.
Write(t) == /\ Goto(t, "write", "idle")
            /\ \/ ReleaseWrite("entries", t) /\ EntriesChange
               \/ ReleaseWrite("fallback", t) /\ FallbackChange
            /\ UNCHANGED <<asked, answer, calls>>

Call(t) == (\E d \in Domain : CallResolve(t, d)) \/ (\E l \in Lock : CallWrite(t, l))

Step(t) == \/ ReadEntries(t) \/ ReadFallback(t) \/ ReleaseFallback(t) \/ ReturnResolve(t)
           \/ \E l \in Lock : Lockup(t, l)
           \/ Write(t)

Next == \E t \in Thread : Call(t) \/ Step(t)

\* Every thread that is inside a call keeps running.
Spec == Init /\ [][Next]_vars /\ \A t \in Thread : WF_vars(Step(t))

-----------------------------------------------------------------------------

\* The variables have their types, and a writer is alone with its lock.
TypeOK == /\ TableTypeOK
          /\ readers \in [Lock -> SUBSET Thread]
          /\ writer \in [Lock -> Thread \cup {None}]
          /\ \A l \in Lock : writer[l] # None => readers[l] = {}
          /\ pc \in [Thread -> {"idle", "resolve", "missed", "releaseBoth", "release",
                                "entries", "fallback", "write"}]
          /\ asked \in [Thread -> Domain \cup {None}]
          /\ answer \in [Thread -> Strategy \cup {None, Unanswered}]
          /\ calls \in 0..MaxCalls

Atomic == INSTANCE AtomicRegistry

\* The two locks together make every lookup and every change one step: a
\* lookup never mixes entries of one moment with a fallback of another.
Linearizable == Atomic!Spec

\* Of finitely many calls every one returns: nested locks do not deadlock and
\* no call leaves a lock behind.
CallsReturn == \A t \in Thread : (pc[t] # "idle") ~> (pc[t] = "idle")

=============================================================================
