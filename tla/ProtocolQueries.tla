-------------------------- MODULE ProtocolQueries ---------------------------
(***************************************************************************)
(* The tables of ProtocolSelection compared with one another on every type *)
(* and at both sides of every bound.                                       *)
(***************************************************************************)
EXTENDS ProtocolSelection

CONSTANTS Id, Latency

ASSUME QuestionAssumption == Id \subseteq Nat /\ Latency \subseteq Nat

VARIABLE question

Question == [id : Id, type : SioType, remote : BOOLEAN, same_process : BOOLEAN,
             latency_ns : Latency]

ProtocolInit == question \in Question

ProtocolNext == question' \in Question

ProtocolSpec == ProtocolInit /\ [][ProtocolNext]_question

Planned == PlanProtocol(question.type, question.remote)
Recommended == RecommendedProtocol(question.id, question.type)
Selected == SelectProtocol(question.type, question.remote, question.same_process,
                           question.latency_ns)

-----------------------------------------------------------------------------

\* The ids for which an intent is recommended to stay local are those that the
\* kernel handles (dispatcher_bridge.rs:158 and :112 hold the same bound twice).
KernelIntentsLocal ==
    question.type = "Intent" =>
        (Recommended = "Raci" <=> Handler(question.id) = "kernel-handler")

\* Where no latency, shared process or distance decides, select_protocol names
\* the protocol of the plan for what is compiled, executed or in-device, and the
\* recommended one for what is executed, in-device, data or remote processing.
SelectorsAgree ==
    question.latency_ns >= 1000000 /\ ~question.same_process /\ ~question.remote =>
        /\ question.type \in {"Intent", "Reasoning", "Execute", "Legal", "Finance"} =>
               Selected = Planned
        /\ ~RequiresCompilation(question.type) => Selected = Recommended

\* Without a context to select from, an Execute goes over a protocol that produces
\* executables (allo_router.rs:84), whichever table is asked.
ExecuteOnExecutors ==
    question.type = "Execute" =>
        \A p \in {EnvelopeProtocol(question.type), Planned, Recommended} :
            ProducesExecutable(p)

\* A protocol that is planned, recommended or selected has a channel unless it is
\* the direct call: the factory never sends the caller to the cognitive router.
ChannelOrDirect ==
    \A p \in {Planned, Recommended, Selected} : p = "Raci" <=> ~HasChannel(p)

\* The four tables that choose a protocol agree where they must: on who executes, on
\* what stays with the kernel, and on which protocols need a channel.
ProtocolTablesAgree ==
    SelectorsAgree /\ KernelIntentsLocal /\ ExecuteOnExecutors /\ ChannelOrDirect

=============================================================================
