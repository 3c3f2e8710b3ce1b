-------------------------- MODULE ProtocolSelection --------------------------
(***************************************************************************)
(* Which RAC protocol carries an SIO.  Four places of the code answer that *)
(* question, each with a table of its own: the dispatcher bridge for an    *)
(* envelope, for an intent id and for a context, and SioRacExt             *)
(* (src/rac/dispatcher_bridge.rs, src/rac/allo_router.rs); the channel     *)
(* factory (src/rac/wire.rs) says which of the answers have a channel.     *)
(***************************************************************************)
EXTENDS Naturals

RacProtocol == {"Racas", "Racag", "Raci", "Racin", "Racex", "Racid"}

SioType == {"Intent", "Reasoning", "Execute", "Legal", "Finance", "Memory", "Data",
            "Vision"}

IsRemote(p) == p \in {"Racag", "Racex"}

ProducesExecutable(p) == p \in {"Raci", "Racin", "Racid"}

RequiresCompilation(type) == type \in {"Intent", "Reasoning"}

\* SioRacExt::rac_protocol
EnvelopeProtocol(type) == CASE type = "Intent" -> "Racas"
                            [] type \in {"Reasoning", "Execute"} -> "Raci"
                            [] type \in {"Legal", "Finance"} -> "Raci"
                            [] type = "Memory" -> "Racin"
                            [] type = "Data" -> "Racid"
                            [] type = "Vision" -> "Racex"

\* Mutant: the test for remote envelopes covers Execute as well.
PlanProtocolAnyRemote(type, remote) ==
    CASE type \in {"Intent", "Reasoning", "Execute"} /\ remote -> "Racex"
      [] type \in {"Legal", "Finance"} -> "Racid"
      [] OTHER -> "Raci"

\* envelope_to_dispatch_plan
PlanProtocol(type, remote) ==
    CASE RequiresCompilation(type) /\ remote -> "Racex"
      [] type \in {"Legal", "Finance"} -> "Racid"
      [] OTHER -> "Raci"

\* resolve_handler
Handler(id) == CASE id \in 0..999 -> "kernel-handler"
                 [] id \in 1000..1999 -> "omina-handler"
                 [] id \in 2000..2999 -> "aura-handler"
                 [] OTHER -> "default-handler"

RecommendedProtocol(id, type) ==
    CASE type = "Intent" -> IF id < 1000 THEN "Raci" ELSE "Racex"
      [] type \in {"Reasoning", "Memory", "Data"} -> "Racin"
      [] type = "Execute" -> "Raci"
      [] type \in {"Legal", "Finance"} -> "Racid"
      [] type = "Vision" -> "Racex"

\* Mutant: the kinds of in-device data are in the wrong arm.
SelectProtocolSwapped(type, remote, same_process, latency_ns) ==
    CASE latency_ns < 1000000 \/ same_process -> "Racin"
      [] remote -> "Racex"
      [] type \in {"Intent", "Reasoning", "Execute"} -> "Raci"
      [] type \in {"Memory", "Data"} -> "Racid"
      [] type \in {"Legal", "Finance"} -> "Racin"
      [] type = "Vision" -> "Racex"

\* select_protocol: latency first, then the process, then the distance.
SelectProtocol(type, remote, same_process, latency_ns) ==
    CASE latency_ns < 1000000 \/ same_process -> "Racin"
      [] remote -> "Racex"
      [] type \in {"Intent", "Reasoning", "Execute"} -> "Raci"
      [] type \in {"Legal", "Finance"} -> "Racid"
      [] type \in {"Memory", "Data"} -> "Racin"
      [] type = "Vision" -> "Racex"

\* RacChannelFactory::create_channel: Raci is a direct call, and Racas and Racag
\* are the cognitive router's; for the others a new channel is made.
HasChannel(p) == p \in {"Racin", "Racid", "Racex"}

=============================================================================
