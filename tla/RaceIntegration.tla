--------------------------- MODULE RaceIntegration ---------------------------
(***************************************************************************)
(* The RACE integration (src/rac/race_integration.rs): an envelope passes  *)
(* the wire's hook, the bridge makes a plan of it, the plan is recorded    *)
(* and the envelope stored in the SIO drive, which may refuse it.  Whoever *)
(* runs a plan removes it; nobody takes an envelope out of the drive, for  *)
(* the integration hands it out only by shared reference.                  *)
(***************************************************************************)
EXTENDS ProtocolSelection, FiniteSets

CONSTANTS
    Id, Type, Size, MaxSize, MaxStores, \* as in SioDrive, with intent ids
    DefaultProtocol, \* of the configurations
    Rejected         \* external: the pairs RacPreExecuteHook::validate refuses

ASSUME IntegrationAssumption ==
    /\ Id \subseteq Nat /\ Type \subseteq SioType
    /\ Size \subseteq Nat /\ MaxSize \in Nat /\ MaxStores \in Nat
    /\ DefaultProtocol \subseteq RacProtocol
    /\ <<"Racex", "Execute">> \in Rejected /\ <<"Racex", "Intent">> \notin Rejected

VARIABLES
    config,                       \* what of RaceIntegrationConfig is read
    hook_context,                 \* the protocol init gave the hooks, or none
    active_plans,                 \* id -> the plan for it
    entries, by_type_map, stores, \* the SIO drive
    refused,                      \* history: ids whose last envelope the drive refused
    removed                       \* history: ids whose plan was removed since

drive == INSTANCE SioDrive

driveVars == <<entries, by_type_map, stores>>
vars == <<config, hook_context, active_plans, driveVars, refused, removed>>

Config == [sio_drive : BOOLEAN, protocol : DefaultProtocol]
Envelope == [id : Id, type : Type, size : Size, remote : BOOLEAN, protocol : RacProtocol]
Plan == [protocol : RacProtocol, type : Type, handler : {Handler(i) : i \in Id}]
Planned(i) == i \in DOMAIN active_plans

New == /\ config \in Config
       /\ hook_context = "none"
       /\ active_plans = [i \in {} |-> 0]
       /\ drive!Init
       /\ refused = {}
       /\ removed = {}

\* init_hooks; nothing looks at the context it leaves.
InitHooks == /\ hook_context' = config.protocol
             /\ UNCHANGED <<config, active_plans, driveVars, refused, removed>>

\* The hook is asked about the envelope's own protocol, not about the plan's.
Validated(e) == <<e.protocol, e.type>> \notin Rejected

HookError(e) == ~Validated(e) /\ UNCHANGED vars

\* DispatcherBridge::route; the switch for the bridge is not consulted.
Route(e) == [protocol |-> PlanProtocol(e.type, e.remote), type |-> e.type,
             handler |-> Handler(e.id)]

Record(e) == active_plans' = [i \in DOMAIN active_plans \cup {e.id} |->
                                 IF i = e.id THEN Route(e) ELSE active_plans[i]]

Content(e) == [type |-> e.type, size |-> e.size]

\* Mutant: a full drive keeps the type of what it has no room for.
PersistHeader(e) ==
    \/ /\ ~config.sio_drive
       /\ refused' = refused /\ UNCHANGED driveVars
    \/ /\ config.sio_drive /\ drive!Store(e.id, Content(e))
       /\ refused' = refused \ {e.id}
    \/ /\ config.sio_drive /\ ~drive!RoomFor(e.size)
       /\ drive!Put(e.id, Content(e)) /\ UNCHANGED <<by_type_map, stores>>
       /\ refused' = refused \cup {e.id}

\* The plan is in place when the drive answers, whatever it answers.
Persist(e) ==
    \/ /\ ~config.sio_drive
       /\ UNCHANGED <<driveVars, refused>>
    \/ /\ config.sio_drive /\ drive!Store(e.id, Content(e))
       /\ refused' = refused \ {e.id}
    \/ /\ config.sio_drive /\ drive!StoreRefused(Content(e))
       /\ refused' = refused \cup {e.id}

\* Mutant: the envelope is stored before the hook is asked.
ProcessEnvelopeEarly(e) ==
    /\ IF Validated(e) THEN Record(e) ELSE UNCHANGED active_plans
    /\ Persist(e)
    /\ removed' = removed \ {e.id}
    /\ UNCHANGED <<config, hook_context>>

ProcessEnvelope(e) ==
    /\ Validated(e)
    /\ Record(e)
    /\ Persist(e)
    /\ removed' = removed \ {e.id}
    /\ UNCHANGED <<config, hook_context>>

RemovePlan(i) ==
    /\ active_plans' = [j \in DOMAIN active_plans \ {i} |-> active_plans[j]]
    /\ removed' = IF Planned(i) THEN removed \cup {i} ELSE removed
    /\ UNCHANGED <<config, hook_context, driveVars, refused>>

Next == \/ InitHooks
        \/ \E e \in Envelope : HookError(e) \/ ProcessEnvelope(e)
        \/ \E i \in Id : RemovePlan(i)

Spec == New /\ [][Next]_vars

-----------------------------------------------------------------------------

\* The variables have their types.
TypeOK == /\ config \in Config
          /\ hook_context \in {"none", config.protocol}
          /\ DOMAIN active_plans \subseteq Id
          /\ \A i \in DOMAIN active_plans : active_plans[i] \in Plan
          /\ drive!TypeOK
          /\ refused \subseteq Id /\ removed \subseteq Id

\* The plan of an id and the envelope the drive holds for it are of one type,
\* unless the drive refused the id's last envelope (race_integration.rs:139):
\* then the plan stands although the caller was told of an error.
PlanMatchesDrive ==
    config.sio_drive =>
        \A i \in Id \ refused :
            Planned(i) => i \in DOMAIN entries /\ entries[i].type = active_plans[i].type

\* The drive holds only what passed the hook: every stored id has a plan or had
\* one that was removed after it was stored, and a drive that is off holds nothing.
StoredWasPlanned ==
    \A i \in DOMAIN entries : config.sio_drive /\ (Planned(i) \/ i \in removed)

\* No plan sends anything but inference away (racex.rs:12), although the hook is
\* asked about another protocol than the plan's.
RemotePlansInfer ==
    \A i \in DOMAIN active_plans :
        IsRemote(active_plans[i].protocol) => RequiresCompilation(active_plans[i].type)

\* The integration uses the drive as SioDrive specifies it.
DriveSpec == drive!Spec

=============================================================================
