----------------------------- MODULE RacChannels -----------------------------
(***************************************************************************)
(* The channels of a device, between devices and within a process, and the *)
(* servers and clients that make them (src/rac/racid.rs, racex.rs and      *)
(* racin.rs), with the factory and the channel trait of src/rac/wire.rs.   *)
(* The transports are stubs; what is left are states and ids.  Callers own *)
(* what they are handed and drop it when they like.                        *)
(***************************************************************************)
EXTENDS Naturals, FiniteSets, ProtocolSelection

CONSTANTS
    RacidServer, RacexServer, RacidClient, RacexClient,
    Endpoint,    \* RacexEndpoint: address, transport, security, timeout, retries
    Local,       \* the factory's own endpoint, and no endpoint or owner
    Nobody,
    IdWidth,     \* ids are 0..(IdWidth - 1)
    MaxMade      \* bound: MaxMade[k] ids are taken from the counter of k

\* Each type that has an id has a static counter of its own.
Kind == {"Racin", "Racid", "Racex", "Ffi"}

Server == RacidServer \cup RacexServer

ASSUME SizesAssumption == /\ IdWidth \in Nat /\ IdWidth > 1
                          /\ MaxMade \in [Kind -> Nat]
ASSUME EndpointAssumption ==
    /\ Local \in Endpoint
    /\ RacexClient \cap Server = {} /\ RacidServer \cap RacexServer = {}
    /\ Nobody \notin Server \cup RacidClient \cup RacexClient \cup Endpoint

VARIABLES
    counter, made,     \* the counters; history: ids taken from each
    channels,          \* the channels and bridges that are in use
    server, client,    \* states of the servers and of the in-device clients
    default_endpoint   \* RacexClient::default_endpoint

ids         == <<counter, made, channels>>
ends        == <<server, client, default_endpoint>>
channelVars == <<ids, ends>>

ChannelInit == /\ counter = [k \in Kind |-> 1] /\ made = [k \in Kind |-> 0]
               /\ channels = {}
               /\ server = [s \in Server |-> "Idle"]
               /\ client = [c \in RacidClient |-> "Idle"]
               /\ default_endpoint = [c \in RacexClient |-> Nobody]

-----------------------------------------------------------------------------
(* Ids and channels.                                                       *)

\* Mutant: two takes of the first id.
TakeTwice(k) == /\ made[k] < MaxMade[k]
                /\ counter' = IF made[k] = 0 THEN counter
                              ELSE [counter EXCEPT ![k] = (@ + 1) % IdWidth]
                /\ made' = [made EXCEPT ![k] = @ + 1]

\* generate_channel_id: fetch_add, which wraps around.
Take(k) == /\ made[k] < MaxMade[k]
           /\ counter' = [counter EXCEPT ![k] = (@ + 1) % IdWidth]
           /\ made' = [made EXCEPT ![k] = @ + 1]

\* A new value is Idle; nth is history.
MakeChannel(k, from, endpoint) ==
    /\ Take(k)
    /\ channels' = channels \cup {[kind |-> k, id |-> counter[k], nth |-> made[k],
                                   from |-> from, endpoint |-> endpoint]}

NewRacin(from) == MakeChannel("Racin", from, Nobody)

NewRacid(from) == MakeChannel("Racid", from, Nobody)

NewRacex(from, endpoint) == MakeChannel("Racex", from, endpoint)

NewBridge == MakeChannel("Ffi", Nobody, Nobody) /\ UNCHANGED ends

CreateChannel(p) == /\ HasChannel(p)
                    /\ \/ p = "Racin" /\ NewRacin(Nobody)
                       \/ p = "Racid" /\ NewRacid(Nobody)
                       \/ p = "Racex" /\ NewRacex(Nobody, Local)
                    /\ UNCHANGED ends

\* The trait's send accepts whatever it is given, in any state, and passes nothing
\* on; nothing calls the channel's next_sequence, so every message says 0.
Send(c) == c.kind # "Ffi" /\ UNCHANGED channelVars

DropChannel(c) == /\ channels' = channels \ {c}
                  /\ UNCHANGED <<counter, made, ends>>

-----------------------------------------------------------------------------
(* Servers.                                                                *)

Enters(s, state) == /\ server' = [server EXCEPT ![s] = state]
                    /\ UNCHANGED <<ids, client, default_endpoint>>

\* listen_uds and listen_named_pipe set no other state.
RacidListen(s) == Enters(s, "Connecting")

RacexListen(s) == Enters(s, "Connected")

\* The channels it handed out belong to its callers and stay.
RacidClose(s) == Enters(s, "Closed")

RacexClose(s) == Enters(s, "Closed")

\* An error, and nothing changes.
Refuse(s) == UNCHANGED channelVars

\* accept asks for a state that listen does not lead to.
RacidAccept(s) == IF server[s] = "Connected"
                  THEN NewRacid(s) /\ UNCHANGED ends
                  ELSE Refuse(s)

RacexAccept(s) == \/ /\ server[s] = "Connected"
                     /\ \E e \in Endpoint : NewRacex(s, e)
                     /\ UNCHANGED ends
                  \/ server[s] # "Connected" /\ Refuse(s)

-----------------------------------------------------------------------------
(* Clients.  The field `channel` of a RacidClient is None from new on.     *)

RacidConnect(c) == /\ client' = [client EXCEPT ![c] = "Connecting"]
                   /\ UNCHANGED <<ids, server, default_endpoint>>

\* send and recv without a channel, connected or not: NotConnected.
RacidTransfer(c) == UNCHANGED channelVars

RacidDisconnect(c) == /\ client' = [client EXCEPT ![c] = "Closed"]
                      /\ UNCHANGED <<ids, server, default_endpoint>>

WithDefaultEndpoint(c, e) == /\ default_endpoint' = [default_endpoint EXCEPT ![c] = e]
                             /\ UNCHANGED <<ids, server, client>>

\* connect leaves the client's list of channels empty, so its close ends none.
RacexConnect(c, e) == NewRacex(c, e) /\ UNCHANGED ends

\* NoDefaultEndpoint otherwise.
ConnectDefault(c) == /\ default_endpoint[c] # Nobody
                     /\ RacexConnect(c, default_endpoint[c])

-----------------------------------------------------------------------------

Serve == \/ \E s \in RacidServer : RacidListen(s) \/ RacidAccept(s) \/ RacidClose(s)
         \/ \E s \in RacexServer : RacexListen(s) \/ RacexAccept(s) \/ RacexClose(s)

Connect == \/ \E c \in RacidClient :
                  RacidConnect(c) \/ RacidTransfer(c) \/ RacidDisconnect(c)
           \/ \E c \in RacexClient :
                  \/ ConnectDefault(c)
                  \/ \E e \in Endpoint : WithDefaultEndpoint(c, e) \/ RacexConnect(c, e)

ChannelNext == \/ NewBridge
               \/ \E p \in RacProtocol : CreateChannel(p)
               \/ \E c \in channels : DropChannel(c) \/ Send(c)
               \/ Serve \/ Connect

ChannelSpec == ChannelInit /\ [][ChannelNext]_channelVars

-----------------------------------------------------------------------------

Channel == [kind : Kind, id : 0..(IdWidth - 1), nth : Nat,
            endpoint : Endpoint \cup {Nobody},
            from : Server \cup RacexClient \cup {Nobody}]

\* The variables have their types; of all ends only a RACEX server is ever
\* Connected, and exactly the RACEX channels have an endpoint.
ChannelTypeOK ==
    /\ counter \in [Kind -> 0..(IdWidth - 1)]
    /\ \A k \in Kind : made[k] \in 0..MaxMade[k]
    /\ channels \subseteq Channel
    /\ \A c \in channels : c.kind = "Racex" <=> c.endpoint # Nobody
    /\ \A s \in RacidServer : server[s] \in {"Idle", "Connecting", "Closed"}
    /\ \A s \in RacexServer : server[s] \in {"Idle", "Connected", "Closed"}
    /\ client \in [RacidClient -> {"Idle", "Connecting", "Closed"}]
    /\ default_endpoint \in [RacexClient -> Endpoint \cup {Nobody}]

\* "Generate unique channel ID" (racid.rs:125) up to the counter's width: two
\* values of one type in use share an id only if the counter has gone all the way
\* round between them.
IdsUnique == \A c, d \in channels :
    c.kind = d.kind /\ c.id = d.id /\ c.nth < d.nth => d.nth - c.nth >= IdWidth

\* A channel that a server handed out came from one that has listened, which no
\* in-device server gets to (racid.rs:207, racex.rs:304).
OnlyListenersServe == \A c \in channels :
    c.from \in Server => c.from \in RacexServer /\ server[c.from] # "Idle"

\* Every channel in use can be told from the others and accounted for by the end
\* that made it, and the ends keep to their states.
ChannelsAccounted == IdsUnique /\ OnlyListenersServe /\ ChannelTypeOK

=============================================================================
