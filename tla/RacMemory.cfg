\* Regions that are made from one another's addresses; channels whose ids go round.
CONSTANTS
    Region = {r1, r2, r3}
    Block = {b1, b2}
    Null = null
    Width = 16
    MaxCalls = 4
    RacidServer = {ds}
    RacexServer = {xs}
    RacidClient = {dc}
    RacexClient = {xc}
    Endpoint = {here}
    Local = here
    Nobody = nobody
    IdWidth = 2
    MaxMade <- MCMaxMade
SPECIFICATION MCSpec
INVARIANTS
    AddressUsable
    FaultsExplained
    LeaksRetained
    
\* The callers may stop calling.
CHECK_DEADLOCK FALSE
