------------------------------- MODULE Ingress -------------------------------
(***************************************************************************)
(* What a URI goes through between ingress and the kernel: normalisation   *)
(* (src/ingress.rs, and again in src/resolver.rs), the scheme that is put  *)
(* in front of it and the domain it belongs to (src/core/orch.rs), whether *)
(* it is a trade (src/trading_strategy.rs) and the fan it resolves to.     *)
(* A URI is a sequence of tokens: the ones the code looks for, and words.  *)
(***************************************************************************)
EXTENDS Naturals, FiniteSetsExt, SequencesExt

CONSTANTS Token,      \* of which "/", " ", "." and the schemes "rac:", ... are special
          MaxLength,  \* bound: tokens of a URI
          Actor       \* "trading-bot", the one whose name contains "trade", others

SchemeToken == {"rac:", "http:", "mcp:"}
Slashes == <<"/", "/">>

VARIABLE uri          \* the URI as it arrived

IngressInit == uri = <<>>

IngressNext == \E t \in Token : Len(uri) < MaxLength /\ uri' = Append(uri, t)

IngressSpec == IngressInit /\ [][IngressNext]_uri

-----------------------------------------------------------------------------

\* The sequence without the tokens t at its end, and without those at either end.
TrimEnd(s, t) == SubSeq(s, 1, SelectLastInSeq(s, LAMBDA x : x # t))
Trim(s, t) == Reverse(TrimEnd(Reverse(TrimEnd(s, t)), t))

\* normalize_uri
NormalizeUri(s) == LET trimmed == Trim(s, " ") IN
                   IF IsSuffix(<<"/">>, trimmed) /\ Len(trimmed) > 1
                   THEN TrimEnd(trimmed, "/") ELSE trimmed

\* canonical_uri, the resolver's own copy, which no code of the crate calls
CanonicalUri(s) == LET normalized == Trim(s, " ") IN
                   IF IsSuffix(<<"/">>, normalized) /\ Len(normalized) > 1
                   THEN TrimEnd(normalized, "/") ELSE normalized

\* The request of handle_rac, handle_http and handle_mcp: only the one from another
\* node has made a hop.
HandleRac(s, actor) ==
    [uri |-> NormalizeUri(s), source |-> "Rac", actor |-> actor, hop_count |-> 0]

HandleHttp(s, actor) ==
    [uri |-> NormalizeUri(s), source |-> "Http", actor |-> actor, hop_count |-> 0]

HandleMcp(s, actor) ==
    [uri |-> NormalizeUri(s), source |-> "Mcp", actor |-> actor, hop_count |-> 1]

-----------------------------------------------------------------------------

\* DEFAULT_ENTRIES: a prefix and the fan it stands for.
DefaultEntries == << [pattern |-> <<"rac:">> \o Slashes, fan |-> "core.echo"],
                     [pattern |-> <<"http:">> \o Slashes, fan |-> "core.upper"],
                     [pattern |-> <<"mcp:">> \o Slashes, fan |-> "core.echo"] >>

\* ResolverTable::resolve: the first entry that fits.
Resolve(s) == LET i == SelectInSeq(DefaultEntries, LAMBDA e : IsPrefix(e.pattern, s))
              IN  IF i = 0 THEN "none" ELSE DefaultEntries[i].fan

HasScheme(s) == \E t \in SchemeToken : IsPrefix(<<t>> \o Slashes, s)

\* Mutant: the scheme is enough, the slashes are not looked for.
WithSchemeLoose(s) == IF s # <<>> /\ Head(s) \in SchemeToken THEN s
                      ELSE <<"rac:">> \o Slashes \o s

\* What dispatch_unified resolves.
WithScheme(s) == IF HasScheme(s) THEN s ELSE <<"rac:">> \o Slashes \o s

\* split_once("://"): what follows the first scheme that has its slashes, or all.
NoScheme(s) ==
    LET at == {i \in DOMAIN s : /\ s[i] \in SchemeToken
                                /\ IsPrefix(Slashes, SubSeq(s, i + 1, Len(s)))}
    IN  IF at = {} THEN s ELSE SubSeq(s, Min(at) + 3, Len(s))

\* Mutant: a path that begins with a slash has a head as well.
DomainSlash(req) ==
    LET rest == NoScheme(req.uri)
        slash == SelectInSeq(rest, LAMBDA t : t = "/")
    IN  IF slash > 0 THEN SubSeq(rest, 1, slash - 1)
        ELSE IF req.actor = "trade-desk" THEN <<"trade">> ELSE <<"default">>

\* strategy_domain: the head of a path, or else what the actor's name says.
StrategyDomain(req) ==
    LET rest == NoScheme(req.uri)
        slash == SelectInSeq(rest, LAMBDA t : t = "/")
    IN  IF slash > 1 THEN SubSeq(rest, 1, slash - 1)
        ELSE IF req.actor = "trade-desk" THEN <<"trade">> ELSE <<"default">>

\* is_trade_request
IsTradeRequest(req) == \/ <<"/", "trade">> \in SubSeqs(req.uri)
                       \/ <<"trade", ".">> \in SubSeqs(req.uri)
                       \/ req.actor = "trading-bot"

-----------------------------------------------------------------------------

Requests == UNION {{HandleRac(uri, a), HandleHttp(uri, a), HandleMcp(uri, a)} : a \in Actor}

\* The fan that the URI as it arrived names, nothing or more slashes after it apart.
Named == LET s == Trim(uri, " ") IN
         IF HasScheme(s) /\ \E i \in 4..Len(s) : s[i] # "/" THEN Resolve(s) ELSE "core.echo"

\* Whatever arrives, the default table has a fan for it: a dispatch ends in "fan not
\* found" (orch.rs:146) only after a reload.  It is the fan that the URI named,
\* although normalisation takes the slashes off a bare scheme.
FanAsNamed == \A r \in Requests : Resolve(WithScheme(r.uri)) = Named

\* A normalised URI is "/" or has no slash at its end and no blank at either, save
\* one that a slash kept apart from the end; the resolver's copy agrees, and without
\* blanks to uncover, normalising again changes nothing (ingress.rs:76).
NormalForm == \A r \in Requests :
    /\ r.uri = <<"/">> \/ ~IsSuffix(<<"/">>, r.uri)
    /\ ~IsPrefix(<<" ">>, r.uri)
    /\ IsSuffix(<<" ">>, r.uri) => IsSuffix(<<"/">>, Trim(uri, " "))
    /\ r.uri = CanonicalUri(uri)
    /\ ~IsSuffix(<<" ">>, r.uri) => NormalizeUri(r.uri) = r.uri

\* A domain is never empty, and names no part of a path but its head (orch.rs:247): a
\* strategy registered for a domain gets the requests whose path begins with it.
DomainIsHead == \A r \in Requests :
    LET d == StrategyDomain(r) IN
    /\ d # <<>> /\ "/" \notin {d[i] : i \in DOMAIN d}
    /\ d \in {<<"default">>, <<"trade">>} \/ IsPrefix(d \o <<"/">>, NoScheme(r.uri))

\* A request that reaches the domain "trade" by its scheme and path is a trade for
\* the trading strategy: its key is salted and it is not retried (trading_strategy.rs:14).
TradeDomainTrades == \A r \in Requests :
    HasScheme(r.uri) /\ IsPrefix(<<"trade", "/">>, NoScheme(r.uri)) =>
        StrategyDomain(r) = <<"trade">> /\ IsTradeRequest(r)

\* Normalisation has one result per request and keeps the fan the URI names.
UriKept == NormalForm /\ FanAsNamed

\* The domain that chooses a strategy and that strategy's own reading of the URI fit.
DomainsAgree == DomainIsHead /\ TradeDomainTrades

=============================================================================
