----------------------------- MODULE RouteMatch -----------------------------
(***************************************************************************)
(* The two route matchers: match_request of the routing gateway (Rust) and *)
(* matchRoute of the in-process router Worker (JavaScript), written twice  *)
(* in the code and meant to agree, and the reference both are held to.     *)
(*                                                                         *)
(* A path is the sequence of its characters, so /a/b is the sequence       *)
(* <<"/", "a", "/", "b">> and /a is a prefix of /ab.  A route is a record  *)
(* with at least the fields host, prefix and methods; "" is an absent      *)
(* host, {} are absent methods.                                            *)
(***************************************************************************)
EXTENDS Naturals, FiniteSets, SequencesExt

CONSTANT NoRoute    \* None, null

\* Prefixes that every path has, by special case.
WholePath == {<<>>, <<"/">>, <<"/", "*">>}

\* trim_end_matches('/')
TrimSlashes(prefix) ==
    LET kept == {i \in DOMAIN prefix : prefix[i] # "/"}
    IN  SubSeq(prefix, 1, IF kept = {} THEN 0
                          ELSE CHOOSE i \in kept : \A j \in kept : j <= i)

\* replace(/\/$/, "")
TrimOneSlash(prefix) ==
    IF prefix # <<>> /\ Last(prefix) = "/" THEN Front(prefix) ELSE prefix

\* Variant: the routes are tried in the order of the table.
TableOrder(routes) == routes

\* The stable sort by the length of the untrimmed prefix, longest first.
ByPrefixLength(routes) ==
    LET length(i) == Len(routes[i].prefix)
        rank(i) == Cardinality({j \in DOMAIN routes :
                       \/ length(j) > length(i)
                       \/ length(j) = length(i) /\ j <= i})
    IN  [k \in DOMAIN routes |-> routes[CHOOSE i \in DOMAIN routes : rank(i) = k]]

HostFits(route, host) == route.host \in {"", "*", host}
MethodFits(route, method) == route.methods = {} \/ method \in route.methods

\* One route against one request, in Rust and in JavaScript.
FitsRequest(route, request) ==
    /\ HostFits(route, request.host)
    /\ MethodFits(route, request.method)
    /\ \/ route.prefix \in WholePath
       \/ IsPrefix(TrimSlashes(route.prefix), request.path)

FitsInRouter(route, request) ==
    /\ HostFits(route, request.host)
    /\ MethodFits(route, request.method)
    /\ \/ route.prefix \in WholePath
       \/ IsPrefix(TrimOneSlash(route.prefix), request.path)

\* The loop returns at the first route that fits.
FirstOf(routes, fitting) ==
    IF fitting = {} THEN NoRoute
    ELSE routes[CHOOSE k \in fitting : \A j \in fitting : k <= j]

\* The gateway's matcher.
MatchRequest(routes, request) ==
    LET sorted == ByPrefixLength(routes)
    IN  FirstOf(sorted, {k \in DOMAIN sorted :
            \E route \in {sorted[k]} : FitsRequest(route, request)})

\* The router Worker's matcher.
MatchRoute(routes, request) ==
    LET sorted == ByPrefixLength(routes)
    IN  FirstOf(sorted, {k \in DOMAIN sorted :
            \E route \in {sorted[k]} : FitsInRouter(route, request)})

-----------------------------------------------------------------------------
\* The prefixes on whose end the two trimmings differ.
EndsInTwoSlashes(p) == Len(p) >= 2 /\ p[Len(p)] = "/" /\ p[Len(p) - 1] = "/"

\* Prefixes that some path may both have.
Overlap(p, q) ==
    \/ p \in WholePath \/ q \in WholePath
    \/ IsPrefix(TrimSlashes(p), TrimSlashes(q))
    \/ IsPrefix(TrimSlashes(q), TrimSlashes(p))

\* The reference, not code: of the routes that fit, the one with the longest
\* prefix, and of those the first in the table.  No order is imposed on the
\* table and nothing is tried one after the other.
Prescribed(routes, request) ==
    LET fitting == {i \in DOMAIN routes : FitsRequest(routes[i], request)}
        length(i) == Len(routes[i].prefix)
    IN  IF fitting = {} THEN NoRoute
        ELSE routes[CHOOSE i \in fitting : \A j \in fitting :
                 \/ length(j) < length(i)
                 \/ length(j) = length(i) /\ i <= j]

=============================================================================
