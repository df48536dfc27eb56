--------------------------- MODULE MCAwesomeNetwork ---------------------------
(***************************************************************************)
(* Small instances of AwesomeNetwork for TLC.                              *)
(***************************************************************************)
EXTENDS AwesomeNetwork, TLC

CONSTANTS c1, c2, c3, k1, k2

R(url, key, rule, retries, cancel, accepts, generic) ==
    [url |-> url, cacheKey |-> key, rule |-> rule, retryCount |-> retries,
     cancelPrevious |-> cancel, accepts |-> accepts, generic |-> generic]

\* No run tells one call from another.
Symmetry == Permutations(Calls)

U(endpoint, rest) == [endpoint |-> endpoint, rest |-> rest]

\* One request per cache rule or none on two endpoints, with and without retries, a strict
\* isSuccessResponse, a decoded answer, a cacheKey of its own, and cancelPrevious.
MCRequests ==
    { R(U(k1, "x"), NoKey, "default", 1, FALSE, {"good"}, FALSE),
      R(U(k1, "x"), NoKey, "fromCacheAndUrl", 0, FALSE, Bodies, TRUE),
      R(U(k1, "x"), k2, "fromCacheOrUrlThenUpdate", 0, TRUE, Bodies, FALSE),
      R(U(k2, "x"), NoKey, "fromURL", 1, TRUE, {"good"}, FALSE),
      R(U(k2, "x"), NoKey, "fromCacheOnly", 0, FALSE, Bodies, TRUE) }

\* Peers on one key, with and without cancelPrevious and retries, one request alone on
\* its key, and one without a URL.
MCRequestsPeers ==
    { R(NoUrl, k1, "fromCacheAndUrl", 0, FALSE, Bodies, FALSE),
      R(U(k1, "x"), NoKey, "fromCacheOrUrl", 1, TRUE, Bodies, FALSE),
      R(U(k1, "x"), NoKey, "default", 0, FALSE, Bodies, FALSE),
      R(U(k2, "x"), NoKey, "fromURL", 1, TRUE, Bodies, FALSE) }

\* A request without a URL and one with.
MCRequestsBadUrl ==
    { R(NoUrl, NoKey, "fromURL", 0, FALSE, Bodies, FALSE),
      R(U(k1, "x"), NoKey, "fromURL", 0, FALSE, Bodies, FALSE) }

\* Two requests to one endpoint that differ in host or query.
MCRequestsQuery ==
    { R(U(k1, rest), NoKey, "fromCacheOrUrl", 0, FALSE, Bodies, FALSE) : rest \in {"x", "y"} }

============================================================================
