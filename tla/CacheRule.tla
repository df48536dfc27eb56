------------------------------ MODULE CacheRule ------------------------------
(***************************************************************************)
(* AwesomeCacheRule (Caching/AwesomeCacheManager.swift): which sources a   *)
(* request consults, and whether what the URL answered is handed to the    *)
(* caller.  Pure decisions; AwesomeNetwork asks them around a fetch.       *)
(***************************************************************************)

CacheRules == {"fromCacheOnly", "fromCacheOrUrl", "fromCacheOrUrlThenUpdate",
               "fromCacheAndUrl", "fromURL"}

shouldGetFromCache(rule) == rule # "fromURL"

\* Mutant: a hit does not keep fromCacheOrUrl from the URL.
GetFromUrlAfterHit(rule, didReturnCache) ==
    didReturnCache \in BOOLEAN /\ rule # "fromCacheOnly"

shouldGetFromUrl(rule, didReturnCache) ==
    \/ rule = "fromCacheOrUrl" /\ ~didReturnCache
    \/ rule \in {"fromURL", "fromCacheAndUrl", "fromCacheOrUrlThenUpdate"}

\* Mutant: the update after a hit is delivered as well.
ReturnEveryUrlData(rule, didReturnCache) ==
    didReturnCache \in BOOLEAN /\ rule # "fromCacheOnly"

\* Mutant: what a miss had fetched is kept from the caller.
ReturnAlwaysOnly(rule, didReturnCache) ==
    didReturnCache \in BOOLEAN /\ rule \in {"fromCacheAndUrl", "fromURL"}

shouldReturnUrlData(rule, didReturnCache) ==
    \/ rule \in {"fromCacheAndUrl", "fromURL"}
    \/ rule # "fromCacheOnly" /\ ~didReturnCache
=============================================================================
