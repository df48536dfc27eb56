----------------------------- MODULE MCApplication -----------------------------
(***************************************************************************)
(* A small application for TLC.                                            *)
(***************************************************************************)
EXTENDS Application

CONSTANTS c1, k1, u1, u2

\* One request, to the path the uploads may share, with a retry and the default rule.
MCRequests ==
    { [url |-> [endpoint |-> k1, rest |-> "x"], cacheKey |-> NoKey, rule |-> "default",
       retryCount |-> 1, cancelPrevious |-> FALSE, accepts |-> Bodies, generic |-> FALSE] }

\* A proper upload, one of nothing, and one to nowhere.
MCArguments == { [body |-> "some", key |-> k1], [body |-> NoBody, key |-> k1],
                 [body |-> "some", key |-> BadUrl] }
==============================================================================
