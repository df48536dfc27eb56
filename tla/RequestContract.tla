--------------------------- MODULE RequestContract ---------------------------
(***************************************************************************)
(* What a caller of AwesomeNetwork.requestData may rely on, whatever the   *)
(* cache, the gate, the session and the retries do: which completions it   *)
(* gets, in which order, given the cache rule of its request and the       *)
(* default rule, which AwesomeNetwork.start may change while it waits.     *)
(***************************************************************************)
EXTENDS Sequences

CONSTANT Calls          \* the calls to requestData

VARIABLES rule,         \* rule[c]: the cache rule of c's request, or "default"
          default,      \* the default rule
          stage,        \* stage[c]: "unasked", "pending" or "settled"
          sources       \* sources[c]: where each completion came from, in order

contractVars == <<rule, default, stage, sources>>

StopAtCache == {"fromCacheOnly", "fromCacheOrUrl"}  \* a hit ends the call
AlwaysUrl   == {"fromCacheAndUrl", "fromURL"}       \* the URL answer is delivered after a hit
Rules       == StopAtCache \cup AlwaysUrl \cup {"fromCacheOrUrlThenUpdate"}

RuleFor(c) == IF rule[c] = "default" THEN default ELSE rule[c]

ContractInit ==
    /\ rule \in [Calls -> Rules \cup {"default"}]
    /\ default \in Rules
    /\ stage = [c \in Calls |-> "unasked"]
    /\ sources = [c \in Calls |-> <<>>]

Move(c, to, completions) ==
    /\ stage' = [stage EXCEPT ![c] = to]
    /\ sources' = [sources EXCEPT ![c] = @ \o completions]
    /\ UNCHANGED <<rule, default>>

\* The cache had data the request accepts.
AskHit(c) ==
    /\ stage[c] = "unasked"
    /\ RuleFor(c) # "fromURL"
    /\ Move(c, IF RuleFor(c) \in StopAtCache THEN "settled" ELSE "pending", <<"cache">>)

\* It had none: a cache-only request is told so, every other one waits for the URL.
AskMiss(c) ==
    /\ stage[c] = "unasked"
    /\ IF RuleFor(c) = "fromCacheOnly"
       THEN Move(c, "settled", <<"none">>)
       ELSE Move(c, "pending", <<>>)

\* The fetch is over, with data or an error; the rule of this moment decides.
Fetched(c) ==
    /\ stage[c] = "pending"
    /\ Move(c, "settled", IF \/ RuleFor(c) \in AlwaysUrl
                             \/ RuleFor(c) # "fromCacheOnly" /\ sources[c] = <<>>
                          THEN <<"url">> ELSE <<>>)

DefaultChanges == default' \in Rules /\ UNCHANGED <<rule, stage, sources>>

ContractNext == DefaultChanges \/ \E c \in Calls : AskHit(c) \/ AskMiss(c) \/ Fetched(c)

ContractSafety == ContractInit /\ [][ContractNext]_contractVars

ContractSpec == ContractSafety /\ \A c \in Calls : WF_contractVars(Fetched(c))
=============================================================================
