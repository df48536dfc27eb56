---------------------------- MODULE ContractProofs ----------------------------
(***************************************************************************)
(* AwesomeNetwork implements RequestContract: whatever the gate, the       *)
(* session, the retries, the cancellations and the storage do, a caller    *)
(* gets the completions its cache rule calls for, in their order.          *)
(***************************************************************************)
EXTENDS AwesomeNetworkProofs

From(s) == [i \in DOMAIN s |-> s[i].from]

\* The call left its rule to a default that start may have changed since.
StaleRule(c) == request[c].rule = "default" /\ owner[c] < requester

\* What a call has heard so far, and why it is still waiting or has heard nothing.
ReplyInv(c) ==
    /\ phase[c] = "idle" => replies[c] = <<>>
    /\ phase[c] \notin {"idle", "done"} =>
          /\ didReturnCache[c] => From(replies[c]) = <<"cache">>
          /\ ~didReturnCache[c] => From(replies[c]) = <<>>
          /\ StaleRule(c) \/ shouldGetFromUrl(RuleOf(c), didReturnCache[c])
    /\ phase[c] = "done" => replies[c] # <<>> \/ StaleRule(c)

RInv == IInv /\ \A c \in Calls : ReplyInv(c)
-----------------------------------------------------------------------------
(* Sequences of replies and of their sources                               *)

\* The sources of a sequence of replies are one entry per reply.
LEMMA FromTypes ==
    ASSUME NEW s \in Seq(Replies)
    PROVE  From(s) \in Seq({"cache", "url", "none"})
<1>0. DOMAIN s = 1..Len(s) /\ Len(s) \in Nat /\ \A i \in 1..Len(s) : s[i] \in Replies
  OBVIOUS
<1>1. \A r \in Replies : r.from \in {"cache", "url", "none"}
  BY DEF Replies
<1>2. From(s) \in [1..Len(s) -> {"cache", "url", "none"}]
  BY <1>0, <1>1 DEF From
<1> QED
  BY <1>0, <1>2

\* Appending a reply appends its source.
LEMMA FromAppend ==
    ASSUME NEW s \in Seq(Replies), NEW reply \in Replies
    PROVE  From(Append(s, reply)) = From(s) \o <<reply.from>>
<1> DEFINE lhs == From(Append(s, reply))
           rhs == From(s) \o <<reply.from>>
<1>1. From(s) \in Seq({"cache", "url", "none"}) /\ reply.from \in {"cache", "url", "none"}
  BY FromTypes DEF Replies
<1>2. Append(s, reply) \in Seq(Replies)
  OBVIOUS
<1>3. lhs \in Seq({"cache", "url", "none"}) /\ rhs \in Seq({"cache", "url", "none"})
  <2> HIDE DEF From
  <2>1. lhs \in Seq({"cache", "url", "none"})
    BY <1>2, FromTypes
  <2>2. <<reply.from>> \in Seq({"cache", "url", "none"})
    BY <1>1
  <2> QED
    BY <1>1, <2>1, <2>2
<1>4. DOMAIN From(s) = 1..Len(s) /\ Len(From(s)) = Len(s) /\ Len(s) \in Nat
  BY <1>1 DEF From
<1>5. Len(lhs) = Len(s) + 1 /\ Len(rhs) = Len(s) + 1
  BY <1>1, <1>2, <1>3, <1>4 DEF From
<1>6. ASSUME NEW i \in 1..(Len(s) + 1) PROVE lhs[i] = rhs[i]
  <2>1. CASE i <= Len(s)
    BY <1>1, <1>4, <2>1 DEF From
  <2>2. CASE i = Len(s) + 1
    BY <1>1, <1>4, <2>2 DEF From
  <2> QED
    BY <1>4, <2>1, <2>2
<1> QED
  BY <1>3, <1>5, <1>6
\* A sequence that has been appended to is not empty.
LEMMA EmptyAppend ==
    ASSUME NEW s \in Seq(Replies), NEW reply
    PROVE  Append(s, reply) # <<>>
<1>1. Len(s) \in Nat /\ DOMAIN Append(s, reply) = 1..(Len(s) + 1)
  OBVIOUS
<1>2. 1 \in DOMAIN Append(s, reply) /\ 1 \notin DOMAIN <<>>
  BY <1>1
<1> QED
  BY <1>2
-----------------------------------------------------------------------------
(* Rules                                                                   *)

\* The rule a request is treated by is one of the code's.
LEMMA RuleTypes ==
    ASSUME TypeOK, NEW c \in Calls
    PROVE  RuleOf(c) \in CacheRules /\ defaultCacheRule \in CacheRules
BY RequestFacts, ConstantAssumption DEF RuleOf, IsRequest, TypeOK

\* The contract looks up the same rule.
LEMMA RuleForIs ==
    ASSUME NEW c \in Calls
    PROVE  Contract!RuleFor(c) = RuleOf(c)
BY DEF Contract!RuleFor, RuleOf

\* The contract's rules are the code's.
LEMMA RulesAgree == Contract!Rules = CacheRules
BY DEF Contract!Rules, CacheRules, Contract!StopAtCache, Contract!AlwaysUrl
-----------------------------------------------------------------------------
(* One step of a call is one step of its contract, or none                 *)

\* A step that changes the stage and the replies of one call only, as the contract's Move.
LEMMA MoveRefines ==
    ASSUME NEW c \in Calls, NEW to, NEW completions, request' = request,
           defaultCacheRule' = defaultCacheRule, Stage(c)' = to, From(replies'[c]) = From(replies[c]) \o completions,
           \A d \in Calls \ {c} : Stage(d)' = Stage(d) /\ replies'[d] = replies[d]
    PROVE  Contract!Move(c, to, completions)
<1>1. [d \in Calls |-> Stage(d)]' = [[d \in Calls |-> Stage(d)] EXCEPT ![c] = to]
  OBVIOUS
<1>2. [d \in Calls |-> From(replies[d])]'
         = [[d \in Calls |-> From(replies[d])] EXCEPT ![c] = @ \o completions]
  <2>1. ASSUME NEW d \in Calls
        PROVE  From(replies'[d]) = IF d = c THEN From(replies[c]) \o completions
                                            ELSE From(replies[d])
    BY <2>1
  <2> HIDE DEF From
  <2> QED
    BY <2>1
<1>3. [d \in Calls |-> request[d].rule]' = [d \in Calls |-> request[d].rule]
  OBVIOUS
<1> QED
  BY <1>1, <1>2, <1>3 DEF Contract!Move, From

\* The same facts with no change at all are a stutter of the contract.
LEMMA StutterRefines ==
    ASSUME request' = request, replies' = replies, \A d \in Calls : Stage(d)' = Stage(d)
    PROVE  /\ Contract!DefaultChanges <=> defaultCacheRule' \in Contract!Rules
           /\ defaultCacheRule' = defaultCacheRule => UNCHANGED Contract!contractVars
BY DEF Contract!contractVars, Contract!DefaultChanges

\* A call that neither moves nor hears anything keeps its part of the invariant.
LEMMA ReplyFrame ==
    ASSUME RInv, NEW d \in Calls, request' = request, owner'[d] = owner[d],
           didReturnCache'[d] = didReturnCache[d], replies'[d] = replies[d],
           UNCHANGED sharedVars \/ requester' = requester + 1,
           \/ phase'[d] = phase[d]
           \/ phase[d] \notin {"idle", "done"} /\ phase'[d] \notin {"idle", "done"}
    PROVE  ReplyInv(d)'
<1>1. owner[d] \in Nat /\ requester \in Nat /\ owner[d] <= requester
  BY OwnerFacts DEF RInv, IInv, CallInv
<1>2. /\ StaleRule(d) => StaleRule(d)'
      /\ StaleRule(d)' \/ RuleOf(d)' = RuleOf(d)
  BY <1>1 DEF StaleRule, RuleOf, sharedVars
<1> QED
  BY <1>2 DEF RInv, ReplyInv

\* requestData: a hit or a miss of the contract.
LEMMA RequestDataRefines ==
    ASSUME RInv, NEW c \in Calls, RequestData(c)
    PROVE  /\ Contract!AskHit(c) \/ Contract!AskMiss(c)
           /\ \A d \in Calls : ReplyInv(d)'
<1> USE DEF RInv, IInv
<1> DEFINE rule == RuleOf(c)
<1>1. PICK data \in CachedData(request[c]) :
         LET hit == shouldGetFromCache(rule) /\ isSuccessResponse(request[c], data)
         IN  /\ didReturnCache' = [didReturnCache EXCEPT ![c] = hit]
             /\ \/ /\ hit
                   /\ replies' = [replies EXCEPT ![c] =
                                    Append(@, Reply(request[c], "cache", data, NoError))]
                \/ /\ ~hit /\ ~shouldGetFromUrl(rule, hit)
                   /\ replies' = [replies EXCEPT ![c] =
                                    Append(@, Reply(request[c], "none", NoData, "cacheRule"))]
                \/ /\ ~hit /\ shouldGetFromUrl(rule, hit)
                   /\ UNCHANGED replies
             /\ \/ shouldGetFromUrl(rule, hit) /\ Perform(requester, c)
                \/ /\ ~shouldGetFromUrl(rule, hit)
                   /\ phase' = [phase EXCEPT ![c] = "done"]
  BY DEF RequestData
<1>2. /\ phase[c] = "idle" /\ request' = request /\ UNCHANGED sharedVars
      /\ owner' = [owner EXCEPT ![c] = requester] /\ RuleOf(c)' = RuleOf(c)
      /\ Contract!RuleFor(c) = rule
  BY RuleForIs DEF RequestData, sharedVars, RuleOf
<1>3. PICK hit \in BOOLEAN :
        /\ hit = (shouldGetFromCache(rule) /\ isSuccessResponse(request[c], data))
        /\ didReturnCache' = [didReturnCache EXCEPT ![c] = hit]
        /\ \/ /\ hit
              /\ replies' = [replies EXCEPT ![c] =
                               Append(@, Reply(request[c], "cache", data, NoError))]
           \/ /\ ~hit /\ ~shouldGetFromUrl(rule, hit)
              /\ replies' = [replies EXCEPT ![c] =
                               Append(@, Reply(request[c], "none", NoData, "cacheRule"))]
           \/ /\ ~hit /\ shouldGetFromUrl(rule, hit)
              /\ UNCHANGED replies
        /\ \/ shouldGetFromUrl(rule, hit) /\ Perform(requester, c)
           \/ /\ ~shouldGetFromUrl(rule, hit)
              /\ phase' = [phase EXCEPT ![c] = "done"]
  BY <1>1, Zenon DEF shouldGetFromCache, isSuccessResponse
<1>4. rule \in CacheRules /\ replies[c] = <<>>
  BY <1>2, RuleTypes DEF ReplyInv
<1>5. \E p \in {"dropped", "gated", "running", "done"} :
         /\ phase' = [phase EXCEPT ![c] = p]
         /\ p = "done" <=> ~shouldGetFromUrl(rule, hit)
  BY <1>3, PerformTypes, OwnerFacts
<1>6. PICK p \in {"dropped", "gated", "running", "done"} :
         /\ phase'[c] = p
         /\ p = "done" <=> ~shouldGetFromUrl(rule, hit)
         /\ \A d \in Calls \ {c} : phase'[d] = phase[d]
  BY <1>5 DEF TypeOK
<1>7. /\ Stage(c) = "unasked"
      /\ Stage(c)' = IF p = "done" THEN "settled" ELSE "pending"
      /\ \A d \in Calls \ {c} : Stage(d)' = Stage(d)
  BY <1>2, <1>6 DEF Stage
<1>8. /\ \A d \in Calls \ {c} : /\ replies'[d] = replies[d]
                                /\ didReturnCache'[d] = didReturnCache[d]
                                /\ owner'[d] = owner[d]
      /\ didReturnCache'[c] = hit
  BY <1>2, <1>3 DEF TypeOK
<1>9. From(replies'[c]) = From(replies[c]) \o (IF hit THEN <<"cache">>
                             ELSE IF p = "done" THEN <<"none">> ELSE <<>>)
  <2>1. replies[c] \in Seq(Replies)
    BY DEF TypeOK
  <2>2. CASE hit
    <3> DEFINE reply == Reply(request[c], "cache", data, NoError)
    <3>1. data \in Data \cup {NoData} /\ NoError \in Errors
      BY DataTypes DEF Errors
    <3>2. reply \in Replies
      BY <3>1, ReplyTypes
    <3>3. reply.from = "cache"
      BY DEF Reply
    <3>4. replies'[c] = Append(replies[c], reply)
      BY <1>3, <2>2 DEF TypeOK
    <3> HIDE DEF reply
    <3> QED
      BY <2>1, <2>2, <3>2, <3>3, <3>4, FromAppend
  <2>3. CASE ~hit /\ p = "done"
    <3> DEFINE reply == Reply(request[c], "none", NoData, "cacheRule")
    <3>1. reply \in Replies
      BY ReplyTypes DEF Errors
    <3>2. reply.from = "none"
      BY DEF Reply
    <3>3. replies'[c] = Append(replies[c], reply)
      BY <1>3, <1>6, <2>3 DEF TypeOK
    <3> HIDE DEF reply
    <3> QED
      BY <2>1, <2>3, <3>1, <3>2, <3>3, FromAppend
  <2>4. CASE ~hit /\ p # "done"
    <3>1. replies'[c] = replies[c]
      BY <1>3, <1>6, <2>4
    <3> QED
      BY <1>4, <2>4, <3>1 DEF From
  <2> QED
    BY <2>2, <2>3, <2>4
<1>10. ASSUME hit PROVE Contract!AskHit(c)
  <2>1. rule # "fromURL"
    BY <1>3, <1>10 DEF shouldGetFromCache
  <2>2. p = "done" <=> rule \in Contract!StopAtCache
    BY <1>4, <1>6, <1>10, <2>1 DEF shouldGetFromUrl, CacheRules, Contract!StopAtCache
  <2>3. From(replies'[c]) = From(replies[c]) \o <<"cache">>
    BY <1>9, <1>10
  <2>4. CASE p = "done"
    <3>1. Contract!Move(c, "settled", <<"cache">>)
      BY <1>2, <1>7, <1>8, <2>3, <2>4, MoveRefines DEF sharedVars
    <3> QED
      BY <1>2, <1>7, <2>1, <2>2, <2>4, <3>1 DEF Contract!AskHit, Contract!Move
  <2>5. CASE p # "done"
    <3>1. Contract!Move(c, "pending", <<"cache">>)
      BY <1>2, <1>7, <1>8, <2>3, <2>5, MoveRefines DEF sharedVars
    <3> QED
      BY <1>2, <1>7, <2>1, <2>2, <2>5, <3>1 DEF Contract!AskHit, Contract!Move
  <2> QED
    BY <2>4, <2>5
<1>11. ASSUME ~hit PROVE Contract!AskMiss(c)
  <2>1. p = "done" <=> rule = "fromCacheOnly"
    BY <1>4, <1>6, <1>11 DEF shouldGetFromUrl, CacheRules
  <2>2. CASE p = "done"
    <3>1. Contract!Move(c, "settled", <<"none">>)
      BY <1>2, <1>7, <1>8, <1>9, <1>11, <2>2, MoveRefines DEF sharedVars
    <3> QED
      BY <1>2, <1>7, <2>1, <2>2, <3>1 DEF Contract!AskMiss
  <2>3. CASE p # "done"
    <3>1. Contract!Move(c, "pending", <<>>)
      BY <1>2, <1>7, <1>8, <1>9, <1>11, <2>3, MoveRefines DEF sharedVars
    <3> QED
      BY <1>2, <1>7, <2>1, <2>3, <3>1 DEF Contract!AskMiss
  <2> QED
    BY <2>2, <2>3
<1>12. ReplyInv(c)'
  <2>1. p # "done" => shouldGetFromUrl(rule, hit)
    BY <1>6
  <2>2. p # "done" => From(replies'[c]) = IF hit THEN <<"cache">> ELSE <<>>
    <3>1. From(replies[c]) = <<>>
      BY <1>4 DEF From
    <3>2. <<>> \o <<"cache">> = <<"cache">> /\ <<>> \o <<>> = <<>>
      OBVIOUS
    <3> QED
      BY <1>9, <3>1, <3>2
  <2>3. p = "done" => replies'[c] # <<>>
    <3>1. ASSUME p = "done" PROVE \E reply : replies'[c] = Append(replies[c], reply)
      <4>1. \E reply : replies' = [replies EXCEPT ![c] = Append(@, reply)]
        BY <1>3, <1>6, <3>1
      <4> QED
        BY <4>1 DEF TypeOK
    <3>2. replies[c] \in Seq(Replies)
      BY DEF TypeOK
    <3> QED
      BY <3>1, <3>2, EmptyAppend
  <2>4. phase'[c] = p /\ didReturnCache'[c] = hit /\ RuleOf(c)' = rule
    BY <1>2, <1>6, <1>8
  <2> HIDE DEF From, rule
  <2> QED
    BY <1>6, <2>1, <2>2, <2>3, <2>4 DEF ReplyInv
<1>13. ASSUME NEW d \in Calls \ {c} PROVE ReplyInv(d)'
  BY <1>2, <1>6, <1>8, ReplyFrame
<1> QED
  BY <1>10, <1>11, <1>12, <1>13

\* The handler: the fetch of the contract when it is the last, nothing when it retries.
LEMMA HandlerCompletesRefines ==
    ASSUME RInv, NEW c \in Calls, HandlerCompletes(c)
    PROVE  /\ Contract!Fetched(c) \/ UNCHANGED Contract!contractVars
           /\ \A d \in Calls : ReplyInv(d)'
<1> USE DEF RInv, IInv
<1> DEFINE rule == RuleOf(c)
           reply == Reply(request[c], "url", DataOf(c), ErrorOf(c))
<1>1. /\ phase[c] = "handling" /\ request' = request /\ didReturnCache' = didReturnCache
      /\ owner' = owner /\ UNCHANGED sharedVars
      /\ \/ phase' = [phase EXCEPT ![c] = "waitRetry"] /\ replies' = replies
         \/ /\ phase' = [phase EXCEPT ![c] = "done"]
            /\ \/ /\ shouldReturnUrlData(rule, didReturnCache[c])
                  /\ replies' = [replies EXCEPT ![c] = Append(@, reply)]
               \/ ~shouldReturnUrlData(rule, didReturnCache[c]) /\ replies' = replies
  BY DEF HandlerCompletes
<1>2. /\ rule \in CacheRules /\ didReturnCache[c] \in BOOLEAN
      /\ replies[c] \in Seq(Replies) /\ From(replies[c]) \in Seq({"cache", "url", "none"})
  BY RuleTypes, FromTypes DEF TypeOK
<1>3. /\ didReturnCache[c] => From(replies[c]) = <<"cache">>
      /\ ~didReturnCache[c] => From(replies[c]) = <<>>
      /\ StaleRule(c) \/ shouldGetFromUrl(rule, didReturnCache[c])
      /\ StaleRule(c)' = StaleRule(c) /\ RuleOf(c)' = rule
      /\ Contract!RuleFor(c) = rule
  BY <1>1, RuleForIs DEF ReplyInv, StaleRule, RuleOf, sharedVars
<1>4. ASSUME NEW d \in Calls PROVE ReplyInv(d)'
  <2>1. CASE d = c
    <3>1. CASE phase' = [phase EXCEPT ![c] = "waitRetry"] /\ replies' = replies
      <4>1. phase'[c] = "waitRetry"
        BY <3>1 DEF TypeOK
      <4> HIDE DEF From
      <4> QED
        BY <1>1, <1>3, <2>1, <3>1, <4>1 DEF ReplyInv
    <3>2. CASE /\ phase' = [phase EXCEPT ![c] = "done"]
               /\ shouldReturnUrlData(rule, didReturnCache[c])
               /\ replies' = [replies EXCEPT ![c] = Append(@, reply)]
      <4>1. phase'[c] = "done" /\ replies'[c] = Append(replies[c], reply)
        BY <3>2 DEF TypeOK
      <4>2. replies'[c] # <<>>
        BY <1>2, <4>1, EmptyAppend
      <4> QED
        BY <2>1, <4>1, <4>2 DEF ReplyInv
    <3>3. CASE /\ phase' = [phase EXCEPT ![c] = "done"] /\ replies' = replies
               /\ ~shouldReturnUrlData(rule, didReturnCache[c])
      <4>1. phase'[c] = "done"
        BY <3>3 DEF TypeOK
      <4>2. ASSUME ~StaleRule(c) PROVE replies[c] # <<>>
        <5>1. didReturnCache[c]
          BY <1>2, <1>3, <3>3, <4>2 DEF shouldGetFromUrl, shouldReturnUrlData, CacheRules
        <5>2. <<"cache">> # <<>> /\ From(<<>>) = <<>>
          BY DEF From
        <5> HIDE DEF From
        <5> QED
          BY <1>3, <5>1, <5>2
      <4> QED
        BY <1>3, <2>1, <3>3, <4>1, <4>2 DEF ReplyInv
    <3> QED
      BY <1>1, <3>1, <3>2, <3>3
  <2>2. CASE d # c
    <3>1. phase'[d] = phase[d] /\ replies'[d] = replies[d]
      BY <1>1, <2>2 DEF TypeOK
    <3> QED
      BY <1>1, <3>1, ReplyFrame
  <2> QED
    BY <2>1, <2>2
<1>5. CASE phase' = [phase EXCEPT ![c] = "waitRetry"] /\ replies' = replies
  <2>1. \A d \in Calls : Stage(d)' = Stage(d)
    BY <1>1, <1>5 DEF Stage, TypeOK
  <2> QED
    BY <1>1, <1>4, <1>5, <2>1, StutterRefines DEF sharedVars
<1>6. CASE /\ phase' = [phase EXCEPT ![c] = "done"]
           /\ \/ /\ shouldReturnUrlData(rule, didReturnCache[c])
                 /\ replies' = [replies EXCEPT ![c] = Append(@, reply)]
              \/ ~shouldReturnUrlData(rule, didReturnCache[c]) /\ replies' = replies
  <2> DEFINE delivers == \/ rule \in Contract!AlwaysUrl
                         \/ rule # "fromCacheOnly" /\ From(replies[c]) = <<>>
             completions == IF delivers
                            THEN <<"url">> ELSE <<>>
  <2>1. /\ Stage(c) = "pending" /\ Stage(c)' = "settled"
        /\ \A d \in Calls \ {c} : Stage(d)' = Stage(d) /\ replies'[d] = replies[d]
    BY <1>1, <1>6 DEF Stage, TypeOK
  <2>2. shouldReturnUrlData(rule, didReturnCache[c])
           <=> delivers
    <3>1. From(replies[c]) = <<>> <=> ~didReturnCache[c]
      <4> HIDE DEF From
      <4>1. <<"cache">> # <<>>
        OBVIOUS
      <4> QED
        BY <1>3, <4>1
    <3> HIDE DEF From
    <3> QED
      BY <1>2, <3>1 DEF shouldReturnUrlData, CacheRules, Contract!AlwaysUrl
  <2>3. From(replies'[c]) = From(replies[c]) \o completions
    <3>1. CASE shouldReturnUrlData(rule, didReturnCache[c])
      <4>1. reply \in Replies
        BY DataTypes, ReplyTypes
      <4>2. reply.from = "url"
        BY DEF Reply
      <4>3. replies'[c] = Append(replies[c], reply)
        BY <1>6, <3>1 DEF TypeOK
      <4>4. completions = <<"url">>
        BY <2>2, <3>1
      <4> HIDE DEF reply, From, completions
      <4> QED
        BY <1>2, <4>1, <4>2, <4>3, <4>4, FromAppend
    <3>2. CASE ~shouldReturnUrlData(rule, didReturnCache[c])
      <4>1. replies'[c] = replies[c] /\ completions = <<>>
        BY <1>6, <2>2, <3>2
      <4> HIDE DEF From, completions
      <4>2. From(replies[c]) \o <<>> = From(replies[c])
        BY <1>2
      <4> QED
        BY <4>1, <4>2
    <3> QED
      BY <3>1, <3>2
  <2>4. ASSUME delivers
        PROVE  Contract!Fetched(c)
    <3>1. From(replies'[c]) = From(replies[c]) \o <<"url">>
      BY <2>3, <2>4
    <3>2. Contract!Move(c, "settled", <<"url">>)
      BY <1>1, <2>1, <3>1, MoveRefines DEF sharedVars
    <3> QED
      BY <1>3, <2>1, <2>4, <3>2 DEF Contract!Fetched, Contract!Move, From
  <2>5. ASSUME ~delivers
        PROVE  Contract!Fetched(c)
    <3>1. From(replies'[c]) = From(replies[c]) \o <<>>
      BY <2>3, <2>5
    <3>2. Contract!Move(c, "settled", <<>>)
      BY <1>1, <2>1, <3>1, MoveRefines DEF sharedVars
    <3> QED
      BY <1>3, <2>1, <2>5, <3>2 DEF Contract!Fetched, Contract!Move, From
  <2>6. Contract!Fetched(c)
    BY <2>4, <2>5
  <2> QED
    BY <1>4, <2>6
<1> QED
  BY <1>1, <1>5, <1>6

\* Everything else happens between a call's question and its answer.
LEMMA InnerStepRefines ==
    ASSUME RInv, NEW c \in Calls,
           Dispatched(c) \/ SessionAnswers(c) \/ HandlerRemoves(c) \/ RetryFires(c)
    PROVE  /\ UNCHANGED Contract!contractVars
           /\ \A d \in Calls : ReplyInv(d)'
<1> USE DEF RInv, IInv
<1>1. /\ request' = request /\ replies' = replies /\ didReturnCache' = didReturnCache
      /\ owner' = owner /\ UNCHANGED sharedVars
      /\ phase[c] \notin {"idle", "done"}
  BY DEF Dispatched, SessionAnswers, HandlerRemoves, RetryFires
<1>2. \E p \in Phases \ {"idle", "done"} : phase' = [phase EXCEPT ![c] = p]
  <2>1. CASE RetryFires(c)
    BY <1>1, <2>1, PerformTypes, OwnerFacts DEF RetryFires, Phases
  <2>2. CASE Dispatched(c) \/ SessionAnswers(c) \/ HandlerRemoves(c)
    BY <2>2 DEF Dispatched, Send, SessionAnswers, HandlerRemoves, Phases
  <2> QED
    BY <2>1, <2>2
<1>3. /\ phase'[c] \notin {"idle", "done"}
      /\ \A d \in Calls \ {c} : phase'[d] = phase[d]
  BY <1>2 DEF TypeOK
<1>4. \A d \in Calls : Stage(d)' = Stage(d)
  BY <1>1, <1>3 DEF Stage
<1>5. ASSUME NEW d \in Calls PROVE ReplyInv(d)'
  BY <1>1, <1>3, ReplyFrame
<1> QED
  BY <1>1, <1>4, <1>5, StutterRefines DEF sharedVars

\* cancelAllRequests and clearCache are invisible to the contract; start changes its default.
LEMMA ControlStepRefines ==
    ASSUME RInv, CancelAllBegins \/ CancelAllEnds \/ clearCache \/ start \/ UNCHANGED vars
    PROVE  /\ Contract!DefaultChanges \/ UNCHANGED Contract!contractVars
           /\ \A d \in Calls : ReplyInv(d)'
<1>1. /\ UNCHANGED <<request, owner, phase, replies, didReturnCache>>
      /\ UNCHANGED sharedVars \/ (requester' = requester + 1 /\ defaultCacheRule' \in DefaultRules)
  BY DEF CancelAllBegins, CancelAllEnds, clearCache, start, vars, callVars, sharedVars
<1>2. \A d \in Calls : Stage(d)' = Stage(d)
  BY <1>1 DEF Stage
<1>3. ASSUME NEW d \in Calls PROVE ReplyInv(d)'
  BY <1>1, ReplyFrame
<1>4. defaultCacheRule' = defaultCacheRule \/ defaultCacheRule' \in Contract!Rules
  BY <1>1, RulesAgree, ConstantAssumption DEF sharedVars
<1> QED
  BY <1>1, <1>2, <1>3, <1>4, StutterRefines

\* The initial states map to initial states of the contract.
LEMMA InitRefines == Init => RInv /\ Contract!ContractInit
<1> SUFFICES ASSUME Init PROVE RInv /\ Contract!ContractInit
  OBVIOUS
<1>1. IInv
  BY InitInv
<1>2. \A c \in Calls : ReplyInv(c)
  BY DEF Init, ReplyInv
<1>3. \A c \in Calls : /\ request[c].rule \in CacheRules \cup {"default"}
                       /\ Stage(c) = "unasked" /\ From(replies[c]) = <<>>
  BY <1>1, RequestFacts DEF Init, IInv, IsRequest, Stage, From
<1>4. [c \in Calls |-> Stage(c)] = [c \in Calls |-> "unasked"]
  BY <1>3
<1>5. [c \in Calls |-> From(replies[c])] = [c \in Calls |-> <<>>]
  <2> HIDE DEF From
  <2> QED
    BY <1>3
<1>6. [c \in Calls |-> request[c].rule] \in [Calls -> Contract!Rules \cup {"default"}]
  BY <1>3, RulesAgree
<1>7. defaultCacheRule \in Contract!Rules
  BY RulesAgree, ConstantAssumption DEF Init
<1> QED
  BY <1>1, <1>2, <1>4, <1>5, <1>6, <1>7 DEF RInv, Contract!ContractInit, From

\* Every step maps to a step of the contract or to a stutter.
LEMMA NextRefines ==
    RInv /\ [Next]_vars => RInv' /\ [Contract!ContractNext]_(Contract!contractVars)
<1> SUFFICES ASSUME RInv, [Next]_vars
             PROVE  RInv' /\ [Contract!ContractNext]_(Contract!contractVars)
  OBVIOUS
<1>1. IInv'
  BY NextInv DEF RInv
<1>2. ASSUME NEW c \in Calls, CallStep(c)
      PROVE  /\ [Contract!ContractNext]_(Contract!contractVars)
             /\ \A d \in Calls : ReplyInv(d)'
  BY <1>2, RequestDataRefines, HandlerCompletesRefines, InnerStepRefines
     DEF CallStep, Contract!ContractNext
<1>3. \/ \E c \in Calls : CallStep(c)
      \/ CancelAllBegins \/ CancelAllEnds \/ clearCache \/ start \/ UNCHANGED vars
  BY DEF Next
<1> QED
  BY <1>1, <1>2, <1>3, ControlStepRefines DEF RInv, Contract!ContractNext

\* AwesomeNetwork implements the safety of RequestContract: the completions a caller gets
\* are those its cache rule calls for, in that order, and nothing follows the last.
THEOREM ContractKept == Spec => RefinesContract
BY InitRefines, NextRefines, PTL DEF Spec, RefinesContract, Contract!ContractSafety

\* The reason a finished call may have heard nothing.
LEMMA RInvImpliesSilent == RInv => SilentOnlyByRestart
BY DEF RInv, ReplyInv, StaleRule, SilentOnlyByRestart

\* No call ends without a completion unless it left its cache rule to the default and start
\* was called between the question and the answer.
THEOREM SilenceNeedsRestart == Spec => []SilentOnlyByRestart
BY InitRefines, NextRefines, RInvImpliesSilent, PTL DEF Spec
=============================================================================
