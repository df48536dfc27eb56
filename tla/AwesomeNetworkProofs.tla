------------------------- MODULE AwesomeNetworkProofs -------------------------
(***************************************************************************)
(* Theorems about AwesomeNetwork, for every set of calls and requests, any *)
(* retry counts, any number of calls to start, any bound on the controls,  *)
(* gated or not, confined or not.                                          *)
(***************************************************************************)
EXTENDS AwesomeNetwork, TLAPS

\* Per call: a call past the URL check has a URL; the tasks it has created and the
\* attempts it has left always add up; a handler has an answer to handle; a call waits
\* for a retry only with one left; a fetch is done only with success or nothing left; and
\* a call that has been asked knows a requester no younger than the current one.
CallInv(c) ==
    /\ phase[c] \in {"gated", "running", "answered", "handling", "waitRetry"}
          => request[c].url # NoUrl
    /\ phase[c] = "idle" => sent[c] = 0
    /\ phase[c] \in {"idle", "gated", "dropped"}
          => sent[c] + left[c] = request[c].retryCount
    /\ phase[c] \in {"running", "answered", "handling", "waitRetry"}
          => sent[c] > 0 /\ sent[c] + left[c] = request[c].retryCount + 1
    /\ phase[c] \in {"answered", "handling"} => outcome[c] # NoResult
    /\ phase[c] = "waitRetry" => left[c] > 0
    /\ phase[c] = "done"
          => \/ sent[c] = 0
             \/ /\ sent[c] + left[c] = request[c].retryCount + 1
                /\ left[c] = 0 \/ isSuccessResponse(request[c], DataOf(c))
    /\ phase[c] = "idle" <=> owner[c] = 0
    /\ owner[c] <= requester

IInv == TypeOK /\ \A c \in Calls : CallInv(c)

ManagerTypeOK ==
    /\ requestQueue \in [Slots -> (Calls \X Nat) \cup {NoTask}]
    /\ cancelled \subseteq Calls \X Nat
    /\ sweeping \subseteq Managers
-----------------------------------------------------------------------------
(* The operations of the manager and of the requester keep their types     *)

\* A request a call is made with is well formed.
LEMMA RequestFacts ==
    ASSUME TypeOK, NEW c \in Calls
    PROVE  IsRequest(request[c])
BY RequestAssumption DEF TypeOK

\* The key of a request with a URL is a key of the dictionary.
LEMMA KeyFacts ==
    ASSUME TypeOK, NEW c \in Calls, request[c].url # NoUrl
    PROVE  urlCacheKey(request[c].url) \in Keys
BY RequestFacts DEF IsRequest, IsUrl, urlCacheKey

\* A requester tracks such a request in a slot.
LEMMA SlotFacts ==
    ASSUME TypeOK, NEW c \in Calls, request[c].url # NoUrl, NEW m \in Managers
    PROVE  Slot(m, c) \in Slots
BY KeyFacts DEF Slot, Slots

\* The current requester is a manager's, and so is that of a call that has been asked.
LEMMA OwnerFacts ==
    ASSUME IInv, NEW c \in Calls
    PROVE  /\ requester \in Managers /\ requester \in Nat \ {0}
           /\ owner[c] \in Nat
           /\ phase[c] # "idle" => owner[c] \in Managers
BY ManagerAssumption DEF IInv, TypeOK, CallInv

\* performRequest(urlRequest) keeps the manager's types and creates one task.
LEMMA SendTypes ==
    ASSUME TypeOK, NEW c \in Calls, request[c].url # NoUrl, NEW m \in Managers, Send(m, c)
    PROVE  /\ ManagerTypeOK'
           /\ phase' = [phase EXCEPT ![c] = "running"]
           /\ sent' = [sent EXCEPT ![c] = sent[c] + 1]
<1> DEFINE k == Slot(m, c)
           t == <<c, sent[c] + 1>>
<1>1. k \in Slots
  BY SlotFacts
<1>2. t \in Calls \X Nat
  BY DEF TypeOK
<1>3. requestQueue' \in [Slots -> (Calls \X Nat) \cup {NoTask}]
  <2>1. requestQueue' = [requestQueue EXCEPT ![k] = t] \/ requestQueue' = requestQueue
    BY DEF Send, addRequest, Store
  <2> QED
    BY <2>1, <1>1, <1>2 DEF TypeOK
<1>4. cancelled' \subseteq Calls \X Nat
  <2>1. requestQueue[k] \in (Calls \X Nat) \cup {NoTask}
    BY <1>1 DEF TypeOK
  <2>2. \/ cancelled' = cancelled \cup ({requestQueue[k]} \ {NoTask})
        \/ cancelled' = cancelled
    BY DEF Send, addRequest
  <2> QED
    BY <2>1, <2>2 DEF TypeOK
<1>5. sweeping' \subseteq Managers
  BY DEF Send, addRequest, TypeOK
<1> QED
  BY <1>3, <1>4, <1>5 DEF Send, ManagerTypeOK

\* performRequest(request) moves the call to one of three phases; only a send counts.
LEMMA PerformTypes ==
    ASSUME TypeOK, NEW c \in Calls, NEW m \in Managers, Perform(m, c)
    PROVE  /\ ManagerTypeOK'
           /\ \/ /\ request[c].url = NoUrl
                 /\ phase' = [phase EXCEPT ![c] = "dropped"] /\ sent' = sent
              \/ /\ request[c].url # NoUrl
                 /\ phase' = [phase EXCEPT ![c] = "gated"] /\ sent' = sent
              \/ /\ request[c].url # NoUrl
                 /\ phase' = [phase EXCEPT ![c] = "running"]
                 /\ sent' = [sent EXCEPT ![c] = sent[c] + 1]
<1>1. CASE request[c].url # NoUrl /\ Send(m, c)
  BY <1>1, SendTypes
<1>2. CASE UNCHANGED <<managerVars, sent>>
  BY <1>2 DEF Perform, ManagerTypeOK, TypeOK, managerVars, Send
<1> QED
  BY <1>1, <1>2 DEF Perform

\* What a request may read from the cache is typed, and what a call ends with too.
LEMMA DataTypes ==
    ASSUME TypeOK, NEW c \in Calls
    PROVE  /\ CachedData(request[c]) \subseteq Data \cup {NoData}
           /\ DataOf(c) \in Data \cup {NoData}
           /\ ErrorOf(c) \in Errors
<1>1. FileKey(request[c]) \in Keys \cup {NoKey}
  BY RequestFacts DEF FileKey, IsRequest, IsUrl, urlCacheKey
<1>2. CachedData(request[c]) \subseteq Data \cup {NoData}
  BY <1>1 DEF CachedData, TypeOK
<1>3. DataOf(c) \in Data \cup {NoData}
  BY DEF DataOf, Data
<1>4. ErrorOf(c) \in Errors
  BY DEF ErrorOf, Errors
<1> QED
  BY <1>2, <1>3, <1>4

\* A completion made of typed parts is typed, decoded or not.
LEMMA ReplyTypes ==
    ASSUME NEW r, NEW from \in {"cache", "url", "none"},
           NEW data \in Data \cup {NoData}, NEW error \in Errors
    PROVE  Reply(r, from, data, error) \in Replies
BY DEF Reply, Replies, Errors
-----------------------------------------------------------------------------
(* The inductive invariant                                                 *)

\* A step that leaves a call's own variables alone keeps its part of the invariant.
LEMMA CallFrame ==
    ASSUME IInv, NEW d \in Calls, request' = request, phase'[d] = phase[d],
           left'[d] = left[d], sent'[d] = sent[d], outcome'[d] = outcome[d],
           owner'[d] = owner[d], requester' = requester \/ requester' = requester + 1
    PROVE  CallInv(d)'
<1>1. owner[d] <= requester'
  BY OwnerFacts DEF IInv, CallInv
<1> QED
  BY <1>1 DEF IInv, CallInv, isSuccessResponse, DataOf

\* The initial states satisfy the invariant.
LEMMA InitInv == Init => IInv
<1> SUFFICES ASSUME Init PROVE IInv
  OBVIOUS
<1>1. TypeOK
  <2>1. \A c \in Calls : request[c].retryCount \in Nat
    BY RequestAssumption DEF Init, IsRequest
  <2>2. left \in [Calls -> Nat]
    BY <2>1 DEF Init
  <2>3. ManagerTypeOK
    BY DEF Init, ManagerInit, ManagerTypeOK
  <2>6. /\ requester \in Managers /\ defaultCacheRule \in DefaultRules
        /\ owner \in [Calls -> Managers \cup {0}]
    BY ManagerAssumption DEF Init
  <2>4. replies \in [Calls -> Seq(Replies)] /\ cache \in [Keys -> Data \cup {NoData}]
    BY DEF Init
  <2>5. controls \in 0..MaxControls
    BY ConstantAssumption DEF Init
  <2> QED
    BY <2>2, <2>3, <2>4, <2>5, <2>6 DEF Init, TypeOK, ManagerTypeOK, Phases
<1>2. ASSUME NEW c \in Calls PROVE CallInv(c)
  BY <1>2, <1>1, RequestFacts DEF Init, CallInv, IsRequest
<1> QED
  BY <1>1, <1>2 DEF IInv

\* Asking: the cache is read, and the call ends or goes to the gate or out.
LEMMA RequestDataStep ==
    ASSUME IInv, NEW c \in Calls, RequestData(c)
    PROVE  IInv'
<1> USE DEF IInv
<1>1. PICK data \in CachedData(request[c]) :
         LET r == request[c]
             hit == shouldGetFromCache(RuleOf(c)) /\ isSuccessResponse(r, data)
         IN  /\ didReturnCache' = [didReturnCache EXCEPT ![c] = hit]
             /\ \/ replies' = [replies EXCEPT ![c] =
                                 Append(@, Reply(r, "cache", data, NoError))]
                \/ replies' = [replies EXCEPT ![c] =
                                 Append(@, Reply(r, "none", NoData, "cacheRule"))]
                \/ UNCHANGED replies
             /\ \/ Perform(requester, c)
                \/ /\ phase' = [phase EXCEPT ![c] = "done"]
                   /\ UNCHANGED <<managerVars, sent>>
  BY DEF RequestData
<1>2. /\ phase[c] = "idle" /\ owner' = [owner EXCEPT ![c] = requester]
      /\ UNCHANGED <<sharedVars, request, left, outcome, cache, controls>>
  BY DEF RequestData
<1>0. requester \in Managers /\ requester \in Nat \ {0}
  BY OwnerFacts
<1>3. /\ ManagerTypeOK'
      /\ \/ /\ request[c].url = NoUrl
            /\ phase' = [phase EXCEPT ![c] = "dropped"] /\ sent' = sent
         \/ /\ request[c].url # NoUrl
            /\ phase' = [phase EXCEPT ![c] = "gated"] /\ sent' = sent
         \/ /\ request[c].url # NoUrl
            /\ phase' = [phase EXCEPT ![c] = "running"]
            /\ sent' = [sent EXCEPT ![c] = sent[c] + 1]
         \/ phase' = [phase EXCEPT ![c] = "done"] /\ sent' = sent
  <2>1. CASE Perform(requester, c)
    BY <1>0, <2>1, PerformTypes
  <2>2. CASE phase' = [phase EXCEPT ![c] = "done"] /\ UNCHANGED <<managerVars, sent>>
    BY <2>2 DEF ManagerTypeOK, TypeOK, managerVars
  <2> QED
    BY <1>1, <2>1, <2>2
<1>4. replies' \in [Calls -> Seq(Replies)]
  <2>1. data \in Data \cup {NoData}
    BY <1>1, DataTypes
  <2>2. /\ Reply(request[c], "cache", data, NoError) \in Replies
        /\ Reply(request[c], "none", NoData, "cacheRule") \in Replies
    BY <2>1, ReplyTypes DEF Errors
  <2>3. replies[c] \in Seq(Replies)
    BY DEF TypeOK
  <2>4. /\ Append(replies[c], Reply(request[c], "cache", data, NoError)) \in Seq(Replies)
        /\ Append(replies[c], Reply(request[c], "none", NoData, "cacheRule")) \in Seq(Replies)
    BY <2>2, <2>3
  <2> QED
    BY <1>1, <2>4 DEF TypeOK
<1>5. didReturnCache' \in [Calls -> BOOLEAN]
  BY <1>1, Zenon DEF TypeOK, shouldGetFromCache, isSuccessResponse
<1>6. TypeOK'
  <2>1. /\ sent' = sent \/ sent' = [sent EXCEPT ![c] = sent[c] + 1]
        /\ \E p \in Phases : phase' = [phase EXCEPT ![c] = p]
    BY <1>3 DEF Phases
  <2>3. phase \in [Calls -> Phases] /\ sent \in [Calls -> Nat]
    BY DEF TypeOK
  <2>2. phase' \in [Calls -> Phases] /\ sent' \in [Calls -> Nat]
    BY <2>1, <2>3
  <2> QED
    BY <1>0, <1>2, <1>3, <1>4, <1>5, <2>2 DEF TypeOK, ManagerTypeOK, sharedVars
<1>7. CallInv(c)'
  <2>1. owner'[c] = requester /\ requester' = requester
    BY <1>2 DEF TypeOK, sharedVars
  <2> QED
    BY <1>0, <1>2, <1>3, <2>1, RequestFacts DEF TypeOK, CallInv, IsRequest
<1>8. ASSUME NEW d \in Calls \ {c} PROVE CallInv(d)'
  BY <1>2, <1>3, CallFrame DEF TypeOK, sharedVars
<1> QED
  BY <1>6, <1>7, <1>8

\* The gate lets a call out: one attempt becomes one task.
LEMMA DispatchedStep ==
    ASSUME IInv, NEW c \in Calls, Dispatched(c)
    PROVE  IInv'
<1> USE DEF IInv
<1>1. /\ phase[c] = "gated"
      /\ UNCHANGED <<sharedVars, request, owner, left, outcome, didReturnCache, replies,
                     cache, controls>>
  BY DEF Dispatched
<1>2. request[c].url # NoUrl /\ owner[c] \in Managers
  BY <1>1, OwnerFacts DEF CallInv
<1>3. /\ ManagerTypeOK'
      /\ phase' = [phase EXCEPT ![c] = "running"]
      /\ sent' = [sent EXCEPT ![c] = sent[c] + 1]
  BY <1>2, SendTypes DEF Dispatched
<1>4. TypeOK'
  BY <1>1, <1>3 DEF TypeOK, ManagerTypeOK, Phases, sharedVars
<1>5. CallInv(c)'
  <2>1. /\ sent[c] + left[c] = request[c].retryCount
        /\ left' = left /\ request' = request /\ owner' = owner /\ requester' = requester
        /\ owner[c] # 0 /\ owner[c] <= requester
    BY <1>1 DEF CallInv, sharedVars
  <2>2. sent[c] \in Nat /\ left[c] \in Nat /\ request[c].retryCount \in Nat
    BY RequestFacts DEF TypeOK, IsRequest
  <2>3. phase'[c] = "running" /\ sent'[c] = sent[c] + 1
    BY <1>3 DEF TypeOK
  <2> QED
    BY <1>2, <2>1, <2>2, <2>3 DEF CallInv
<1>6. ASSUME NEW d \in Calls \ {c} PROVE CallInv(d)'
  BY <1>1, <1>3, CallFrame DEF TypeOK, sharedVars
<1> QED
  BY <1>4, <1>5, <1>6

\* The session ends a task and leaves everything else alone.
LEMMA SessionAnswersStep ==
    ASSUME IInv, NEW c \in Calls, SessionAnswers(c)
    PROVE  IInv'
<1> USE DEF IInv
<1>1. PICK a \in Results \cup {"cancelled"} : outcome' = [outcome EXCEPT ![c] = a]
  BY DEF SessionAnswers
<1>0. a # NoResult
  BY ConstantAssumption
<1>2. /\ phase[c] = "running" /\ phase' = [phase EXCEPT ![c] = "answered"]
      /\ UNCHANGED <<managerVars, sharedVars, request, owner, left, sent, didReturnCache,
                     replies, cache, controls>>
  BY DEF SessionAnswers
<1>3. TypeOK'
  BY <1>1, <1>2 DEF TypeOK, managerVars, Phases, sharedVars
<1>4. CallInv(c)'
  BY <1>0, <1>1, <1>2 DEF TypeOK, CallInv, sharedVars
<1>5. ASSUME NEW d \in Calls \ {c} PROVE CallInv(d)'
  BY <1>1, <1>2, CallFrame DEF TypeOK, sharedVars
<1> QED
  BY <1>3, <1>4, <1>5

\* removeRequest, and any other store of a typed dictionary, keeps the manager's types.
LEMMA RemoveTypes ==
    ASSUME TypeOK, NEW s \in Slots, removeRequest(s)
    PROVE  ManagerTypeOK'
BY DEF TypeOK, ManagerTypeOK, removeRequest, Store

\* The handler forgets a task.
LEMMA HandlerRemovesStep ==
    ASSUME IInv, NEW c \in Calls, HandlerRemoves(c)
    PROVE  IInv'
<1> USE DEF IInv
<1>1. /\ phase[c] = "answered" /\ phase' = [phase EXCEPT ![c] = "handling"]
      /\ UNCHANGED <<sharedVars, request, owner, left, sent, outcome, didReturnCache,
                     replies, cache, controls>>
  BY DEF HandlerRemoves
<1>2. Slot(owner[c], c) \in Slots
  BY <1>1, OwnerFacts, SlotFacts DEF CallInv
<1>3. ManagerTypeOK'
  BY <1>2, RemoveTypes DEF HandlerRemoves
<1>4. TypeOK'
  BY <1>1, <1>3 DEF TypeOK, ManagerTypeOK, Phases, sharedVars
<1>5. CallInv(c)'
  BY <1>1 DEF TypeOK, CallInv, sharedVars
<1>6. ASSUME NEW d \in Calls \ {c} PROVE CallInv(d)'
  BY <1>1, CallFrame DEF TypeOK, sharedVars
<1> QED
  BY <1>4, <1>5, <1>6

\* The handler keeps an attempt for a retry, or ends the call.
LEMMA HandlerCompletesStep ==
    ASSUME IInv, NEW c \in Calls, HandlerCompletes(c)
    PROVE  IInv'
<1> USE DEF IInv
<1>1. phase[c] = "handling" /\ UNCHANGED <<managerVars, sharedVars, request, owner, left,
                                           sent, outcome, didReturnCache, controls>>
  BY DEF HandlerCompletes
<1>2. \/ /\ shouldRetry(c) /\ phase' = [phase EXCEPT ![c] = "waitRetry"]
         /\ UNCHANGED <<cache, replies>>
      \/ /\ ~shouldRetry(c) /\ phase' = [phase EXCEPT ![c] = "done"]
         /\ saveToCache(request[c], DataOf(c))
         /\ \/ replies' = [replies EXCEPT ![c] =
                             Append(@, Reply(request[c], "url", DataOf(c), ErrorOf(c)))]
            \/ UNCHANGED replies
  BY DEF HandlerCompletes
<1>3. /\ DataOf(c) \in Data \cup {NoData}
      /\ Reply(request[c], "url", DataOf(c), ErrorOf(c)) \in Replies
  BY DataTypes, ReplyTypes
<1>4. cache' \in [Keys -> Data \cup {NoData}]
  BY <1>2, <1>3 DEF TypeOK, saveToCache
<1>5. replies' \in [Calls -> Seq(Replies)]
  <2>1. Append(replies[c], Reply(request[c], "url", DataOf(c), ErrorOf(c))) \in Seq(Replies)
    BY <1>3 DEF TypeOK
  <2> QED
    BY <1>2, <2>1 DEF TypeOK
<1>6. TypeOK'
  BY <1>1, <1>2, <1>4, <1>5 DEF TypeOK, managerVars, Phases, sharedVars
<1>7. CallInv(c)'
  BY <1>1, <1>2 DEF TypeOK, CallInv, shouldRetry, isSuccessResponse, DataOf, sharedVars
<1>8. ASSUME NEW d \in Calls \ {c} PROVE CallInv(d)'
  BY <1>1, <1>2, CallFrame DEF TypeOK, sharedVars
<1> QED
  BY <1>6, <1>7, <1>8

\* A retry spends one attempt.
LEMMA RetryFiresStep ==
    ASSUME IInv, NEW c \in Calls, RetryFires(c)
    PROVE  IInv'
<1> USE DEF IInv
<1>1. /\ phase[c] = "waitRetry" /\ left' = [left EXCEPT ![c] = @ - 1]
      /\ UNCHANGED <<sharedVars, request, owner, outcome, didReturnCache, replies, cache,
                     controls>>
  BY DEF RetryFires
<1>2. request[c].url # NoUrl /\ left[c] > 0 /\ owner[c] \in Managers
  BY <1>1, OwnerFacts DEF CallInv
<1>3. /\ ManagerTypeOK'
      /\ \/ phase' = [phase EXCEPT ![c] = "gated"] /\ sent' = sent
         \/ /\ phase' = [phase EXCEPT ![c] = "running"]
            /\ sent' = [sent EXCEPT ![c] = sent[c] + 1]
  BY <1>2, PerformTypes DEF RetryFires
<1>4. TypeOK'
  <2>1. left' \in [Calls -> Nat]
    BY <1>1, <1>2 DEF TypeOK
  <2>2. /\ sent' = sent \/ sent' = [sent EXCEPT ![c] = sent[c] + 1]
        /\ \E p \in Phases : phase' = [phase EXCEPT ![c] = p]
    BY <1>3 DEF Phases
  <2>4. phase \in [Calls -> Phases] /\ sent \in [Calls -> Nat]
    BY DEF TypeOK
  <2>3. phase' \in [Calls -> Phases] /\ sent' \in [Calls -> Nat]
    BY <2>2, <2>4
  <2> QED
    BY <1>1, <1>3, <2>1, <2>3 DEF TypeOK, ManagerTypeOK, sharedVars
<1>5. CallInv(c)'
  <2>1. /\ sent[c] + left[c] = request[c].retryCount + 1
        /\ left'[c] = left[c] - 1 /\ request'[c] = request[c]
    BY <1>1 DEF TypeOK, CallInv
  <2>2. /\ sent[c] \in Nat /\ sent[c] > 0 /\ left[c] \in Nat /\ request[c].retryCount \in Nat
    BY <1>1, RequestFacts DEF TypeOK, IsRequest, CallInv
  <2>3. \/ phase'[c] = "gated" /\ sent'[c] = sent[c]
        \/ phase'[c] = "running" /\ sent'[c] = sent[c] + 1
    BY <1>3 DEF TypeOK
  <2>4. owner'[c] = owner[c] /\ requester' = requester /\ owner[c] # 0
        /\ owner[c] <= requester
    BY <1>1 DEF CallInv, sharedVars
  <2> QED
    BY <1>2, <2>1, <2>2, <2>3, <2>4 DEF CallInv
<1>6. ASSUME NEW d \in Calls \ {c} PROVE CallInv(d)'
  BY <1>1, <1>3, CallFrame DEF TypeOK, sharedVars
<1> QED
  BY <1>4, <1>5, <1>6

\* cancelAllRequests, clearCache and start touch no call.
LEMMA ControlStep ==
    ASSUME IInv, CancelAllBegins \/ CancelAllEnds \/ clearCache \/ start
    PROVE  IInv'
<1> USE DEF IInv
<1>1. UNCHANGED <<request, callVars>>
  BY DEF CancelAllBegins, CancelAllEnds, clearCache, start
<1>2. ManagerTypeOK'
  <2>1. Tracked(requester) \subseteq Calls \X Nat
    <3>1. \A k \in Keys : <<requester, k>> \in Slots
      BY DEF TypeOK, Slots
    <3>2. \A k \in Keys : requestQueue[<<requester, k>>] \in (Calls \X Nat) \cup {NoTask}
      BY <3>1 DEF TypeOK
    <3> QED
      BY <3>2 DEF Tracked
  <2>2. CASE CancelAllBegins
    BY <2>1, <2>2 DEF CancelAllBegins, cancelValues, TypeOK, ManagerTypeOK
  <2>3. CASE CancelAllEnds
    BY <2>3 DEF CancelAllEnds, removeAll, Store, TypeOK, ManagerTypeOK
  <2>4. CASE clearCache \/ start
    BY <2>4 DEF clearCache, start, managerVars, TypeOK, ManagerTypeOK
  <2> QED
    BY <2>2, <2>3, <2>4
<1>3. cache' \in [Keys -> Data \cup {NoData}]
  BY DEF CancelAllBegins, CancelAllEnds, clearCache, start, TypeOK
<1>4. controls' \in 0..MaxControls
  BY ConstantAssumption DEF CancelAllBegins, CancelAllEnds, clearCache, start, TypeOK
<1>5. /\ requester' \in Managers /\ defaultCacheRule' \in DefaultRules
      /\ requester' = requester \/ requester' = requester + 1
  BY DEF CancelAllBegins, CancelAllEnds, clearCache, start, TypeOK, sharedVars
<1>6. TypeOK'
  BY <1>1, <1>2, <1>3, <1>4, <1>5 DEF TypeOK, ManagerTypeOK, callVars
<1>7. ASSUME NEW d \in Calls PROVE CallInv(d)'
  BY <1>1, <1>5, CallFrame DEF callVars
<1> QED
  BY <1>6, <1>7

\* A step that changes nothing.
LEMMA StutterStep ==
    ASSUME IInv, UNCHANGED vars
    PROVE  IInv'
<1>1. TypeOK'
  BY DEF IInv, TypeOK, vars, managerVars, sharedVars, callVars
<1>2. ASSUME NEW d \in Calls PROVE CallInv(d)'
  BY CallFrame DEF vars, sharedVars, callVars
<1> QED
  BY <1>1, <1>2 DEF IInv

\* Every step keeps the invariant.
LEMMA NextInv == IInv /\ [Next]_vars => IInv'
<1> SUFFICES ASSUME IInv, [Next]_vars PROVE IInv'
  OBVIOUS
<1>1. ASSUME NEW c \in Calls, CallStep(c) PROVE IInv'
  BY <1>1, RequestDataStep, DispatchedStep, SessionAnswersStep, HandlerRemovesStep,
     HandlerCompletesStep, RetryFiresStep DEF CallStep
<1> QED
  BY <1>1, ControlStep, StutterStep DEF Next

\* The invariant holds throughout.
THEOREM Invariance == Spec => []IInv
BY InitInv, NextInv, PTL DEF Spec

\* The variables stay in the ranges the code's types give them: no retry count below
\* zero, no key outside the dictionary, no completion of another shape.
THEOREM TypeCorrect == Spec => []TypeOK
<1>1. IInv => TypeOK
  BY DEF IInv
<1> QED
  BY <1>1, Invariance, PTL

\* performRequestRetrying: at most retryCount + 1 tasks per call, and all of them before
\* an unsuccessful end.
THEOREM RetriesAccounted == Spec => []RetryAccounting
<1>1. IInv => RetryAccounting
  <2> SUFFICES ASSUME IInv, NEW c \in Calls
               PROVE  /\ sent[c] <= request[c].retryCount + 1
                      /\ Fetched(c) /\ ~isSuccessResponse(request[c], DataOf(c))
                            => sent[c] = request[c].retryCount + 1
    BY DEF RetryAccounting
  <2>1. /\ phase[c] \in Phases /\ left[c] \in Nat /\ sent[c] \in Nat
        /\ request[c].retryCount \in Nat /\ CallInv(c)
    BY RequestFacts DEF IInv, TypeOK, IsRequest
  <2> QED
    BY <2>1 DEF CallInv, Fetched, Phases
<1> QED
  BY <1>1, Invariance, PTL
-----------------------------------------------------------------------------
(* What reaches the completion                                             *)

\* No completion has been called yet.
LEMMA InitDataXorError == Init => DataXorError
BY DEF Init, DataXorError

\* The data and the error a handler passes on are one or the other.
LEMMA AnswerXorError ==
    ASSUME IInv, NEW c \in Calls, phase[c] = "handling"
    PROVE  (DataOf(c) # NoData) <=> (ErrorOf(c) = NoError)
<1>1. outcome[c] \in SessionResults \cup {"cancelled"}
  BY ConstantAssumption DEF IInv, TypeOK, CallInv
<1>2. CASE outcome[c] \in Bodies
  <2>1. DataOf(c) \in Data
    BY <1>2 DEF DataOf, Data
  <2>2. ErrorOf(c) = NoError
    BY <1>2 DEF ErrorOf, Bodies
  <2> QED
    BY <2>1, <2>2, ConstantAssumption
<1>3. CASE outcome[c] \notin Bodies
  <2>1. DataOf(c) = NoData
    BY <1>3 DEF DataOf
  <2>2. ErrorOf(c) # NoError
    <3>1. outcome[c] \in {"http401", "timedOut", "offline", "lost", "cancelled"}
      BY <1>1, <1>3 DEF SessionResults
    <3> QED
      BY <3>1, ConstantAssumption DEF ErrorOf
  <2> QED
    BY <2>1, <2>2
<1> QED
  BY <1>2, <1>3

\* requestGeneric keeps it so.
LEMMA ReplyXorError ==
    ASSUME NEW r, NEW from, NEW data, NEW error,
           (data # NoData) <=> (error = NoError)
    PROVE  LET reply == Reply(r, from, data, error)
           IN  (reply.data # NoData) <=> (reply.error = NoError)
BY ConstantAssumption DEF Reply

\* A sequence of replies all of which pass keeps passing when one more is appended.
LEMMA AppendXorError ==
    ASSUME NEW s \in Seq(Replies), NEW reply \in Replies,
           \A i \in DOMAIN s : (s[i].data # NoData) <=> (s[i].error = NoError),
           (reply.data # NoData) <=> (reply.error = NoError)
    PROVE  \A i \in DOMAIN Append(s, reply) :
              (Append(s, reply)[i].data # NoData) <=> (Append(s, reply)[i].error = NoError)
<1> TAKE i \in DOMAIN Append(s, reply)
<1>1. /\ i \in 1..(Len(s) + 1)
      /\ i <= Len(s) => Append(s, reply)[i] = s[i] /\ i \in DOMAIN s
      /\ i = Len(s) + 1 => Append(s, reply)[i] = reply
  OBVIOUS
<1> QED
  BY <1>1

\* The only steps that call a completion are a call's RequestData and HandlerCompletes;
\* each appends at most one reply, and only to that call.
LEMMA RepliesGrow ==
    ASSUME IInv, [Next]_vars
    PROVE  \/ UNCHANGED replies
           \/ \E c \in Calls : /\ RequestData(c)
                               /\ \E data \in CachedData(request[c]) :
                                     /\ isSuccessResponse(request[c], data)
                                     /\ replies' = [replies EXCEPT ![c] = Append(@,
                                           Reply(request[c], "cache", data, NoError))]
           \/ \E c \in Calls : /\ RequestData(c)
                               /\ replies' = [replies EXCEPT ![c] = Append(@,
                                     Reply(request[c], "none", NoData, "cacheRule"))]
           \/ \E c \in Calls : /\ HandlerCompletes(c)
                               /\ replies' = [replies EXCEPT ![c] = Append(@,
                                     Reply(request[c], "url", DataOf(c), ErrorOf(c)))]
<1>1. ASSUME NEW c \in Calls, RequestData(c) PROVE
         \/ UNCHANGED replies
         \/ \E data \in CachedData(request[c]) :
               /\ isSuccessResponse(request[c], data)
               /\ replies' = [replies EXCEPT ![c] =
                                Append(@, Reply(request[c], "cache", data, NoError))]
         \/ replies' = [replies EXCEPT ![c] =
                          Append(@, Reply(request[c], "none", NoData, "cacheRule"))]
  BY <1>1 DEF RequestData
<1>2. ASSUME NEW c \in Calls, HandlerCompletes(c) PROVE
         \/ UNCHANGED replies
         \/ replies' = [replies EXCEPT ![c] =
                          Append(@, Reply(request[c], "url", DataOf(c), ErrorOf(c)))]
  BY <1>2 DEF HandlerCompletes
<1>3. ASSUME NEW c \in Calls, \/ Dispatched(c) \/ SessionAnswers(c)
                              \/ HandlerRemoves(c) \/ RetryFires(c)
      PROVE  UNCHANGED replies
  BY <1>3 DEF Dispatched, SessionAnswers, HandlerRemoves, RetryFires
<1>4. CancelAllBegins \/ CancelAllEnds \/ clearCache \/ start \/ UNCHANGED vars
         => UNCHANGED replies
  BY DEF CancelAllBegins, CancelAllEnds, clearCache, start, vars, callVars
<1> QED
  BY <1>1, <1>2, <1>3, <1>4 DEF Next, CallStep

\* Every completion a step calls carries data or an error, as the ones before did.
LEMMA DataXorErrorStep == IInv /\ DataXorError /\ [Next]_vars => DataXorError'
<1> SUFFICES ASSUME IInv, DataXorError, [Next]_vars PROVE DataXorError'
  OBVIOUS
<1> USE DEF IInv
<1>1. ASSUME NEW c \in Calls, NEW reply \in Replies,
             (reply.data # NoData) <=> (reply.error = NoError),
             replies' = [replies EXCEPT ![c] = Append(@, reply)]
      PROVE  DataXorError'
  <2>1. /\ replies'[c] = Append(replies[c], reply)
        /\ \A d \in Calls \ {c} : replies'[d] = replies[d]
        /\ replies[c] \in Seq(Replies)
    BY <1>1 DEF TypeOK
  <2>2. \A i \in DOMAIN Append(replies[c], reply) :
           (Append(replies[c], reply)[i].data # NoData)
              <=> (Append(replies[c], reply)[i].error = NoError)
    BY <1>1, <2>1, AppendXorError DEF DataXorError
  <2>3. ASSUME NEW d \in Calls, NEW i \in DOMAIN replies'[d]
        PROVE  (replies'[d][i].data # NoData) <=> (replies'[d][i].error = NoError)
    <3>1. CASE d = c
      BY <2>1, <2>2, <2>3, <3>1
    <3>2. CASE d # c
      BY <2>1, <2>3, <3>2 DEF DataXorError
    <3> QED
      BY <3>1, <3>2
  <2> QED
    BY <2>3 DEF DataXorError
<1>2. ASSUME NEW c \in Calls, NEW data \in CachedData(request[c]),
             isSuccessResponse(request[c], data),
             replies' = [replies EXCEPT ![c] =
                           Append(@, Reply(request[c], "cache", data, NoError))]
      PROVE  DataXorError'
  <2>1. data \in Data \cup {NoData} /\ data # NoData /\ NoError \in Errors
    BY <1>2, DataTypes DEF isSuccessResponse, Errors
  <2> DEFINE reply == Reply(request[c], "cache", data, NoError)
  <2>2. reply \in Replies
    BY <2>1, ReplyTypes
  <2>3. (reply.data # NoData) <=> (reply.error = NoError)
    BY <2>1, ReplyXorError
  <2> QED
    BY <1>1, <1>2, <2>2, <2>3
<1>3. ASSUME NEW c \in Calls,
             replies' = [replies EXCEPT ![c] =
                           Append(@, Reply(request[c], "none", NoData, "cacheRule"))]
      PROVE  DataXorError'
  <2>1. NoError # "cacheRule" /\ "cacheRule" \in Errors
    BY ConstantAssumption DEF Errors
  <2> DEFINE reply == Reply(request[c], "none", NoData, "cacheRule")
  <2>2. reply \in Replies
    BY <2>1, ReplyTypes
  <2>3. (reply.data # NoData) <=> (reply.error = NoError)
    BY <2>1, ReplyXorError
  <2> QED
    BY <1>1, <1>3, <2>2, <2>3
<1>4. ASSUME NEW c \in Calls, HandlerCompletes(c),
             replies' = [replies EXCEPT ![c] =
                           Append(@, Reply(request[c], "url", DataOf(c), ErrorOf(c)))]
      PROVE  DataXorError'
  <2>1. (DataOf(c) # NoData) <=> (ErrorOf(c) = NoError)
    BY <1>4, AnswerXorError DEF HandlerCompletes
  <2>2. DataOf(c) \in Data \cup {NoData} /\ ErrorOf(c) \in Errors
    BY DataTypes
  <2> DEFINE reply == Reply(request[c], "url", DataOf(c), ErrorOf(c))
  <2>3. reply \in Replies
    BY <2>1, <2>2, ReplyTypes
  <2>4. (reply.data # NoData) <=> (reply.error = NoError)
    BY <2>1, <2>2, ReplyXorError
  <2> QED
    BY <1>1, <1>4, <2>3, <2>4
<1>5. UNCHANGED replies => DataXorError'
  BY DEF DataXorError
<1> QED
  BY <1>2, <1>3, <1>4, <1>5, RepliesGrow

\* Every completion carries data or an error, never both and never neither.
THEOREM CompletionsAnswer == Spec => []DataXorError
BY Invariance, InitDataXorError, DataXorErrorStep, PTL DEF Spec
-----------------------------------------------------------------------------
(* The cache: what it holds, and what callers are served from it, comes    *)
(* from a finished fetch filed under the same key, for any interleaving of *)
(* calls, retries and clears, and whether or not Realm's faults are        *)
(* swallowed                                                               *)

CachedReplyOk(c, reply) ==
    (reply.from = "cache" /\ reply.data # NoData)
       => /\ FetchedUnder(FileKey(request[c]), reply.data)
          /\ isSuccessResponse(request[c], reply.data)

\* A finished call stays as it ended.
LEMMA DoneStable ==
    ASSUME IInv, [Next]_vars, NEW d \in Calls, phase[d] = "done"
    PROVE  /\ phase'[d] = "done" /\ sent'[d] = sent[d] /\ outcome'[d] = outcome[d]
           /\ request' = request
<1> USE DEF IInv
<1>1. ASSUME NEW c \in Calls, RequestData(c)
      PROVE  /\ phase'[d] = phase[d] /\ sent'[d] = sent[d]
             /\ outcome' = outcome /\ request' = request
  <2>1. /\ phase[c] = "idle" /\ outcome' = outcome /\ request' = request
        /\ \/ Perform(requester, c)
           \/ phase' = [phase EXCEPT ![c] = "done"] /\ UNCHANGED <<managerVars, sent>>
    BY <1>1 DEF RequestData
  <2>2. CASE Perform(requester, c)
    BY <2>1, <2>2, OwnerFacts, PerformTypes DEF TypeOK
  <2> QED
    BY <2>1, <2>2 DEF TypeOK
<1>2. ASSUME NEW c \in Calls, RetryFires(c)
      PROVE  /\ phase'[d] = phase[d] /\ sent'[d] = sent[d]
             /\ outcome' = outcome /\ request' = request
  <2>1. owner[c] \in Managers
    BY <1>2, OwnerFacts DEF RetryFires
  <2> QED
    BY <1>2, <2>1, PerformTypes DEF RetryFires, TypeOK
<1>3. ASSUME NEW c \in Calls, Dispatched(c)
      PROVE  /\ phase'[d] = phase[d] /\ sent'[d] = sent[d]
             /\ outcome' = outcome /\ request' = request
  BY <1>3 DEF Dispatched, Send, TypeOK
<1>4. ASSUME NEW c \in Calls, SessionAnswers(c) \/ HandlerRemoves(c) \/ HandlerCompletes(c)
      PROVE  /\ phase'[d] = phase[d] /\ sent'[d] = sent[d]
             /\ outcome'[d] = outcome[d] /\ request' = request
  BY <1>4 DEF SessionAnswers, HandlerRemoves, HandlerCompletes, TypeOK
<1>5. ASSUME CancelAllBegins \/ CancelAllEnds \/ clearCache \/ start \/ UNCHANGED vars
      PROVE  UNCHANGED <<phase, sent, outcome, request>>
  BY <1>5 DEF CancelAllBegins, CancelAllEnds, clearCache, start, vars, callVars
<1> QED
  BY <1>1, <1>2, <1>3, <1>4, <1>5 DEF Next, CallStep

\* What was fetched under a key stays so: a done call keeps its answer.
LEMMA FetchedUnderStable ==
    ASSUME IInv, [Next]_vars, NEW key, NEW data \in Data, FetchedUnder(key, data)
    PROVE  FetchedUnder(key, data)'
<1>1. data.by \in Calls
  BY DEF Data
<1>2. phase[data.by] = "done"
  BY DEF FetchedUnder, Fetched
<1> QED
  BY <1>1, <1>2, DoneStable DEF FetchedUnder, Fetched, DataOf

\* The cache changes by clearing, or by a handler that files its last answer.
LEMMA CacheChanges ==
    ASSUME IInv, [Next]_vars, NEW k \in Keys
    PROVE  \/ cache'[k] \in {cache[k], NoData}
           \/ \E c \in Calls : /\ phase[c] = "handling" /\ phase'[c] = "done"
                               /\ sent' = sent /\ outcome' = outcome /\ request' = request
                               /\ k = FileKey(request[c]) /\ cache'[k] = DataOf(c)
<1> USE DEF IInv
<1>1. ASSUME NEW c \in Calls, HandlerCompletes(c), cache'[k] # cache[k]
      PROVE  /\ phase[c] = "handling" /\ phase'[c] = "done"
             /\ sent' = sent /\ outcome' = outcome /\ request' = request
             /\ k = FileKey(request[c]) /\ cache'[k] = DataOf(c)
  <2>1. /\ phase[c] = "handling" /\ phase' = [phase EXCEPT ![c] = "done"]
        /\ UNCHANGED <<sent, outcome, request>>
        /\ cache' = [cache EXCEPT ![FileKey(request[c])] = DataOf(c)]
    BY <1>1 DEF HandlerCompletes, saveToCache
  <2> QED
    BY <1>1, <2>1 DEF TypeOK
<1>2. ASSUME NEW c \in Calls, \/ RequestData(c) \/ Dispatched(c) \/ SessionAnswers(c)
                              \/ HandlerRemoves(c) \/ RetryFires(c)
      PROVE  cache' = cache
  BY <1>2 DEF RequestData, Dispatched, SessionAnswers, HandlerRemoves, RetryFires
<1>3. ASSUME clearCache PROVE cache'[k] \in {cache[k], NoData}
  BY <1>3 DEF clearCache
<1>4. CancelAllBegins \/ CancelAllEnds \/ start \/ UNCHANGED vars => cache' = cache
  BY DEF CancelAllBegins, CancelAllEnds, start, vars
<1> QED
  BY <1>1, <1>2, <1>3, <1>4 DEF Next, CallStep

\* The cache is empty at first.
LEMMA InitCache == Init => CacheProvenance
BY DEF Init, CacheProvenance

\* Every step keeps what the cache and the replies have come from.
LEMMA NextCache == IInv /\ CacheProvenance /\ [Next]_vars => CacheProvenance'
<1> SUFFICES ASSUME IInv, CacheProvenance, [Next]_vars PROVE CacheProvenance'
  OBVIOUS
<1> USE DEF IInv
<1>1. ASSUME NEW k \in Keys, cache'[k] # NoData
      PROVE  FetchedUnder(k, cache[k])'
  <2>1. CASE cache'[k] \in {cache[k], NoData}
    <3>1. PICK data \in Data : data = cache[k] /\ data = cache'[k]
      BY <1>1, <2>1 DEF TypeOK
    <3>2. FetchedUnder(k, data)
      BY <1>1, <3>1 DEF CacheProvenance
    <3>3. FetchedUnder(k, data)'
      BY <3>2, FetchedUnderStable
    <3> QED
      BY <3>1, <3>3
  <2>2. ASSUME NEW c \in Calls, phase[c] = "handling", phase'[c] = "done",
               sent' = sent, outcome' = outcome, request' = request,
               k = FileKey(request[c]), cache'[k] = DataOf(c)
        PROVE  FetchedUnder(k, cache[k])'
    <3>1. DataOf(c).by = c /\ DataOf(c)' = DataOf(c)
      BY <1>1, <2>2 DEF DataOf
    <3>2. sent[c] > 0
      BY <2>2 DEF CallInv
    <3> QED
      BY <2>2, <3>1, <3>2 DEF FetchedUnder, Fetched
  <2> QED
    BY <2>1, <2>2, CacheChanges
<1>2. ASSUME NEW c \in Calls, NEW i \in DOMAIN replies[c]
      PROVE  CachedReplyOk(c, replies[c][i])
  BY <1>2 DEF CacheProvenance, CachedReplyOk
<1>3. request' = request
  BY DEF Next, CallStep, RequestData, Dispatched, SessionAnswers, HandlerRemoves,
         HandlerCompletes, RetryFires, CancelAllBegins, CancelAllEnds, clearCache,
         start, vars
<1>4. ASSUME NEW c \in Calls, NEW reply \in Replies, CachedReplyOk(c, reply)
      PROVE  CachedReplyOk(c, reply)'
  BY <1>3, <1>4, FetchedUnderStable DEF CachedReplyOk, Replies, isSuccessResponse
<1>5. ASSUME NEW c \in Calls, NEW reply \in Replies, CachedReplyOk(c, reply),
             replies' = [replies EXCEPT ![c] = Append(@, reply)]
      PROVE  \A d \in Calls : \A i \in DOMAIN replies'[d] : CachedReplyOk(d, replies[d][i])'
  <2> TAKE d \in Calls
  <2> TAKE i \in DOMAIN replies'[d]
  <2>1. replies[d] \in Seq(Replies)
    BY DEF TypeOK
  <2>2. PICK r \in Replies : r = replies'[d][i] /\ CachedReplyOk(d, r)
    <3>1. CASE d # c
      <4>1. replies'[d] = replies[d]
        BY <1>5, <3>1 DEF TypeOK
      <4> QED
        BY <1>2, <2>1, <4>1
    <3>2. CASE d = c
      <4>1. replies'[c] = Append(replies[c], reply)
        BY <1>5 DEF TypeOK
      <4>2. \/ i \in DOMAIN replies[c] /\ replies'[c][i] = replies[c][i]
            \/ replies'[c][i] = reply
        BY <2>1, <3>2, <4>1
      <4> QED
        BY <1>2, <1>5, <2>1, <3>2, <4>2
    <3> QED
      BY <3>1, <3>2
  <2>3. CachedReplyOk(d, r)'
    BY <1>4, <2>2
  <2> QED
    BY <2>2, <2>3
<1>6. ASSUME NEW c \in Calls, NEW data \in CachedData(request[c]),
             isSuccessResponse(request[c], data)
      PROVE  CachedReplyOk(c, Reply(request[c], "cache", data, NoError))
  <2>1. data # NoData
    BY <1>6 DEF isSuccessResponse
  <2>2. FileKey(request[c]) # NoKey /\ data = cache[FileKey(request[c])]
    BY <1>6, <2>1 DEF CachedData
  <2>3. FileKey(request[c]) \in Keys
    BY <2>2, RequestFacts DEF FileKey, IsRequest, IsUrl, urlCacheKey
  <2>4. FetchedUnder(FileKey(request[c]), data)
    BY <2>1, <2>2, <2>3 DEF CacheProvenance
  <2> QED
    BY <1>6, <2>4 DEF CachedReplyOk, Reply
<1>7. \A d \in Calls : \A i \in DOMAIN replies'[d] : CachedReplyOk(d, replies[d][i])'
  <2>1. CASE UNCHANGED replies
    <3> TAKE d \in Calls
    <3> TAKE i \in DOMAIN replies'[d]
    <3>1. PICK r \in Replies : r = replies'[d][i] /\ CachedReplyOk(d, r)
      BY <1>2, <2>1 DEF TypeOK
    <3> QED
      BY <1>4, <3>1
  <2>2. ASSUME NEW c \in Calls, NEW data \in CachedData(request[c]),
               isSuccessResponse(request[c], data),
               replies' = [replies EXCEPT ![c] =
                             Append(@, Reply(request[c], "cache", data, NoError))]
        PROVE  \A d \in Calls : \A i \in DOMAIN replies'[d] : CachedReplyOk(d, replies[d][i])'
    <3>1. Reply(request[c], "cache", data, NoError) \in Replies
      <4>1. data \in Data \cup {NoData} /\ NoError \in Errors
        BY <2>2, DataTypes DEF Errors
      <4> QED
        BY <4>1, ReplyTypes
    <3> QED
      BY <1>5, <1>6, <2>2, <3>1
  <2>3. ASSUME NEW c \in Calls,
               replies' = [replies EXCEPT ![c] =
                             Append(@, Reply(request[c], "none", NoData, "cacheRule"))]
        PROVE  \A d \in Calls : \A i \in DOMAIN replies'[d] : CachedReplyOk(d, replies[d][i])'
    <3>1. Reply(request[c], "none", NoData, "cacheRule") \in Replies
      BY ReplyTypes DEF Errors
    <3>2. CachedReplyOk(c, Reply(request[c], "none", NoData, "cacheRule"))
      BY DEF CachedReplyOk, Reply
    <3> QED
      BY <1>5, <2>3, <3>1, <3>2
  <2>4. ASSUME NEW c \in Calls,
               replies' = [replies EXCEPT ![c] =
                             Append(@, Reply(request[c], "url", DataOf(c), ErrorOf(c)))]
        PROVE  \A d \in Calls : \A i \in DOMAIN replies'[d] : CachedReplyOk(d, replies[d][i])'
    <3>1. Reply(request[c], "url", DataOf(c), ErrorOf(c)) \in Replies
      BY DataTypes, ReplyTypes
    <3>2. CachedReplyOk(c, Reply(request[c], "url", DataOf(c), ErrorOf(c)))
      BY DEF CachedReplyOk, Reply
    <3> QED
      BY <1>5, <2>4, <3>1, <3>2
  <2> QED
    BY <2>1, <2>2, <2>3, <2>4, RepliesGrow
<1> QED
  BY <1>1, <1>7 DEF CacheProvenance, CachedReplyOk

\* The cache and what is served from it is the last answer of a finished fetch that was
\* filed under the same key, and is served only to requests that accept it.
THEOREM ServedWhatWasFetched == Spec => []CacheProvenance
BY Invariance, InitCache, NextCache, PTL DEF Spec

\* What has been replaced in the cache or cleared from it never comes back: only a fetch
\* that ends files anything, and what it files is its own.
THEOREM NothingReturns == Spec => NothingComesBack
<1>1. IInv /\ [Next]_vars
         => [\A k \in Keys, d \in Data : Fetched(d.by) /\ cache[k] # d => cache'[k] # d]_vars
  <2> SUFFICES ASSUME IInv, [Next]_vars, NEW k \in Keys, NEW d \in Data,
                      Fetched(d.by), cache[k] # d, cache'[k] = d
               PROVE  FALSE
    OBVIOUS
  <2>1. d # NoData
    BY ConstantAssumption
  <2>2. PICK c \in Calls : phase[c] = "handling" /\ cache'[k] = DataOf(c)
    BY <2>1, CacheChanges
  <2>3. d.by = c
    BY <2>1, <2>2 DEF DataOf
  <2> QED
    BY <2>2, <2>3 DEF Fetched
<1> QED
  BY <1>1, Invariance, PTL DEF Spec, NothingComesBack
=============================================================================
