---------------------------- MODULE AwesomeNetwork ---------------------------
(***************************************************************************)
(* The life of a request: AwesomeNetwork.requestData and requestGeneric,   *)
(* dataFromCache, AwesomeRequester with its retries, AwesomeRequestManager,*)
(* the cache, and the application's cancelAllRequests, clearCache and a    *)
(* further start(), which replaces the requester and the defaults.         *)
(*                                                                         *)
(* Threads.  The caller's thread runs RequestData up to the gate or to     *)
(* resume; request.queue runs Dispatched and RetryFires; the session's     *)
(* serial delegate queue runs the completion handler, which hops to the    *)
(* main queue (HandlerRemoves) before it goes on (HandlerCompletes).       *)
(***************************************************************************)
EXTENDS Integers, Sequences, CacheRule, RequestManager

CONSTANTS Calls,         \* the calls the application makes to requestData
          Requests,      \* the requests it may pass, see Request below
          NoUrl, NoKey, NoData, NoResult, NoError,   \* nil, by type
          UseSemaphore,  \* start(useSemaphore:), the same in every call
          DefaultRules,  \* start(defaultCacheRule:): what it may be given
          Results,       \* what the session may answer, a subset of SessionResults
          StorageFaults, \* TRUE when Realm may fail, which try? hides
          MaxControls    \* bound: calls to cancelAllRequests, clearCache and start

\* What an uncancelled data task can end with: a body, a 401, or an error.
Bodies         == {"good", "bad"}
SessionResults == Bodies \cup {"http401", "timedOut", "offline", "lost"}

\* A stored or delivered body: what it is, and the call that fetched it.
Data == [by : Calls, body : Bodies]

\* endpoint stands for path, method and body; rest for scheme, host, query and headers.
IsUrl(u) == u.endpoint \in Keys /\ DOMAIN u = {"endpoint", "rest"}

IsRequest(r) ==
    /\ r.url = NoUrl \/ IsUrl(r.url)     \* NoUrl: urlRequest is nil
    /\ r.cacheKey \in Keys \cup {NoKey}
    /\ r.rule \in CacheRules \cup {"default"}   \* "default": cacheRule is not overridden
    /\ r.retryCount \in Nat
    /\ r.cancelPrevious \in BOOLEAN
    /\ r.accepts \subseteq Bodies        \* the bodies isSuccessResponse accepts
    /\ r.generic \in BOOLEAN             \* made through requestGeneric

ASSUME RequestAssumption == \A r \in Requests : IsRequest(r)

\* The n-th call to start makes requester n and its manager; start has been called once.
ASSUME ManagerAssumption == Managers \subseteq Nat \ {0} /\ 1 \in Managers

ASSUME ConstantAssumption ==
    /\ UseSemaphore \in BOOLEAN /\ StorageFaults \in BOOLEAN /\ Confined \in BOOLEAN
    /\ Results \subseteq SessionResults
    /\ DefaultRules \subseteq CacheRules
    /\ MaxControls \in Nat
    /\ NoTask \notin Calls \X Nat
    /\ NoData \notin Data
    /\ NoResult \notin SessionResults \cup {"cancelled"}
    /\ NoKey \notin Keys
    /\ NoError \notin {"timeOut", "noConnection", "cancelled", "unknown", "unauthorized",
                       "cacheRule", "parse"}

VARIABLES requester,     \* shared.requester, by the number of the start() that made it
          defaultCacheRule,
          request,       \* request[c]: the request c is made with
          owner,         \* owner[c]: shared.requester when c was asked, 0 before
          phase,         \* phase[c]: where c is, see Phases
          left,          \* left[c]: the retryCount argument of the pending attempt
          sent,          \* sent[c]: data tasks created for c so far
          outcome,       \* outcome[c]: what c's last task ended with
          didReturnCache,\* didReturnCache[c]: the completion was called with cached data
          replies,       \* replies[c]: the calls of c's completion, in order
          cache,         \* cache[k]: the body Realm keeps under k
          controls       \* calls to cancelAllRequests, clearCache and start so far

sharedVars == <<requester, defaultCacheRule>>
callVars == <<owner, phase, left, sent, outcome, didReturnCache, replies>>
vars == <<managerVars, sharedVars, request, callVars, cache, controls>>

\* gated: in the dispatcher; running: resumed; answered: its handler waits for the
\* main queue; handling: in the handler; dropped: no urlRequest, nothing will follow.
Phases == {"idle", "gated", "running", "answered", "handling", "waitRetry",
           "done", "dropped"}
-----------------------------------------------------------------------------
Task(c) == <<c, sent[c]>>
urlCacheKey(url) == url.endpoint

\* Mutant: every request is tracked by the first requester's manager.
FirstSlot(self, c) == <<1, urlCacheKey(request[c].url)>>

\* Where requester self tracks c's task.
Slot(self, c) == <<self, urlCacheKey(request[c].url)>>

\* cacheRule, which a request that does not override it looks up each time it is asked.
RuleOf(c) == IF request[c].rule = "default" THEN defaultCacheRule ELSE request[c].rule

\* The key a response is filed under in the cache, NoKey when there is none.
FileKey(r) == CASE r.cacheKey # NoKey -> r.cacheKey
                [] r.cacheKey = NoKey /\ r.url # NoUrl -> urlCacheKey(r.url)
                [] OTHER -> NoKey

\* What cachedData may return: a read that Realm fails is a miss.
CachedData(r) ==
    (IF FileKey(r) = NoKey THEN {NoData} ELSE {cache[FileKey(r)]})
        \cup (IF StorageFaults THEN {NoData} ELSE {})

\* Mutant: the response is saved under its URL although it has a cacheKey.
SaveUnderUrl(r, data) ==
    \/ /\ data # NoData
       /\ cache' = [cache EXCEPT ![urlCacheKey(r.url)] = data]
    \/ /\ data = NoData \/ StorageFaults
       /\ UNCHANGED cache

saveToCache(r, data) ==
    \/ /\ data # NoData
       /\ cache' = [cache EXCEPT ![FileKey(r)] = data]
    \/ /\ data = NoData \/ StorageFaults
       /\ UNCHANGED cache

isSuccessResponse(r, data) == data # NoData /\ data.body \in r.accepts

\* Mutant: an update that failed falls back on what the cache had served.
DataOrServed(c) ==
    CASE outcome[c] \in Bodies -> [by |-> c, body |-> outcome[c]]
      [] outcome[c] \notin Bodies /\ didReturnCache[c] -> replies[c][1].data
      [] OTHER -> NoData

\* The session's answer as the handler passes it on: data, or an AwesomeError.
DataOf(c) == IF outcome[c] \in Bodies THEN [by |-> c, body |-> outcome[c]] ELSE NoData

ErrorOf(c) == CASE outcome[c] = "timedOut"  -> "timeOut"
                [] outcome[c] = "offline"   -> "noConnection"
                [] outcome[c] = "cancelled" -> "cancelled"
                [] outcome[c] = "lost"      -> "unknown"
                [] outcome[c] = "http401"   -> "unauthorized"
                [] OTHER                    -> NoError

\* performRequestRetrying: an unsuccessful answer with attempts left, whatever the error.
\* Mutant: one attempt too many.
RetryPastZero(c) == ~isSuccessResponse(request[c], DataOf(c)) /\ left[c] >= 0
shouldRetry(c) == ~isSuccessResponse(request[c], DataOf(c)) /\ left[c] > 0

\* Mutant: the data is passed on along with the parse error.
ReplyKeepsData(r, from, data, error) ==
    [from |-> from, data |-> data,
     error |-> IF r.generic /\ data # NoData /\ data.body # "good" THEN "parse" ELSE error]

\* One call of the completion; requestGeneric decodes the data first.
Reply(r, from, data, error) ==
    LET parsed == IF r.generic /\ data # NoData /\ data.body # "good"
                  THEN [data |-> NoData, error |-> "parse"]
                  ELSE [data |-> data, error |-> error]
    IN  [from |-> from, data |-> parsed.data, error |-> parsed.error]

Errors == {"timeOut", "noConnection", "cancelled", "unknown", "unauthorized",
           "cacheRule", "parse", NoError}
Replies == [from : {"cache", "url", "none"}, data : Data \cup {NoData}, error : Errors]
-----------------------------------------------------------------------------
\* performRequest(urlRequest): creates a data task, tracks it, resumes it.
Send(self, c) ==
    /\ addRequest(<<c, sent[c] + 1>>, Slot(self, c), request[c].cancelPrevious)
    /\ sent' = [sent EXCEPT ![c] = @ + 1]
    /\ phase' = [phase EXCEPT ![c] = "running"]

\* performRequest(request): nothing at all without a URL; else to the gate or out.
Perform(self, c) ==
    \/ /\ request[c].url = NoUrl
       /\ phase' = [phase EXCEPT ![c] = "dropped"]
       /\ UNCHANGED <<managerVars, sent>>
    \/ /\ request[c].url # NoUrl /\ UseSemaphore
       /\ phase' = [phase EXCEPT ![c] = "gated"]
       /\ UNCHANGED <<managerVars, sent>>
    \/ /\ request[c].url # NoUrl /\ ~UseSemaphore
       /\ Send(self, c)

\* requestData: dataFromCache, then the fetch if the rule asks for it.
RequestData(c) ==
    /\ phase[c] = "idle" /\ MainFree
    /\ owner' = [owner EXCEPT ![c] = requester]
    /\ \E data \in CachedData(request[c]) :
          LET r == request[c]
              rule == RuleOf(c)
              hit == shouldGetFromCache(rule) /\ isSuccessResponse(r, data)
          IN  /\ didReturnCache' = [didReturnCache EXCEPT ![c] = hit]
              /\ \/ /\ hit
                    /\ replies' = [replies EXCEPT ![c] =
                                     Append(@, Reply(r, "cache", data, NoError))]
                 \/ /\ ~hit /\ ~shouldGetFromUrl(rule, hit)
                    /\ replies' = [replies EXCEPT ![c] =
                                     Append(@, Reply(r, "none", NoData, "cacheRule"))]
                 \/ /\ ~hit /\ shouldGetFromUrl(rule, hit)
                    /\ UNCHANGED replies
              /\ \/ /\ shouldGetFromUrl(rule, hit)
                    /\ Perform(requester, c)
                 \/ /\ ~shouldGetFromUrl(rule, hit)
                    /\ phase' = [phase EXCEPT ![c] = "done"]
                    /\ UNCHANGED <<managerVars, sent>>
    /\ UNCHANGED <<sharedVars, request, left, outcome, cache, controls>>

\* The dispatcher runs the block it was given (see Dispatcher).
Dispatched(c) ==
    /\ phase[c] = "gated" /\ MainFree
    /\ Send(owner[c], c)
    /\ UNCHANGED <<sharedVars, request, owner, left, outcome, didReturnCache, replies, cache, controls>>

\* The session ends the task; a cancelled task ends as cancelled.
SessionAnswers(c) ==
    /\ phase[c] = "running"
    /\ \E a \in IF Task(c) \in cancelled THEN {"cancelled"} ELSE Results :
          outcome' = [outcome EXCEPT ![c] = a]
    /\ phase' = [phase EXCEPT ![c] = "answered"]
    /\ UNCHANGED <<managerVars, sharedVars, request, owner, left, sent, didReturnCache,
                   replies, cache, controls>>

\* The handler's first statement, on the main queue.  Handlers run one at a time.
HandlerRemoves(c) ==
    /\ phase[c] = "answered" /\ MainFree
    /\ \A d \in Calls : phase[d] # "handling"
    /\ removeRequest(Slot(owner[c], c))
    /\ phase' = [phase EXCEPT ![c] = "handling"]
    /\ UNCHANGED <<sharedVars, request, owner, left, sent, outcome, didReturnCache, replies,
                   cache, controls>>

\* The rest of the handler: retry later, or save and, if the rule says so by now, reply.
HandlerCompletes(c) ==
    /\ phase[c] = "handling"
    /\ LET r == request[c] IN
       \/ /\ shouldRetry(c)
          /\ phase' = [phase EXCEPT ![c] = "waitRetry"]
          /\ UNCHANGED <<cache, replies>>
       \/ /\ ~shouldRetry(c)
          /\ saveToCache(r, DataOf(c))
          /\ \/ /\ shouldReturnUrlData(RuleOf(c), didReturnCache[c])
                /\ replies' = [replies EXCEPT ![c] =
                                 Append(@, Reply(r, "url", DataOf(c), ErrorOf(c)))]
             \/ /\ ~shouldReturnUrlData(RuleOf(c), didReturnCache[c])
                /\ UNCHANGED replies
          /\ phase' = [phase EXCEPT ![c] = "done"]
    /\ UNCHANGED <<managerVars, sharedVars, request, owner, left, sent, outcome,
                   didReturnCache, controls>>

\* retryTimeout later, on request.queue.
RetryFires(c) ==
    /\ phase[c] = "waitRetry" /\ MainFree
    /\ left' = [left EXCEPT ![c] = @ - 1]
    /\ Perform(owner[c], c)
    /\ UNCHANGED <<sharedVars, request, owner, outcome, didReturnCache, replies, cache, controls>>
-----------------------------------------------------------------------------
CancelAllBegins ==
    /\ controls < MaxControls
    /\ controls' = controls + 1
    /\ cancelValues(requester)
    /\ UNCHANGED <<sharedVars, request, callVars, cache>>

CancelAllEnds ==
    /\ \E manager \in sweeping : removeAll(manager)
    /\ UNCHANGED <<sharedVars, request, callVars, cache, controls>>

clearCache ==
    /\ controls < MaxControls /\ MainFree
    /\ controls' = controls + 1
    /\ \/ cache' = [k \in Keys |-> NoData]
       \/ StorageFaults /\ UNCHANGED cache
    /\ UNCHANGED <<managerVars, sharedVars, request, callVars>>

\* start, once more: new defaults, and a requester with an empty manager of its own.
start ==
    /\ controls < MaxControls /\ MainFree
    /\ controls' = controls + 1
    /\ requester + 1 \in Managers /\ requester' = requester + 1
    /\ defaultCacheRule' \in DefaultRules
    /\ UNCHANGED <<managerVars, request, callVars, cache>>
-----------------------------------------------------------------------------
Init ==
    /\ ManagerInit
    /\ requester = 1 /\ defaultCacheRule \in DefaultRules
    /\ owner = [c \in Calls |-> 0]
    /\ request \in [Calls -> Requests]
    /\ phase = [c \in Calls |-> "idle"]
    /\ left = [c \in Calls |-> request[c].retryCount]
    /\ sent = [c \in Calls |-> 0]
    /\ outcome = [c \in Calls |-> NoResult]
    /\ didReturnCache = [c \in Calls |-> FALSE]
    /\ replies = [c \in Calls |-> <<>>]
    /\ cache = [k \in Keys |-> NoData]
    /\ controls = 0

CallStep(c) ==
    \/ RequestData(c) \/ Dispatched(c) \/ SessionAnswers(c)
    \/ HandlerRemoves(c) \/ HandlerCompletes(c) \/ RetryFires(c)

Next ==
    \/ \E c \in Calls : CallStep(c)
    \/ CancelAllBegins \/ CancelAllEnds \/ clearCache \/ start

Spec == Init /\ [][Next]_vars

\* The session ends every task (its timeouts), the queues run what they hold, a retry's
\* timer fires, and a thread inside cancelAllRequests leaves it.  The application's own
\* calls are free.
Fairness ==
    /\ \A c \in Calls : /\ WF_vars(Dispatched(c))
                        /\ WF_vars(SessionAnswers(c))
                        /\ WF_vars(HandlerRemoves(c))
                        /\ WF_vars(HandlerCompletes(c))
                        /\ WF_vars(RetryFires(c))
    /\ WF_vars(CancelAllEnds)

FairSpec == Spec /\ Fairness
-----------------------------------------------------------------------------
(* Properties                                                              *)

\* The variables stay in the ranges the code's types give them.
TypeOK ==
    /\ requestQueue \in [Slots -> (Calls \X Nat) \cup {NoTask}]
    /\ cancelled \subseteq Calls \X Nat
    /\ sweeping \subseteq Managers
    /\ requester \in Managers /\ defaultCacheRule \in DefaultRules
    /\ owner \in [Calls -> Managers \cup {0}]
    /\ request \in [Calls -> Requests]
    /\ phase \in [Calls -> Phases]
    /\ left \in [Calls -> Nat]
    /\ sent \in [Calls -> Nat]
    /\ outcome \in [Calls -> Results \cup {"cancelled", NoResult}]
    /\ didReturnCache \in [Calls -> BOOLEAN]
    /\ replies \in [Calls -> Seq(Replies)]
    /\ cache \in [Keys -> Data \cup {NoData}]
    /\ controls \in 0..MaxControls

\* performRequestRetrying: a call creates at most retryCount + 1 tasks, whatever is
\* cancelled, lost or gated in between, and gives up without success only after all.
Fetched(c) == phase[c] = "done" /\ sent[c] > 0

RetryAccounting ==
    \A c \in Calls :
       /\ sent[c] <= request[c].retryCount + 1
       /\ Fetched(c) /\ ~isSuccessResponse(request[c], DataOf(c))
             => sent[c] = request[c].retryCount + 1

\* What the cache holds under a key, and what a caller is given from it, is the last
\* answer of a finished fetch that was filed under that key.
FetchedUnder(key, data) ==
    /\ FileKey(request[data.by]) = key
    /\ Fetched(data.by)
    /\ data = DataOf(data.by)

CacheProvenance ==
    /\ \A k \in Keys : cache[k] # NoData => FetchedUnder(k, cache[k])
    /\ \A c \in Calls : \A i \in DOMAIN replies[c] :
          (replies[c][i].from = "cache" /\ replies[c][i].data # NoData)
             => /\ FetchedUnder(FileKey(request[c]), replies[c][i].data)
                /\ isSuccessResponse(request[c], replies[c][i].data)

\* A body enters the cache when its fetch ends and at no other time: once it has been
\* replaced or cleared, no handler, retry or late answer brings it back.
NothingComesBack ==
    [][\A k \in Keys, d \in Data : Fetched(d.by) /\ cache[k] # d => cache'[k] # d]_vars

\* AwesomeRequestManager, confined to the main thread: an entry is the latest task of a
\* call whose handler has not run, stored under that call's key by the requester the call
\* was asked of.  Nothing stale is left.
InFlight(c) == phase[c] \in {"running", "answered"}

NoFinishedTaskTracked ==
    Confined =>
       \A s \in Slots : requestQueue[s] # NoTask =>
          \E c \in Calls : requestQueue[s] = Task(c) /\ InFlight(c) /\ Slot(owner[c], c) = s

\* Confined again: the task of a call that shares its slot with no other call is tracked
\* until it ends or is cancelled, by the requester it was asked of, however many calls to
\* start there have been since.
Shares(c, d) == /\ request[c].url # NoUrl /\ request[d].url # NoUrl
                /\ Slot(owner[c], c) = Slot(owner[d], d)

Alone(c) == \A d \in Calls \ {c} : ~Shares(c, d)

UniqueKeyTracked ==
    Confined =>
       \A c \in Calls :
          (InFlight(c) /\ Task(c) \notin cancelled /\ Alone(c))
             => requestQueue[Slot(owner[c], c)] = Task(c)

\* Confined: when its loop is over, cancelAllRequests has cancelled every such task of the
\* requester it swept.
SweepReaches ==
    Confined =>
       \A c \in Calls : (InFlight(c) /\ owner[c] \in sweeping /\ Alone(c))
                            => Task(c) \in cancelled

\* A task is cancelled by cancelAllRequests while its requester is the current one, or by
\* another send into its own slot that asked for cancelPreviousRequest; a call's own retry
\* never cancels its earlier task while that can still answer.
CancelledBySweep(t) == sweeping' # sweeping /\ owner[t[1]] = requester

CancelledBySend(t) ==
    \E c \in Calls : /\ sent'[c] = sent[c] + 1 /\ request[c].cancelPrevious
                     /\ Shares(c, t[1])'
                     /\ t[1] = c => ~InFlight(c)

CancelOnlyByPeer ==
    [][\A t \in cancelled' \ cancelled : CancelledBySweep(t) \/ CancelledBySend(t)]_vars

\* A call that is over without any completion had left its cache rule to the default, and
\* start has been called since: its answer came in under another rule than it was asked.
SilentOnlyByRestart ==
    \A c \in Calls : (phase[c] = "done" /\ replies[c] = <<>>)
                         => request[c].rule = "default" /\ owner[c] < requester

\* The caller sees what RequestContract promises: the completions its cache rule calls
\* for, in that order, and a settled call hears nothing more.
Stage(c) == CASE phase[c] = "idle" -> "unasked"
              [] phase[c] = "done" -> "settled"
              [] OTHER             -> "pending"

Contract == INSTANCE RequestContract WITH
    rule    <- [c \in Calls |-> request[c].rule],
    default <- defaultCacheRule,
    stage   <- [c \in Calls |-> Stage(c)],
    sources <- [c \in Calls |-> [i \in DOMAIN replies[c] |-> replies[c][i].from]]

RefinesContract == Contract!ContractSafety

\* ... and, when every request has a URL, each pending call is settled in the end.
RefinesLiveContract == Contract!ContractSpec

\* A completion carries data or an error, never both and never neither.
DataXorError ==
    \A c \in Calls : \A i \in DOMAIN replies[c] :
       (replies[c][i].data # NoData) <=> (replies[c][i].error = NoError)
-----------------------------------------------------------------------------
(* What the repository says and the code does not do                       *)

\* requestData's "completion: Data or Error": a request that has been made is answered,
\* one whose urlString yields no URL included (AwesomeError has invalidUrl for it).
Asked(c) == phase[c] # "idle"
Answered == \A c \in Calls : Asked(c) ~> (phase[c] = "done")

\* AwesomeRequestManagerTests.testCancelAllRequests: cancelAllRequests cancels every task
\* in flight.
CancelAllReaches ==
    sweeping # {} => \A c \in Calls : phase[c] = "running" => Task(c) \in cancelled

\* The cacheRule error ("no cache for this URL request"): what a request is served from
\* the cache was fetched from the URL it asks for, unless it names a cacheKey of its own.
ServedOwnUrl ==
    \A c \in Calls : \A i \in DOMAIN replies[c] :
       (/\ replies[c][i].from = "cache" /\ replies[c][i].data # NoData
        /\ request[c].cacheKey = NoKey)
          => request[replies[c][i].data.by].url = request[c].url
=============================================================================
