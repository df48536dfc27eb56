# AwesomeNetwork in TLA+

Specifications of AwesomeNetwork, an iOS networking library in Swift: requests with a
cache in front, retries, cancellation, a gate that holds requests back until the
application is ready, downloads, uploads and a reachability notifier. Paths below are relative to `src/AwesomeNetwork/Classes/`.

## The system

| Component | State | Operations | Talks to |
|---|---|---|---|
| `AwesomeNetwork` (facade, `AwesomeNetwork.swift`) | the shared requester, cache manager and defaults | `start`, `requestData`, `requestGeneric` (two forms), `dataFromCache`, `clearCache`, `cancelAllRequests`, `releaseDispatchQueue` | all of the below |
| `AwesomeRequester` (`Networking/`) | none of its own; closures in flight | `performRequestRetrying`, `performRequest` (two forms), the session's completion handler | request manager, dispatcher, `URLSession` |
| `AwesomeRequestManager` | `requestQueue`, one task per `urlCacheKey`, no lock | `addRequest`, `removeRequest` (hops to the main queue), `cancelRequest`, `cancelAllRequests` | `URLSessionTask.cancel` |
| `AwesomeRequestProtocol`, URL and string extensions | none | `urlRequest`, `urlCacheKey`, `cachedData`, `saveToCache`, `isSuccessResponse` | cache manager |
| `AwesomeCacheRule` | none | `shouldGetFromCache`, `shouldGetFromUrl`, `shouldReturnUrlData` | |
| `AwesomeCacheManager`, `AwesomeRealmCache` | one stored body per key | save, read, clear; every fault hidden by `try?` | Realm |
| `AwesomeDispatcher` | `hasGreenLights`, a semaphore, a timeout | `executeBlock`, `releaseSemaphore` | GCD queues |
| `AwesomeDownload`, `AwesomeDownloadManager` | one shared session, task, URL, folder and pair of callbacks | `download`, `delete`, `cancelDownload`, the session delegate, lists chained through completions, notifications | `URLSession`, files |
| `AwesomeUpload` | a second request manager | `upload`, its completion handler | `URLSession` |
| `AwesomeReachability`, `AwesomeNetwork+Reachability` | `previousFlags`, `notifierRunning`, callbacks | `startNotifier`, `stopNotifier`, the flags callback | SystemConfiguration, notifications |
| `AwesomeURLCache`, `AwesomeParser` | none | helpers nothing in the library calls | |

What is hard here is that nothing is locked. The application calls from any thread; the
requester continues on the request's own queue, on the session's serial delegate queue
and on the main queue; and the state that decides what happens next is read at one point
of that journey and used at another: `didReturnCache` before the fetch and after it, the
key of a task when it is added and when it is removed, the permits of a semaphore whose
`wait` may have timed out, the flags of a network that changes between two looks at them.
The main queue and the session's delegate queue are shared by parts that know nothing of
each other. Every fault of the network or of Realm becomes silence or one
more attempt. `PROJECT.json` lists these hazards line by line with the properties that
watch them, or with a note where the code does what one would not expect and no doc or test
says otherwise.

What makes each part correct:

- a call gets exactly the completions its cache rule calls for, in order, each with data
  or an error, whatever is retried, cancelled or lost; and it does get them;
- it creates no more than `retryCount + 1` tasks, and gives up only after all of them;
- the cache holds and serves, under a key, what was fetched under that key, and nothing that
  was replaced or cleared comes back;
- the request manager tracks tasks that can still answer and reaches those it should;
  nobody's task is cancelled but by `cancelAllRequests` or a peer that asked for it;
- a block given to the gate runs once, and runs; the permits add up; the gate is never stuck
  over its threads and permits;
- a downloaded file holds its own URL's content, a completion answers its own download,
  one download is alive at a time, and none is lost;
- an upload is settled, and `cancelAllRequests` reaches uploads and requests alike;
- listeners end up told whether there is a connection;
- the gate and the uploads, which share threads with the requests, keep none from its end:
  the gate never holds the main thread, and nothing locks up.

## The modules

| Module | Models |
|---|---|
| `CacheRule` | the three decisions of `AwesomeCacheRule`, pure operators |
| `RequestContract` | abstract: the completions a caller of `requestData` gets, given its rule |
| `RequestManager` | `AwesomeRequestManager`: its variables and its operations on them |
| `AwesomeNetwork` | the core: the life of a request through facade, requester, manager and cache; its properties |
| `MCAwesomeNetwork` | the requests of the small instances |
| `BlockExecutor` | abstract: a block handed over runs once, and runs |
| `Dispatcher` | `AwesomeDispatcher` on a queue of bounded width; its properties |
| `Download` | `AwesomeDownload` and the lists of `AwesomeDownloadManager`; its properties |
| `MCDownload` | the URLs, names and lists of the small instances |
| `Reachability` | `AwesomeReachability` and the events `AwesomeNetwork+Reachability` posts; its properties |
| `MCReachability` | the flags of the small instance |
| `Upload` | `AwesomeUpload`, on a request manager of its own |
| `Application` | the composition: `AwesomeNetwork`, `Dispatcher` and `Upload` on the threads they share |
| `MCApplication` | the request and the uploads of the small instance |
| `AwesomeNetworkProofs`, `TrackingProofs`, `ContractProofs` | the theorems about the core |
| `QueueFacts` | lemmas about a queue of wrappers and blocks, for the gate on its own and in the application |
| `DispatcherProofs`, `DownloadProofs`, `ReachabilityProofs`, `ApplicationProofs` | the theorems about the other parts and the composition |

### AwesomeNetwork and RequestManager

A call `c` is one call of `requestData` (or `requestGeneric`) with `request[c]`, chosen at
the start from `Requests`: a record of what the request's protocol members decide. A URL is
its `endpoint`, which stands for what `urlCacheKey` keeps (path, method, body), and its
`rest` (scheme, host, query, headers). `phase[c]` is the closure the call is waiting in:

    idle -> gated -> running -> answered -> handling -> done
                 ^                              |
                 +--------- waitRetry <---------+        (and idle/waitRetry -> dropped)

- `RequestData` is `requestData` with `dataFromCache` up to the gate or `resume`: the read
  of the cache, the first completion, and `performRequest`, in one step, because the
  caller's thread runs them without leaving the call.
- `Dispatched` is the block the dispatcher runs; `Dispatcher` shows when it does.
- `SessionAnswers` is `URLSession`: a body, a 401 or an error; a task on which `cancel` was
  called ends as cancelled (a cancel that comes after the answer changes nothing).
- `HandlerRemoves` and `HandlerCompletes` are the completion handler, cut where
  `removeRequest` hops to the main queue. The delegate queue is serial, so one handler runs
  at a time.
- `RetryFires` is the closure given to `asyncAfter`.
- `CancelAllBegins` and `CancelAllEnds` are `cancelAllRequests` of the requester's manager,
  cut between the loop over the copied values and `removeAll`. `clearCache` is one Realm write.
- `start` is a call to `AwesomeNetwork.start` after the first. It replaces the default cache
  rule and makes requester `n + 1` with a manager of its own (`Managers` bounds n, `Slots`
  are the keys of all their dictionaries). A call stays with the requester it was asked of,
  `owner[c]`, also when it retries, while `cancelAllRequests` sweeps the current one; the old
  requester lives on, because the completion handed to the gate holds it strongly. A request
  that does not override `cacheRule` (rule `"default"`) looks the default up each time it is
  asked: when the call is made, and again when the answer is in (`RuleOf`).

`Confined` says how the application uses the library. TRUE: it calls everything on the
main thread and its requests' queue is `.main`, so that every access to the dictionary is
made there (`removeRequest` brings the handler's access to it) and no other main-thread
step runs inside `cancelAllRequests`. FALSE: any thread, as the defaults have it
(`.global()`); then a store into the unsynchronised dictionary may also be lost
(`Store`). A crash from the same race is not modelled: nothing follows it.

Abstractions: a body is the call that fetched it and whether it is one that `accepts` and
the decoder like; `cacheKey`, and a rule that the request overrides, are what its properties return
throughout. `start` is one step, is given the same `useSemaphore` each time, and does not
overlap a `requestData`; nothing is asked before the first `start` (the library's README
has an application call it first). Timeouts and queues it sets are not told apart. The
uploads' half of `cancelAllRequests` is in `Application`; `cancelRequest`, which nothing
calls, is left out. The
`intermediate` callback of `performRequestRetrying` is never passed by the facade. That a
task ends with a body or an error, and not with neither, is what `URLSession` documents.
`retryCount` is a natural number, though its type is `Int`, and an `isSuccessResponse` that accepts
a response without data is left out.

`RequestData` is atomic also when `Confined` is FALSE. Another thread may come between its
read of the cache and its send, but then it behaves as after the send, unless it empties
the request manager: a send it does not see is one whose store is lost. A second
`cancelAllRequests` does not begin while one is under way.

### Dispatcher

Blocks go to one dispatch queue with `Width` threads. A block submitted without green
lights is a wrapper item; running it means to wait for a permit or for the timeout, to
append the block to the same queue, and to signal unless `signalNext` is FALSE. A wrapper
holds its thread all along. `releaseSemaphore` is two steps, the lights and the signal. There
is one queue: requests whose queues differ share the semaphore, but not the threads.

### Download

Downloads are numbered in the order `startDownloadSession` is called; `asked[n]` is the URL
and what remains of the list it belongs to. The fields `downloadUrl` and
`downloadedCallback` are always those of the last one and are not variables of their own;
`session` and `downloadTask` are fields, because the delegate clears them on its own queue
while the main thread fills them. `startDownloadSession` is four steps (`Start`,
`CreateSession`, `CreateTask`, `Resume`), one per field it touches, and
`didFinishDownloadingTo` three (`CloseSession`, `CloseTask`, `FileContent`). A cancel has
no effect on a task that has its bytes: `URLSession` may call the delegate of a task until
the cancellation is acknowledged. `Complete` calls the completion in the field, and
`NextInList` is what the manager's completion does then.

`replacedLate` is the only variable without a counterpart in the code: it records that a
download was replaced or cancelled while it was finishing. Most of what one expects of this
component holds until that happens, and is stated so; `download_late` shows what happens
after. Progress callbacks and notifications are left out (they change no state), and there
is one folder. A completion that `download` calls before it returns, because the file is
there or a forced download could not delete it, is not recorded in `answers`; it changes no
state of the library's. What a list does then is part of `downloadList`.

### Reachability

The notifier on a device. `AwesomeReachabilityChanged` runs on the notifier's serial queue,
once for each callback of the system (`callback`: one is waiting) and once for each
`startNotifier` (`checks`). It asks the system for the flags each time it looks at one: for
the comparison with `previousFlags` (`HandlerBegins`), up to five times inside `connection`
(`HandlerLooks`, one flag at a time), and for the record (`HandlerRecords`); the flags may
change at any point in between (`FlagsChange`), and a read may fail, which gives no flags.
The block it chooses runs on the main queue (`MainHops`), whose closure hops there once
more (`MainTells`) and then posts: disconnected at once, connected only if `connection`,
read again look by look, still says so (`TellerLooks`, `TellerPosts`). `stopNotifier` keeps
`previousFlags`, and a callback already queued may still come. `connectionOnTraffic` and
`connectionOnDemand` are one flag, since only their union is looked at.

`torn` and `skipped` have no counterpart in the code. They record what the notifier cannot
make good before the next change: the flags changed, or a read failed, inside the last pass
(which may have recorded flags it did not decide on), or the last connected was dropped.
`QuietTold` and `ListenersTold` except these two cases and no other; TLC shows that leaving
out either exception breaks them.

### Upload and Application

An upload `u` is one call of `upload` with `argument[u]`. `Uploader` is one of `Managers`,
but in a dictionary of its own (`uploadQueue`); an upload never cancels its predecessor. The
handler hops to the main queue (`UploadRemoves`) and then tells the completion what became
of it (`UploadCompletes`), except when the answer is 2xx without data, where the code falls
through its last `if let`.

`Application` puts the parts on the threads they share. A call that becomes `gated` hands
the attempt to `Dispatcher` in the same step (`Handed`), and the block the dispatcher runs
is `Dispatched` (`GateStarts`). The handlers of requests and uploads run one at a time on
the delegate queue of `URLSession.shared` (`DelegateIdle`). When `Confined`, the gate's
queue is the main queue, of width one, and everything that needs the main thread waits while
a wrapper holds it or `cancelAllRequests` is under way (`MainIdle`). `cancelAllRequests` is
four steps over the two managers (`sweep`). `RefinesNetwork` is the specification of
`AwesomeNetwork` itself, its fairness included: there the step out of the gate and the steps
on the main thread are simply fair, here that has to follow from the permit a wrapper on
the main queue always finds and from the threads going on. The run has no timeout
(`HasTimeout` is FALSE), so that nothing rests on one.

## The runs

| Run | Checks | Shows |
|---|---|---|
| `requests` | `TypeOK`, `RetryAccounting`, `CacheProvenance`, `DataXorError`, `SilentOnlyByRestart`, `RefinesLiveContract`, `NothingComesBack` | two calls on any thread, through the gate, with retries, a cancelAll, clear or start, storage faults: the caller gets what the rule in force promises, and gets it; the cache never goes back |
| `requests_main` | `NoFinishedTaskTracked`, `UniqueKeyTracked`, `SweepReaches`, `CancelOnlyByPeer`, `RefinesContract` | three calls of a confined application on shared and separate keys, of one requester or two |
| `dispatcher` | `TypeOK`, `PermitAccounting`, `NeverStuck`, `RefinesExecutor` | three blocks on two threads with timeouts: each runs exactly once, and the gate can go on until it has |
| `downloads` | `TypeOK`, `FilesOwn`, `AnswersOwn`, `OneAlive`, `NoneLost`, `DownloadsSettle` | two calls of the application: lists with a name that occurs twice, forced downloads, deletions, failures of network and files |
| `reachability` | `TypeOK`, `QuietTold`, `ListenersTold` | two changes of the flags and three calls to start or stop, with reads and set-ups that fail: listeners end up told the truth |
| `application` | `AppTypeOK`, `GateCarriesCalls`, `MainNeverHeld`, `NoDeadlock`, `RefinesNetwork`, `UploadsSettle`, `CancelAllReachesBoth` | a gated, retried request and two uploads sharing the main thread and the delegate queue: none keeps another from its end, and no deadlock |
| `bad_url` | `Answered`, violated | a request without a URL is never answered |
| `shared_key` | `CancelAllReaches`, violated | the older of two tasks under one key is out of reach |
| `cache_key` | `ServedOwnUrl`, violated | two URLs that differ in host or query share a cache entry |
| `download_failed` | `FailureAnswered`, violated | a failed download completes nothing, and its list stops |
| `download_late` | `CompletedIsThisDownload`, violated | a download that is replaced while it finishes completes the one that replaced it |
| `dispatcher_gate` | `HeldUntilGreenLights`, violated | the gate lets blocks through without green lights |

The six violated properties say what the repository's documentation, messages and tests
say; `PROJECT.json` quotes the lines under `findings`. They are findings about the code,
not about the model: each counterexample is short, and only `download_failed` needs a fault.

Bounds. Two calls are enough for one to disturb the other in `requests`: every rule, a
retry, both a shared and a separate key, a `cacheKey` of its own and both kinds of
acceptance are in `MCRequests`, and TLC tries every pair. `requests_main` takes a third
call so that a stale entry of the first may meet the task of the second and the cancel of
the third. `MaxControls = 1` allows one `cancelAllRequests`, `clearCache` or `start` in
`requests`, which is enough for a default rule to change under a call (`DefaultRules` has one
that delivers the answer of a miss and one that does not). In `requests_main` it is 2, so
that a `start` may be followed by a sweep of the new requester while the old one still has
tasks; `Managers = {1, 2}` allows that one `start`. In `dispatcher` three blocks on two threads are the smallest number for which
all threads are held by waiting wrappers while a block waits behind them; two releases let
the semaphore grow past one both by release and by timeout. In `downloads` two calls let one
replace, force or delete what the other is doing at every step of it; a list of three URLs
is long enough for one to be skipped and for a completion to start one that has a successor.
`MaxStarts` is calls times list length and never binds. In `reachability` the four flags
are no network, WiFi, cellular and a connection that waits for the user, so that every
branch of `connection` is taken; two changes let the flags return to those recorded before
(the change that is never noticed), three calls let the notifier be stopped and started
again around them. In `application` one call with a retry passes the gate twice, two uploads
may share the path of each other, `Results` is `"offline"` so that the retry happens, and
one control and one release come at any point; the main queue is the gate's, the case with
the most waiting, and a wait on it has no timeout, so that it ends by a permit or not at all. Calls are symmetric in `requests_main`, which checks no liveness; no other
passing run uses symmetry. Deadlock checking is off in every run, as
each one really stops: all calls are done or dropped, all blocks have run, all downloads have
settled, and the bound on control calls is used up.

Fairness. The session ends each task, by its timeout if nothing else (`timeoutInterval` is
set on each request); GCD queues start what they hold while they have a thread; timers
fire; a thread inside `cancelAllRequests` or `releaseDispatchQueue` leaves it; a semaphore wait with a timeout
returns; the network ends each download; the main thread goes on with what it began; the
notifier's queue runs its callbacks. These are weakly fair. In `application`, weak fairness is
enough although the main thread is taken from a waiting step again and again: wrappers,
sweeps and handlers are finite in number, and each one ends, the wrappers because a permit is
always there (`MainNeverHeld`). What the application or the user does, `RequestData`, the control calls,
`executeBlock`, `ReleaseLights`, uploads, downloads, deletions and the alert, starting and
stopping the notifier, is not; nor is a change of the flags.

`RefinesLiveContract` is checked with requests that all have a URL: without one, `bad_url`
shows that it does not hold. `RefinesContract`, its safety part, is checked with such a
request among them. `RefinesExecutor` needs the timeout (its default is 5 seconds): with
`HasTimeout = FALSE` and a wrapper that does not signal, a block may wait forever.

## The theorems

TLAPS checks these for every set of calls, requests and keys and every bound, under the
named assumptions of the modules. Those of `AwesomeNetwork` are `RequestAssumption` (requests
are well formed), `ManagerAssumption` (requesters are numbered from 1) and
`ConstantAssumption` (flags are Booleans and the nil values are not among the values); the
others say the same of their constants.

The core:

- `Invariance`, `TypeCorrect`, `RetriesAccounted`: `IInv` is `TypeOK` and, per call,
  `CallInv`. `RetryAccounting` alone is not inductive: it says nothing of a call under way.
  `CallInv` adds that the tasks created and the attempts left add up to `retryCount` before
  a send and to `retryCount + 1` after it, that a call waiting for a retry has one left,
  and that a call past the URL check has a URL, which is what keeps `urlCacheKey` in `Keys`.
- `CompletionsAnswer`: completions are only appended (`RepliesGrow`), and each appended
  one carries data or an error, also after decoding.
- `ServedWhatWasFetched`: a done call keeps its answer (`DoneStable`), so what was filed
  when it finished stays true of the cache, and of what is served from it, ever after.
- `NothingReturns` (`NothingComesBack`): a body names the task that fetched it. Only the step
  that ends a call files one, and it is that call's own; so a step can take the body of a
  finished fetch out of the cache but not put one in.
- `NothingStaleTracked`, `UniqueCallsTracked`: both properties together with `SweepInv`
  are inductive. While `cancelAllRequests` is between its loop and `removeAll` every
  tracked task has been cancelled and none is added, so emptying the dictionary loses none
  that is not cancelled. This is where confinement to the main thread is used.
- `SweepCancels` (`SweepReaches`) follows from the same invariant: a task alone in its slot is
  tracked or cancelled, and while a manager is being swept what it tracks is cancelled.
- `CancelledByPeersOnly`: `KeyInv` says that an entry is the task of a call with a URL,
  stored in the slot of that call and of the requester it was asked of. It survives lost stores, so confinement is not needed; a
  send that cancels the entry under its key therefore cancels a peer's task, or an earlier
  one of its own that has ended, since a call sends only when none of its tasks is in flight.
- `ContractKept`: refinement of `ContractSafety`. `ReplyInv` ties `didReturnCache` and the
  phase to the sources delivered so far; then `RequestData` maps to `AskHit` or `AskMiss`,
  the last `HandlerCompletes` to `Fetched`, and every other step to a stutter.

- `SilenceNeedsRestart`: `ReplyInv` also says which rule a call without completions was asked
  under: as long as no `start` has come since, the rule at its end is the rule at its
  beginning, and then the answer of a miss is delivered.

The gate, the downloads and the notifier:

- `GateTypeCorrect`, `QueueInvariance`: an item is in the queue at most once, and it is there
  exactly when its block's stage says so (`Placed`). So no block is lost between the wrapper
  and the queue, and a thread that takes one leaves no second copy behind. The lemmas of
  `QueueFacts` say what appending an item and taking the first one do to `Placed`, without
  the state, so that the proofs of the application can use them through its `INSTANCE`.
- `PermitInvariance`, `PermitsAccounted`: the sets of wrappers that hold, kept or minted a permit are finite, and
  each step changes at most one of them by one element, by as much as it changes `permits`.
- `GateNeverStuck` (`NeverStuck`), from `PInv`: a block that has not run is in the queue or with
  its wrapper. If no thread is free, each is held by a wrapper; if none of these can go on, all
  wait without a permit or a timeout, and the accounting says a permit was kept. So with
  a timeout, or as long as every wrapper signals, that cannot be, however narrow the queue.
  It is the part of liveness that is a state predicate; `RefinesExecutor` adds the fairness.
- `ExecutesOnce`: the safety half of `RefinesExecutor`.
- `DownloadTypeCorrect`, `DownloadInvariance`, `FilesAreOwn`, `AnswersAreOwn`, `OneTaskAlive`:
  until `replacedLate`, `DInv` ties the fields to the last download: only it may be alive, the
  session and task in the fields are its own or have been cleared, and a completion is due only
  when its task is over. `AnswersOwn` needs `OneAlive` and that: a completion is called on the
  download in the fields, which is the one that ended only because no other was alive, and it
  starts the next of its list.
- `NoDownloadLost` (`NoneLost`): needs `DInv`, not more. When a download is replaced in time, what
  was under way is a task that runs, the one in the field, which the cancel settles; from the
  start to the answer a download passes from the main thread to its task, to the completion
  that is due, to the answer, and `DInv` says at each of these steps that it is its own.
- `ReachabilityTypeCorrect`, `ReachabilityInvariance`, `ListenersKnow`: `RInv` says, of a
  pass that is not torn, that the connection built so far is the one its flags give up to that look,
  and, between passes, that the last event due on the main queue (the last block not yet run,
  else the last hop, else the one being told, else the event posted) is that of the recorded
  flags. Blocks become hops at the back of the queue, so the last block is the last to tell.

The application:

- `PartsKept`: each step of the composition is a step of `AwesomeNetwork` and of `Dispatcher`
  or leaves its variables alone, so what is proved of either is true of it;
  `ApplicationKeepsContract` is `ContractKept` by this way, and `ApplicationKeepsSafety` the
  other theorems about the core.
- `GateInvariance`, `GateCarries` (`GateCarriesCalls`): an attempt `<<c, n>>` is a block of the gate.
  `GateInv` relates the gate's queue (`Placed`) to the calls: the block has run exactly when the
  attempt was sent, is in the gate exactly when its call waits there, and is new otherwise. So
  a retry never hands in a block twice, and the block that runs finds the call that waits
  for it. It is this that makes `Handed` and `GateStarts` one step of both parts each.
- `MainThreadNeverHeld` (`MainNeverHeld`): `PermitInv` says that without a permit there is a
  wrapper that has passed its wait and will signal, and that in a confined application at
  most one wrapper is at work; so the one that waits on the main thread finds a permit. It
  rests on `SignalNexts`, that the requester's wrappers signal: `performRequest` leaves
  `signalNext` at its default.
- `ApplicationNeverStuck` (`NoDeadlock`), from `AppInv` and `GateInv`: if nothing of the requests, the
  uploads, the gate and the sweep can go on, then no wrapper is at work (by `PermitInv`, with
  or without a timeout) and the main thread is idle; so a handler in front of the delegate
  queue could go on, or a retry, or the first block in the gate, which is that of a gated call.
- `ApplicationInvariance`, `ApplicationTypeCorrect`, `CancelAllReturns`: `AppInv` is the
  parts' own invariants, the tracking invariant of the requests and of the uploads (an upload
  alone on its path is in its slot until it ends or is cancelled), and `SweepPart`: between
  the two managers nothing in flight of the current requester is uncancelled, because on the
  main thread nothing is sent, started or called until `cancelAllRequests` returns. Without
  this last part the property cannot be shown at the step that returns, when the first
  manager has long been emptied.

Only model-checked is liveness under fairness, which is outside TLAPS: `RefinesLiveContract`
and `RefinesExecutor` beyond their safety parts, `DownloadsSettle`, `ListenersTold`,
`UploadsSettle`, and the live half of `RefinesNetwork`. Every invariant and action property
of a passing run is proved. What is proved on the way to liveness are state predicates:
`NeverStuck`, `NoneLost` and `NoDeadlock`. That what they call going on is a step that can be
taken is a matter of comparing them with the guards, as `ENABLED` is out of reach, too; TLC
agreed on the small instances. No recursive operator is used anywhere, and no theorem needs
induction over data.

## Plan

The modules were written in this order: the core with its manager, cache and contract, the
gate, the downloads, the notifier, the uploads, a further `start`, and the composition;
each with its theorems. All of the plan is carried out, and nothing of the library's own
code that keeps state is left except what the next section names.

## Not modelled

- `cancelRequest` of `AwesomeRequestManager`: nothing in the library calls it. On the main
  thread its `main.sync` would wait on itself.
- `AwesomeURLCache`: no caller; the cache is Realm whatever `cacheType` says.
- `AwesomeParser`: a stateless decoding helper without a caller.
- The Realm configuration in `AwesomeRealmCache`, schema version and migration.
- Progress callbacks, notifications of downloads and alert controllers: they change no state.
- The deprecated and descriptive members of `AwesomeReachability`, and `isReachable`,
  `isWifiReachable` and `isCellularReachable`: getters without state.
- A crash or a lost update of the dictionary's own structure under the data race on
  `requestQueue`, beyond the lost store.
- The example application and the vendored Pods under `src/Example`, Realm's C++ headers
  among them: by far the most lines of the repository, none of them this library's. What it
  uses of Realm is a save, a read and a clear, each of which may fail.

## Running

    tlc -workers 2 -config requests.cfg MCAwesomeNetwork
    tlc -workers 2 -config dispatcher.cfg Dispatcher
    tlc -workers 2 -config downloads.cfg MCDownload
    tlc -workers 2 -config reachability.cfg MCReachability
    tlc -workers 2 -config application.cfg MCApplication
    tlapm AwesomeNetworkProofs.tla

The largest runs: `requests_main` 3.4 million distinct states, `requests` 0.9 million,
`reachability` 0.5 million, `application` 0.4 million (the slowest, about three minutes, for
its three temporal properties).
