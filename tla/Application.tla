------------------------------ MODULE Application ------------------------------
(***************************************************************************)
(* An application that uses the library through its facade: requests that  *)
(* go through the gate, uploads, AwesomeNetwork.cancelAllRequests over     *)
(* both managers, releaseDispatchQueue.  It composes AwesomeNetwork with   *)
(* Dispatcher and Upload on the threads they share.                        *)
(*                                                                         *)
(* The handlers of data tasks and of uploads run on one delegate queue,    *)
(* that of URLSession.shared.  Confined, the main thread runs the          *)
(* application's calls, the gate's items and the handlers' removals, and a *)
(* wrapper that waits for the semaphore keeps it.                          *)
(***************************************************************************)
EXTENDS AwesomeNetwork

CONSTANTS MaxAttempts,                     \* the most attempts a request may make
          Width, HasTimeout, MaxReleases,   \* see Dispatcher
          Uploader, Uploads, Arguments, NoBody, BadUrl, NoReply   \* see Upload

\* executeBlock is called once per attempt; an attempt is a block.
Attempts == Calls \X (1..MaxAttempts)

VARIABLES hasGreenLights, permits, releases, unsignalled, queue, stage, signalNext,
          expired, ran,                       \* the gate, see Dispatcher
          uploadQueue, uploadCancelled, uploadSweeping, argument, uploadStage, ending,
          reply,                              \* the uploader, see Upload
          sweep                               \* where cancelAllRequests is, see Sweeps

gateVars == <<hasGreenLights, permits, releases, unsignalled, queue, stage, signalNext,
              expired, ran>>
uploaderVars == <<uploadQueue, uploadCancelled, uploadSweeping, argument, uploadStage,
                  ending, reply>>
appVars == <<vars, gateVars, uploaderVars, sweep>>

\* cancelAllRequests: over the requester's manager, between the two, over the uploader's.
Sweeps == {"none", "requests", "between", "uploads"}

NoSignals == {FALSE}    \* Mutant: performRequest passes signalNext: false

SignalNexts == {TRUE}   \* performRequest leaves signalNext at its default

Gate == INSTANCE Dispatcher WITH Jobs <- Attempts, SignalChoices <- SignalNexts

Uploading == INSTANCE Upload WITH
    stage <- uploadStage,
    requestQueue <- uploadQueue, cancelled <- uploadCancelled, sweeping <- uploadSweeping

ASSUME ApplicationAssumption ==
    /\ UseSemaphore /\ MaxAttempts \in Nat
    /\ \A r \in Requests : r.retryCount < MaxAttempts
    /\ Width \in Nat \ {0} /\ HasTimeout \in BOOLEAN /\ MaxReleases \in Nat
    /\ Confined => Width = 1                 \* the gate's queue is the main queue
    /\ Uploader \in Managers                 \* in a dictionary of its own, uploadQueue
    /\ NoTask \notin Uploads /\ Arguments \subseteq Uploading!Argument
    /\ NoBody # "some" /\ BadUrl \notin Keys /\ NoReply \notin Uploading!Told
-----------------------------------------------------------------------------
\* The main thread, when the application is confined to it, and the delegate queue.
MainIdle     == Confined => sweep = "none" /\ Gate!Working = {}
DelegateIdle == /\ \A c \in Calls : phase[c] # "handling"
                /\ \A u \in Uploads : uploadStage[u] # "handling"

Attempt(c) == <<c, sent[c] + 1>>

\* Mutant: only the first attempt is handed to the gate.
HandedOnce(c) ==
    IF phase'[c] = "gated" /\ sent[c] = 0
    THEN Gate!executeBlock(Attempt(c)) ELSE UNCHANGED gateVars

\* A call's step hands a block to the gate exactly when it makes the call gated.
Handed(c) ==
    IF phase'[c] = "gated" THEN Gate!executeBlock(Attempt(c)) ELSE UNCHANGED gateVars

RequestStep(c) ==
    /\ MainIdle
    /\ RequestData(c) \/ RetryFires(c)
    /\ Handed(c)
    /\ UNCHANGED <<uploaderVars, sweep>>

AnswerStep(c) ==
    /\ \/ SessionAnswers(c)
       \/ MainIdle /\ DelegateIdle /\ HandlerRemoves(c)
       \/ HandlerCompletes(c)
    /\ UNCHANGED <<gateVars, uploaderVars, sweep>>

\* The gate's queue runs an item: a wrapper starts, or a block performs the request.
GateStarts(c) ==
    /\ MainIdle
    /\ \/ Gate!StartWrapper(Attempt(c)) /\ UNCHANGED vars
       \/ Gate!RunBlock(Attempt(c)) /\ Dispatched(c)
    /\ UNCHANGED <<uploaderVars, sweep>>

\* A wrapper goes on, on the thread it holds.
GateGoesOn(j) ==
    /\ Gate!WaitEnds(j) \/ Gate!EnqueueBlock(j) \/ Gate!SignalNext(j)
    /\ UNCHANGED <<vars, uploaderVars, sweep>>

\* releaseDispatchQueue.
ReleaseBegins ==
    /\ MainIdle /\ Gate!ReleaseLights
    /\ UNCHANGED <<vars, uploaderVars, sweep>>

ReleaseEnds == Gate!ReleaseSignals /\ UNCHANGED <<vars, uploaderVars, sweep>>

UploadCalled(u) ==
    /\ MainIdle /\ Uploading!upload(u)
    /\ UNCHANGED <<vars, gateVars, sweep>>

UploadGoesOn(u) ==
    /\ \/ Uploading!UploadEnds(u)
       \/ MainIdle /\ DelegateIdle /\ Uploading!UploadRemoves(u)
       \/ Uploading!UploadCompletes(u)
    /\ UNCHANGED <<vars, gateVars, sweep>>
-----------------------------------------------------------------------------
Sweep(from, to) == sweep = from /\ sweep' = to

\* Mutant: a requester that has nothing in flight returns before the uploads.
SweepRequestsOrReturn ==
    /\ CancelAllEnds
    /\ Sweep("requests", IF Tracked(requester) = {} THEN "none" ELSE "between")
    /\ UNCHANGED <<gateVars, uploaderVars>>

\* Mutant: the requester's manager is never emptied.
SweepWithoutRemoveAll ==
    /\ Sweep("requests", "between")
    /\ UNCHANGED <<vars, gateVars, uploaderVars>>

\* cancelAllRequests: the requester's manager, and then the uploader's.
SweepBegins ==
    /\ MainIdle /\ CancelAllBegins
    /\ Sweep("none", "requests")
    /\ UNCHANGED <<gateVars, uploaderVars>>

SweepRequestsEnds ==
    /\ CancelAllEnds
    /\ Sweep("requests", "between")
    /\ UNCHANGED <<gateVars, uploaderVars>>

SweepUploads ==
    /\ Uploading!CancelUploadsBegins
    /\ Sweep("between", "uploads")
    /\ UNCHANGED <<vars, gateVars>>

SweepEnds ==
    /\ Uploading!CancelUploadsEnds
    /\ Sweep("uploads", "none")
    /\ UNCHANGED <<vars, gateVars>>

Controls ==
    /\ MainIdle
    /\ clearCache \/ start
    /\ UNCHANGED <<gateVars, uploaderVars, sweep>>
-----------------------------------------------------------------------------
AppInit == Init /\ Gate!Init /\ Uploading!UploadInit /\ sweep = "none"

AppNext ==
    \/ \E c \in Calls : RequestStep(c) \/ AnswerStep(c) \/ GateStarts(c)
    \/ \E j \in Attempts : GateGoesOn(j)
    \/ \E u \in Uploads : UploadCalled(u) \/ UploadGoesOn(u)
    \/ ReleaseBegins \/ ReleaseEnds
    \/ SweepBegins \/ SweepRequestsEnds \/ SweepUploads \/ SweepEnds \/ Controls

\* The session ends its tasks, the delegate queue, the main queue and the gate's queue run
\* what they hold, a timer fires, and a thread goes on.  The application's calls are free.
AppFairness ==
    /\ \A c \in Calls : /\ WF_appVars(AnswerStep(c))
                        /\ WF_appVars(RequestStep(c) /\ phase[c] = "waitRetry")
                        /\ WF_appVars(GateStarts(c))
    /\ \A j \in Attempts : WF_appVars(GateGoesOn(j))
    /\ \A u \in Uploads : WF_appVars(UploadGoesOn(u))
    /\ WF_appVars(ReleaseEnds)
    /\ WF_appVars(SweepRequestsEnds \/ SweepUploads \/ SweepEnds)

AppSafety == AppInit /\ [][AppNext]_appVars

AppSpec == AppSafety /\ AppFairness
-----------------------------------------------------------------------------
(* Properties                                                              *)

\* The variables stay in the ranges the code's types give them, the parts' own included.
AppTypeOK ==
    /\ TypeOK /\ Gate!TypeOK /\ Uploading!UploadTypeOK
    /\ sweep \in Sweeps
    /\ sweep = "requests" <=> sweeping # {}
    /\ sweep = "uploads" <=> uploadSweeping # {}

\* The gate and the threads it shares with the rest leave AwesomeNetwork as it is described
\* without them: whatever waits at the gate is sent in the end, and whatever waits for the
\* main thread gets it.
RefinesNetwork == FairSpec

\* The gate carries the calls' attempts one after the other: the block of an attempt that
\* has been sent has run, a gated call's next one is in the gate, and no other is.  So no
\* attempt is sent twice, none is left behind there when its call goes on or is over, and
\* a retry finds its block unused.
GateCarriesCalls ==
    \A c \in Calls, n \in 1..MaxAttempts :
       Gate!BlockState(<<c, n>>) =
          CASE n <= sent[c]                           -> "ran"
            [] n = sent[c] + 1 /\ phase[c] = "gated" -> "submitted"
            [] OTHER                                  -> "new"

\* Confined: a wrapper on the main thread never blocks it, there is a permit for its wait.
MainNeverHeld == Confined => \A j \in Attempts : stage[j] = "waiting" => permits > 0

\* The application does not deadlock: as long as a call or an upload is under way, something
\* can go on without its help, although handlers wait for the main thread, the main thread
\* may wait for a permit, and whoever holds the permit waits for a thread.
CallGoesOn(c) ==
    \/ phase[c] \in {"running", "handling"}
    \/ phase[c] = "answered" /\ MainIdle /\ DelegateIdle
    \/ phase[c] = "waitRetry" /\ MainIdle /\ stage[Attempt(c)] = "new"
    \/ /\ phase[c] = "gated" /\ MainIdle /\ Gate!Working = {}
       /\ queue # <<>> /\ Head(queue)[1] = Attempt(c)

UploadProceeds(u) ==
    \/ uploadStage[u] \in {"running", "handling"}
    \/ uploadStage[u] = "answered" /\ MainIdle /\ DelegateIdle

SomethingGoesOn ==
    \/ sweep # "none"
    \/ \E c \in Calls : CallGoesOn(c)
    \/ \E j \in Attempts : Gate!CanGoOn(j)
    \/ \E u \in Uploads : UploadProceeds(u)

UnderWay ==
    \/ \E c \in Calls : phase[c] \notin {"idle", "done", "dropped"}
    \/ \E u \in Uploads : uploadStage[u] \notin {"idle", "over"}

NoDeadlock == UnderWay => SomethingGoesOn

\* Every upload is settled, and told of its end unless that was a 2xx without data.
UploadsSettle ==
    \A u \in Uploads :
       (uploadStage[u] # "idle")
          ~> (uploadStage[u] = "over" /\ (reply[u] # NoReply \/ ending[u] = "noBody"))

\* Confined: when cancelAllRequests returns, it has cancelled every task in flight of the
\* current requester and of the uploader that shares its slot with no other.
RequestsSwept ==
    \A c \in Calls : (InFlight(c) /\ owner[c] = requester /\ Alone(c)) => Task(c) \in cancelled

UploadsSwept ==
    \A u \in Uploads : (Uploading!Sending(u) /\ Uploading!OwnPath(u)) => u \in uploadCancelled

CancelAllReachesBoth ==
    [][(Confined /\ sweep # "none" /\ sweep' = "none") => RequestsSwept /\ UploadsSwept]_appVars
==============================================================================
