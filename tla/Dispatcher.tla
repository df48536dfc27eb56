------------------------------ MODULE Dispatcher ------------------------------
(***************************************************************************)
(* AwesomeDispatcher (Networking/AwesomeDispatcher.swift): the gate that   *)
(* AwesomeNetwork.start(useSemaphore: true) puts in front of every send.   *)
(* Blocks go through one dispatch queue with a bounded number of threads;  *)
(* a block submitted before the green lights is wrapped in a work item     *)
(* that waits on the semaphore, enqueues the block, and signals.           *)
(***************************************************************************)
EXTENDS Integers, Sequences, FiniteSets

CONSTANTS Jobs,           \* the blocks handed to executeBlock
          Width,          \* threads the queue runs items on; 1 for a serial queue
          HasTimeout,     \* dispatcher.timeout is not nil
          SignalChoices,  \* the values of signalNext in use
          MaxReleases     \* bound: calls to releaseDispatchQueue

ASSUME DispatcherAssumption ==
    /\ IsFiniteSet(Jobs)
    /\ Width \in Nat \ {0}
    /\ HasTimeout \in BOOLEAN
    /\ SignalChoices \subseteq BOOLEAN
    /\ MaxReleases \in Nat

VARIABLES hasGreenLights, \* set by releaseSemaphore, never reset
          permits,        \* the value of dispatchSemaphore
          releases,       \* calls to releaseSemaphore that have set the lights
          unsignalled,    \* those of them that have not signalled yet
          queue,          \* work items in order: <<j, "wrapper">> or <<j, "block">>
          stage,          \* stage[j]: how far executeBlock(j) and its wrapper are
          signalNext,     \* signalNext[j]: the argument
          expired,        \* jobs whose wait ended by the timeout
          ran             \* ran[j]: how often block j has run

vars == <<hasGreenLights, permits, releases, unsignalled, queue, stage, signalNext,
          expired, ran>>

\* direct: submitted under green lights, no wrapper; waiting, granted and enqueued
\* wrappers hold a thread; over: the wrapper has returned.
Stages == {"new", "direct", "queued", "waiting", "granted", "enqueued", "over"}

Init ==
    /\ hasGreenLights = FALSE /\ permits = 1
    /\ releases = 0 /\ unsignalled = 0
    /\ queue = <<>>
    /\ stage = [j \in Jobs |-> "new"]
    /\ signalNext \in [Jobs -> SignalChoices]
    /\ expired = {}
    /\ ran = [j \in Jobs |-> 0]

Working == {j \in Jobs : stage[j] \in {"waiting", "granted", "enqueued"}}
ThreadFree == Cardinality(Working) < Width
MoveTo(j, s) == stage' = [stage EXCEPT ![j] = s]

executeBlock(j) ==
    /\ stage[j] = "new"
    /\ \/ /\ hasGreenLights
          /\ MoveTo(j, "direct") /\ queue' = Append(queue, <<j, "block">>)
       \/ /\ ~hasGreenLights
          /\ MoveTo(j, "queued") /\ queue' = Append(queue, <<j, "wrapper">>)
    /\ UNCHANGED <<hasGreenLights, permits, releases, unsignalled, signalNext, expired, ran>>

\* A thread takes the first item: a wrapper goes to its wait, a block runs.
StartWrapper(j) ==
    /\ ThreadFree /\ queue # <<>> /\ Head(queue) = <<j, "wrapper">>
    /\ queue' = Tail(queue)
    /\ MoveTo(j, "waiting")
    /\ UNCHANGED <<hasGreenLights, permits, releases, unsignalled, signalNext, expired, ran>>

RunBlock(j) ==
    /\ ThreadFree /\ queue # <<>> /\ Head(queue) = <<j, "block">>
    /\ queue' = Tail(queue)
    /\ ran' = [ran EXCEPT ![j] = @ + 1]
    /\ UNCHANGED <<hasGreenLights, permits, releases, unsignalled, stage, signalNext, expired>>

\* Mutant: the wait passes without looking at the permits.
WaitTakesAlways(j) ==
    /\ stage[j] = "waiting"
    /\ permits' = permits - 1
    /\ MoveTo(j, "granted")
    /\ UNCHANGED <<hasGreenLights, releases, unsignalled, queue, signalNext, expired, ran>>

\* Mutant: the wait has no timeout.
WaitForever(j) ==
    /\ stage[j] = "waiting"
    /\ permits > 0 /\ permits' = permits - 1
    /\ MoveTo(j, "granted")
    /\ UNCHANGED <<hasGreenLights, releases, unsignalled, queue, signalNext, expired, ran>>

\* wait() returns with a permit, or without one when the time is over.
WaitEnds(j) ==
    /\ stage[j] = "waiting"
    /\ \/ permits > 0 /\ permits' = permits - 1 /\ UNCHANGED expired
       \/ permits = 0 /\ HasTimeout /\ expired' = expired \cup {j} /\ UNCHANGED permits
    /\ MoveTo(j, "granted")
    /\ UNCHANGED <<hasGreenLights, releases, unsignalled, queue, signalNext, ran>>

\* Mutant: a wrapper that comes back without green lights, on a timeout, drops its block.
EnqueueWhenLit(j) ==
    /\ stage[j] = "granted"
    /\ MoveTo(j, "enqueued")
    /\ queue' = IF hasGreenLights THEN Append(queue, <<j, "block">>) ELSE queue
    /\ UNCHANGED <<hasGreenLights, permits, releases, unsignalled, signalNext, expired, ran>>

EnqueueBlock(j) ==
    /\ stage[j] = "granted"
    /\ MoveTo(j, "enqueued") /\ queue' = Append(queue, <<j, "block">>)
    /\ UNCHANGED <<hasGreenLights, permits, releases, unsignalled, signalNext, expired, ran>>

\* Mutant: the wrapper signals whatever signalNext says.
SignalAlways(j) ==
    /\ stage[j] = "enqueued"
    /\ permits' = permits + 1
    /\ MoveTo(j, "over")
    /\ UNCHANGED <<hasGreenLights, releases, unsignalled, queue, signalNext, expired, ran>>

SignalNext(j) ==
    /\ stage[j] = "enqueued"
    /\ permits' = IF signalNext[j] THEN permits + 1 ELSE permits
    /\ MoveTo(j, "over")
    /\ UNCHANGED <<hasGreenLights, releases, unsignalled, queue, signalNext, expired, ran>>

\* releaseSemaphore: the lights, then the signal.
ReleaseLights ==
    /\ releases < MaxReleases
    /\ releases' = releases + 1 /\ unsignalled' = unsignalled + 1
    /\ hasGreenLights' = TRUE
    /\ UNCHANGED <<permits, queue, stage, signalNext, expired, ran>>

ReleaseSignals ==
    /\ unsignalled > 0
    /\ unsignalled' = unsignalled - 1 /\ permits' = permits + 1
    /\ UNCHANGED <<hasGreenLights, releases, queue, stage, signalNext, expired, ran>>

JobStep(j) == \/ executeBlock(j) \/ StartWrapper(j) \/ RunBlock(j)
              \/ WaitEnds(j) \/ EnqueueBlock(j) \/ SignalNext(j)

Next == (\E j \in Jobs : JobStep(j)) \/ ReleaseLights \/ ReleaseSignals

Spec == Init /\ [][Next]_vars

\* The queue starts its items while it has threads, a thread goes on, and a timeout
\* expires.  Submitting and releasing are up to the application.
Fairness ==
    /\ \A j \in Jobs : /\ WF_vars(StartWrapper(j)) /\ WF_vars(RunBlock(j))
                       /\ WF_vars(WaitEnds(j)) /\ WF_vars(EnqueueBlock(j))
                       /\ WF_vars(SignalNext(j))
    /\ WF_vars(ReleaseSignals)

FairSpec == Spec /\ Fairness
-----------------------------------------------------------------------------
(* Properties                                                              *)

\* The variables stay in the ranges the code's types give them.
TypeOK ==
    /\ hasGreenLights \in BOOLEAN /\ permits \in Nat
    /\ releases \in 0..MaxReleases /\ unsignalled \in 0..releases
    /\ queue \in Seq(Jobs \X {"wrapper", "block"})
    /\ stage \in [Jobs -> Stages]
    /\ signalNext \in [Jobs -> SignalChoices]
    /\ expired \subseteq Jobs
    /\ ran \in [Jobs -> Nat]

\* The semaphore: every permit is free, held by a wrapper, or kept by one that does not
\* signal; more than one exists only through releases and through wrappers that timed
\* out and signalled all the same.
Held  == {j \in Jobs \ expired : stage[j] \in {"granted", "enqueued"}}
Kept  == {j \in Jobs \ expired : stage[j] = "over" /\ ~signalNext[j]}
Minted == {j \in expired : stage[j] = "over" /\ signalNext[j]}

PermitAccounting ==
    permits + Cardinality(Held) + Cardinality(Kept)
       = 1 + (releases - unsignalled) + Cardinality(Minted)

\* The gate does not lock up.  A free thread takes the first item, and the wrapper on a
\* thread goes on; a wait needs a permit or the timeout.  While a submitted block has not
\* run one of these can happen, unless a wrapper that does not signal has kept a permit
\* and there is no timeout: threads full of waiting wrappers starve nobody for good.
CanGoOn(j) == \/ stage[j] = "waiting" /\ (permits > 0 \/ HasTimeout)
              \/ stage[j] \in {"granted", "enqueued"}

NeverStuck ==
    (HasTimeout \/ Kept = {}) =>
       \A j \in Jobs : (stage[j] # "new" /\ ran[j] = 0)
                         => (ThreadFree /\ queue # <<>>) \/ \E d \in Jobs : CanGoOn(d)

\* executeBlock promises what BlockExecutor does: each block runs once, and each does,
\* whether or not the lights are ever given (the timeout sees to it).
BlockState(j) == CASE stage[j] = "new" -> "new"
                   [] stage[j] # "new" /\ ran[j] = 0 -> "submitted"
                   [] stage[j] # "new" /\ ran[j] = 1 -> "ran"
                   [] OTHER -> "ranAgain"

Executor == INSTANCE BlockExecutor WITH block <- [j \in Jobs |-> BlockState(j)]

RefinesExecutor == Executor!ExecutorSpec

\* README "Using Semaphore": queued requests run once given the green lights.
HeldUntilGreenLights == \A j \in Jobs : ran[j] > 0 => hasGreenLights
=============================================================================
