--------------------------- MODULE ApplicationProofs ---------------------------
(***************************************************************************)
(* The composed application: every step of it is a step of AwesomeNetwork  *)
(* and of the gate, so what is proved of them alone holds of them together *)
(* with the threads and the uploads they share, and cancelAllRequests      *)
(* reaches both managers.                                                  *)
(***************************************************************************)
EXTENDS Application, TrackingProofs, ContractProofs, QueueFacts

-----------------------------------------------------------------------------
(* The gate                                                                *)

\* The gate starts in its types.
LEMMA GateInitTypes == Gate!Init => Gate!TypeOK
<1> SUFFICES ASSUME Gate!Init PROVE Gate!TypeOK
  OBVIOUS
<1>1. queue \in Seq(Attempts \X {"wrapper", "block"})
  BY DEF Gate!Init
<1>2. releases \in 0..MaxReleases /\ unsignalled \in 0..releases
  BY ApplicationAssumption DEF Gate!Init
<1> QED
  BY <1>1, <1>2 DEF Gate!Init, Gate!TypeOK, Gate!Stages

\* Its own steps keep them.
LEMMA GateNextTypes == Gate!TypeOK /\ [Gate!Next]_(Gate!vars) => Gate!TypeOK'
<1> SUFFICES ASSUME Gate!TypeOK, [Gate!Next]_(Gate!vars) PROVE Gate!TypeOK'
  OBVIOUS
<1>1. ASSUME NEW j \in Attempts, Gate!JobStep(j) PROVE Gate!TypeOK'
  <2> USE DEF Gate!TypeOK, Gate!Stages, Gate!MoveTo
  <2>1. CASE Gate!executeBlock(j)
    <3>1. queue' \in Seq(Attempts \X {"wrapper", "block"})
      <4>1. \A kind \in {"wrapper", "block"} :
               Append(queue, <<j, kind>>) \in Seq(Attempts \X {"wrapper", "block"})
        OBVIOUS
      <4> QED
        BY <2>1, <4>1 DEF Gate!executeBlock
    <3>2. stage' \in [Attempts -> Gate!Stages]
      BY <2>1 DEF Gate!executeBlock
    <3> QED
      BY <2>1, <3>1, <3>2 DEF Gate!executeBlock
  <2>2. CASE Gate!StartWrapper(j)
    BY <2>2 DEF Gate!StartWrapper
  <2>3. CASE Gate!RunBlock(j)
    BY <2>3 DEF Gate!RunBlock
  <2>4. CASE Gate!WaitEnds(j)
    BY <2>4 DEF Gate!WaitEnds
  <2>5. CASE Gate!EnqueueBlock(j)
    BY <2>5 DEF Gate!EnqueueBlock
  <2>6. CASE Gate!SignalNext(j)
    BY <2>6 DEF Gate!SignalNext
  <2> QED
    BY <1>1, <2>1, <2>2, <2>3, <2>4, <2>5, <2>6 DEF Gate!JobStep
<1>2. CASE Gate!ReleaseLights
  BY <1>2, ApplicationAssumption DEF Gate!TypeOK, Gate!ReleaseLights
<1>3. CASE Gate!ReleaseSignals
  BY <1>3, ApplicationAssumption DEF Gate!TypeOK, Gate!ReleaseSignals
<1>4. CASE UNCHANGED Gate!vars
  BY <1>4 DEF Gate!TypeOK, Gate!vars
<1> QED
  BY <1>1, <1>2, <1>3, <1>4 DEF Gate!Next

\* The next attempt of a call that has not used up its attempts is within the bound.
LEMMA AttemptFacts ==
    ASSUME IInv, NEW c \in Calls, phase[c] \in {"idle", "gated", "waitRetry"}
    PROVE  Attempt(c) \in Attempts /\ sent[c] \in Nat /\ sent[c] + 1 \in 1..MaxAttempts
<1>1. request[c].retryCount \in Nat /\ request[c].retryCount < MaxAttempts
  BY RequestFacts, ApplicationAssumption DEF IInv, TypeOK, IsRequest
<1>2. sent[c] \in Nat /\ left[c] \in Nat
  BY DEF IInv, TypeOK
<1>3. sent[c] <= request[c].retryCount
  BY <1>1, <1>2 DEF IInv, CallInv
<1> QED
  BY <1>1, <1>2, <1>3, ApplicationAssumption DEF Attempt, Attempts

\* A step of the application is a step of its parts, or none, for each.
LEMMA StepParts ==
    ASSUME IInv, Gate!TypeOK, [AppNext]_appVars
    PROVE  /\ [Next]_vars
           /\ [Gate!Next]_(Gate!vars)
<1> USE DEF gateVars, Gate!vars
<1>1. ASSUME NEW c \in Calls, RequestStep(c)
      PROVE  [Next]_vars /\ [Gate!Next]_(Gate!vars)
  <2>1. Next
    BY <1>1 DEF RequestStep, CallStep, Next
  <2>2. CASE phase'[c] = "gated"
    <3>1. Attempt(c) \in Attempts
      BY <1>1, AttemptFacts DEF RequestStep, RequestData, RetryFires
    <3> QED
      BY <1>1, <2>1, <2>2, <3>1 DEF RequestStep, Handed, Gate!JobStep, Gate!Next
  <2>3. CASE phase'[c] # "gated"
    BY <1>1, <2>1, <2>3 DEF RequestStep, Handed
  <2> QED
    BY <2>2, <2>3
<1>2. ASSUME NEW c \in Calls, AnswerStep(c)
      PROVE  [Next]_vars /\ [Gate!Next]_(Gate!vars)
  BY <1>2 DEF AnswerStep, CallStep, Next
<1>3. ASSUME NEW c \in Calls, GateStarts(c)
      PROVE  [Next]_vars /\ [Gate!Next]_(Gate!vars)
  <2>1. Attempt(c) \in Attempts
    <3>1. PICK kind \in {"wrapper", "block"} : queue # <<>> /\ Head(queue) = <<Attempt(c), kind>>
      BY <1>3 DEF GateStarts, Gate!StartWrapper, Gate!RunBlock
    <3>2. Head(queue) \in Attempts \X {"wrapper", "block"}
      BY <3>1 DEF Gate!TypeOK
    <3> QED
      BY <3>1, <3>2
  <2>2. CASE Gate!StartWrapper(Attempt(c)) /\ UNCHANGED vars
    BY <2>1, <2>2 DEF Gate!JobStep, Gate!Next
  <2>3. CASE Gate!RunBlock(Attempt(c)) /\ Dispatched(c)
    BY <2>1, <2>3 DEF Gate!JobStep, Gate!Next, CallStep, Next
  <2> QED
    BY <1>3, <2>2, <2>3 DEF GateStarts
<1>4. ASSUME \/ \E u \in Uploads : UploadCalled(u) \/ UploadGoesOn(u)
             \/ SweepUploads \/ SweepEnds \/ UNCHANGED appVars
      PROVE  UNCHANGED vars /\ UNCHANGED Gate!vars
  BY <1>4 DEF UploadCalled, UploadGoesOn, SweepUploads, SweepEnds, appVars
<1>5. ASSUME SweepBegins \/ SweepRequestsEnds \/ Controls
      PROVE  Next /\ UNCHANGED Gate!vars
  BY <1>5 DEF SweepBegins, SweepRequestsEnds, Controls, Next
<1>6. ASSUME ReleaseBegins \/ ReleaseEnds
      PROVE  UNCHANGED vars /\ Gate!Next
  BY <1>6 DEF ReleaseBegins, ReleaseEnds, Gate!Next
<1>7. ASSUME NEW j \in Attempts, GateGoesOn(j)
      PROVE  UNCHANGED vars /\ Gate!Next
  BY <1>7 DEF GateGoesOn, Gate!JobStep, Gate!Next
<1> QED
  BY <1>1, <1>2, <1>3, <1>4, <1>5, <1>6, <1>7 DEF AppNext

\* What is inductive of the two parts together.
PartsInv == IInv /\ Gate!TypeOK

LEMMA InitParts == AppInit => PartsInv
BY InitInv, GateInitTypes DEF AppInit, PartsInv

LEMMA NextParts ==
    PartsInv /\ [AppNext]_appVars
       => PartsInv' /\ [Next]_vars /\ [Gate!Next]_(Gate!vars)
BY StepParts, NextInv, GateNextTypes DEF PartsInv

\* The composed application does what AwesomeNetwork does, and its gate what Dispatcher does.
THEOREM PartsKept == AppSafety => Spec /\ Gate!Spec
<1>1. AppInit => Init /\ Gate!Init
  BY DEF AppInit
<1> QED
  BY <1>1, InitParts, NextParts, PTL DEF AppSafety, Spec, Gate!Spec

\* So a caller behind the gate and beside the uploads still gets what its cache rule calls for.
THEOREM ApplicationKeepsContract == AppSafety => RefinesContract
BY PartsKept, ContractKept, PTL

\* Every safety property of AwesomeNetwork proved without the gate and the uploads holds with
\* them: retries, completions, the cache, the tracking of tasks and their cancellation.
THEOREM ApplicationKeepsSafety ==
    AppSafety => /\ [](RetryAccounting /\ DataXorError /\ CacheProvenance)
                 /\ [](NoFinishedTaskTracked /\ UniqueKeyTracked /\ SweepReaches)
                 /\ []SilentOnlyByRestart
                 /\ NothingComesBack /\ CancelOnlyByPeer
<1> USE PartsKept
<1>1. AppSafety => [](RetryAccounting /\ DataXorError /\ CacheProvenance)
  BY RetriesAccounted, CompletionsAnswer, ServedWhatWasFetched, PTL
<1>2. AppSafety => [](NoFinishedTaskTracked /\ UniqueKeyTracked /\ SweepReaches)
  BY NothingStaleTracked, UniqueCallsTracked, SweepCancels, PTL
<1>3. AppSafety => []SilentOnlyByRestart
  BY SilenceNeedsRestart, PTL
<1>4. AppSafety => NothingComesBack /\ CancelOnlyByPeer
  BY NothingReturns, CancelledByPeersOnly, PTL
<1> QED
  BY <1>1, <1>2, <1>3, <1>4
-----------------------------------------------------------------------------
(* The gate inside the application                                         *)

\* Without a permit there is a wrapper that has passed its wait, and will signal; and on
\* the main thread there is at most one wrapper at work.
Passed(j) == stage[j] \in {"granted", "enqueued"}

PermitInv ==
    /\ permits > 0 \/ \E j \in Attempts : Passed(j)
    /\ Confined => \A i, j \in Gate!Working : i = j

GateInv ==
    /\ PartsInv
    /\ Placed(Attempts, queue, stage, ran)
    /\ GateCarriesCalls
    /\ PermitInv

\* Each step of the gate moves the block of its job and no other, and none is lost or
\* doubled on the way.  A block is handed over,
LEMMA GateSubmits ==
    ASSUME Gate!TypeOK, Placed(Attempts, queue, stage, ran), NEW j \in Attempts,
           Gate!executeBlock(j)
    PROVE  /\ Placed(Attempts, queue, stage, ran)'
           /\ \A i \in Attempts :
                 Gate!BlockState(i)' = IF i = j THEN "submitted" ELSE Gate!BlockState(i)
<1>0. /\ queue \in Seq(Items(Attempts))
      /\ stage \in [Attempts -> Gate!Stages] /\ ran \in [Attempts -> Nat]
  BY DEF Gate!TypeOK, Items
<1>1. PICK kind \in {"wrapper", "block"}, s \in {"direct", "queued"} :
         /\ (kind = "wrapper" /\ s = "queued") \/ (kind = "block" /\ s = "direct")
         /\ queue' = Append(queue, <<j, kind>>) /\ stage' = [stage EXCEPT ![j] = s]
  BY DEF Gate!executeBlock, Gate!MoveTo
<1>2. stage[j] = "new" /\ ran' = ran /\ ran[j] = 0
  BY DEF Gate!executeBlock, Placed, Place
<1>3. Placed(Attempts, queue, stage, ran)'
  BY <1>0, <1>1, <1>2, PlacedAppend
<1> QED
  BY <1>0, <1>1, <1>2, <1>3 DEF Gate!BlockState

\* or it runs,
LEMMA GateRuns ==
    ASSUME Gate!TypeOK, Placed(Attempts, queue, stage, ran), NEW j \in Attempts,
           Gate!RunBlock(j)
    PROVE  /\ Placed(Attempts, queue, stage, ran)'
           /\ \A i \in Attempts :
                 Gate!BlockState(i)' = IF i = j THEN "ran" ELSE Gate!BlockState(i)
<1>0. /\ queue \in Seq(Items(Attempts))
      /\ stage \in [Attempts -> Gate!Stages] /\ ran \in [Attempts -> Nat]
  BY DEF Gate!TypeOK, Items
<1>1. /\ queue # <<>> /\ Head(queue) = <<j, "block">> /\ queue' = Tail(queue)
      /\ ran' = [ran EXCEPT ![j] = @ + 1] /\ stage' = stage
  BY DEF Gate!RunBlock
<1>2. /\ stage[j] \in {"direct", "enqueued", "over"} /\ ran[j] = 0
      /\ Placed(Attempts, Tail(queue), stage, [ran EXCEPT ![j] = @ + 1])
  BY <1>0, <1>1, PlacedTakeBlock
<1>3. Placed(Attempts, queue, stage, ran)'
  BY <1>1, <1>2
<1> QED
  BY <1>0, <1>1, <1>2, <1>3 DEF Gate!BlockState

\* or it waits with its wrapper,
LEMMA GateWraps ==
    ASSUME Gate!TypeOK, Placed(Attempts, queue, stage, ran), NEW j \in Attempts,
           \/ Gate!StartWrapper(j) \/ Gate!WaitEnds(j)
           \/ Gate!EnqueueBlock(j) \/ Gate!SignalNext(j)
    PROVE  /\ Placed(Attempts, queue, stage, ran)'
           /\ \A i \in Attempts : Gate!BlockState(i)' = Gate!BlockState(i)
<1> USE DEF Gate!MoveTo
<1>0. /\ queue \in Seq(Items(Attempts))
      /\ stage \in [Attempts -> Gate!Stages] /\ ran \in [Attempts -> Nat]
  BY DEF Gate!TypeOK, Items
<1>1. CASE Gate!StartWrapper(j)
  <2>1. /\ queue # <<>> /\ Head(queue) = <<j, "wrapper">> /\ queue' = Tail(queue)
        /\ stage' = [stage EXCEPT ![j] = "waiting"] /\ ran' = ran
    BY <1>1 DEF Gate!StartWrapper
  <2>2. stage[j] = "queued" /\ Placed(Attempts, queue, stage, ran)'
    BY <1>0, <2>1, PlacedTakeWrapper
  <2> QED
    BY <1>0, <2>1, <2>2 DEF Gate!BlockState
<1>2. CASE Gate!EnqueueBlock(j)
  <2>1. /\ stage[j] = "granted" /\ stage' = [stage EXCEPT ![j] = "enqueued"]
        /\ queue' = Append(queue, <<j, "block">>) /\ ran' = ran
    BY <1>2 DEF Gate!EnqueueBlock
  <2>2. Placed(Attempts, queue, stage, ran)'
    BY <1>0, <2>1, PlacedAppend
  <2> QED
    BY <1>0, <2>1, <2>2 DEF Gate!BlockState
<1>3. CASE Gate!WaitEnds(j) \/ Gate!SignalNext(j)
  <2>1. PICK s \in {"granted", "over"} :
           /\ (stage[j] = "waiting" /\ s = "granted") \/ (stage[j] = "enqueued" /\ s = "over")
           /\ queue' = queue /\ ran' = ran /\ stage' = [stage EXCEPT ![j] = s]
    BY <1>3 DEF Gate!WaitEnds, Gate!SignalNext
  <2>2. Placed(Attempts, queue, stage, ran)'
    BY <1>0, <2>1, PlacedWrapper
  <2> QED
    BY <1>0, <2>1, <2>2 DEF Gate!BlockState
<1> QED
  BY <1>1, <1>2, <1>3

\* or no step of the gate concerns it.
LEMMA GateStays ==
    ASSUME Placed(Attempts, queue, stage, ran), UNCHANGED <<queue, stage, ran>>
    PROVE  /\ Placed(Attempts, queue, stage, ran)'
           /\ \A i \in Attempts : Gate!BlockState(i)' = Gate!BlockState(i)
BY DEF Gate!BlockState

\* Steps of calls that send nothing and neither reach nor leave the gate.
GateQuiet == /\ sent' = sent
             /\ \A c \in Calls : phase'[c] = "gated" <=> phase[c] = "gated"

LEMMA CarriesFrame ==
    ASSUME GateCarriesCalls, GateQuiet,
           \A i \in Attempts : Gate!BlockState(i)' = Gate!BlockState(i)
    PROVE  GateCarriesCalls'
<1>1. \A c \in Calls, n \in 1..MaxAttempts : <<c, n>> \in Attempts
  BY DEF Attempts
<1> QED
  BY <1>1 DEF GateCarriesCalls, GateQuiet

\* A call enters the gate exactly when its next attempt's block is handed over.
LEMMA RequestCarried ==
    ASSUME GateInv, NEW c \in Calls, RequestStep(c)
    PROVE  Placed(Attempts, queue, stage, ran)' /\ GateCarriesCalls'
<1> USE DEF GateInv, PartsInv, IInv, TypeOK
<1>1. /\ phase[c] \in {"idle", "waitRetry"} /\ sent' = sent
      /\ \E p \in {"gated", "done", "dropped"} : phase' = [phase EXCEPT ![c] = p]
  BY ApplicationAssumption DEF RequestStep, RequestData, RetryFires, Perform
<1>2. CASE phase'[c] # "gated"
  <2>1. UNCHANGED <<queue, stage, ran>>
    BY <1>2 DEF RequestStep, Handed, gateVars
  <2>2. GateQuiet
    BY <1>1, <1>2 DEF GateQuiet
  <2> QED
    BY <2>1, <2>2, GateStays, CarriesFrame
<1>3. CASE phase'[c] = "gated"
  <2>1. /\ Attempt(c) \in Attempts /\ sent[c] \in Nat
        /\ Gate!executeBlock(Attempt(c))
    BY <1>1, <1>3, AttemptFacts DEF RequestStep, Handed
  <2>2. /\ Placed(Attempts, queue, stage, ran)'
        /\ \A i \in Attempts : Gate!BlockState(i)' =
              IF i = Attempt(c) THEN "submitted" ELSE Gate!BlockState(i)
    BY <2>1, GateSubmits
  <2>3. ASSUME NEW d \in Calls, NEW n \in 1..MaxAttempts
        PROVE  Gate!BlockState(<<d, n>>)' =
                  CASE n <= sent'[d]                            -> "ran"
                    [] n = sent'[d] + 1 /\ phase'[d] = "gated"  -> "submitted"
                    [] OTHER                                    -> "new"
    <3>1. <<d, n>> \in Attempts /\ (<<d, n>> = Attempt(c) <=> d = c /\ n = sent[c] + 1)
      BY DEF Attempts, Attempt
    <3>2. Gate!BlockState(<<d, n>>) =
             CASE n <= sent[d]                           -> "ran"
               [] n = sent[d] + 1 /\ phase[d] = "gated"  -> "submitted"
               [] OTHER                                  -> "new"
      BY DEF GateCarriesCalls
    <3>3. Gate!BlockState(<<d, n>>)' =
             IF d = c /\ n = sent[c] + 1 THEN "submitted" ELSE Gate!BlockState(<<d, n>>)
      BY <2>2, <3>1
    <3>4. phase[c] # "gated" /\ \A e \in Calls \ {c} : phase'[e] = phase[e]
      BY <1>1
    <3> QED
      BY <1>1, <1>3, <2>1, <3>2, <3>3, <3>4
  <2> QED
    BY <2>2, <2>3 DEF GateCarriesCalls
<1> QED
  BY <1>2, <1>3

\* What the gate's queue runs is an attempt.
LEMMA StartedAttempt ==
    ASSUME Gate!TypeOK, NEW c \in Calls, GateStarts(c)
    PROVE  Attempt(c) \in Attempts
<1>1. PICK kind \in {"wrapper", "block"} : queue # <<>> /\ Head(queue) = <<Attempt(c), kind>>
  BY DEF GateStarts, Gate!StartWrapper, Gate!RunBlock
<1>2. Head(queue) \in Attempts \X {"wrapper", "block"}
  BY <1>1 DEF Gate!TypeOK
<1> QED
  BY <1>1, <1>2

\* It leaves the gate exactly when that block runs, which sends the attempt.
LEMMA StartCarried ==
    ASSUME GateInv, NEW c \in Calls, GateStarts(c)
    PROVE  Placed(Attempts, queue, stage, ran)' /\ GateCarriesCalls'
<1> USE DEF GateInv, PartsInv, IInv, TypeOK
<1>0. Attempt(c) \in Attempts
  BY StartedAttempt
<1>1. CASE Gate!StartWrapper(Attempt(c)) /\ UNCHANGED vars
  <2>1. GateQuiet
    BY <1>1 DEF GateQuiet, vars, callVars
  <2> QED
    BY <1>0, <1>1, <2>1, GateWraps, CarriesFrame
<1>2. CASE Gate!RunBlock(Attempt(c)) /\ Dispatched(c)
  <2>1. /\ phase[c] = "gated" /\ phase' = [phase EXCEPT ![c] = "running"]
        /\ sent' = [sent EXCEPT ![c] = @ + 1]
    BY <1>2 DEF Dispatched, Send
  <2>2. /\ Placed(Attempts, queue, stage, ran)'
        /\ \A i \in Attempts : Gate!BlockState(i)' =
              IF i = Attempt(c) THEN "ran" ELSE Gate!BlockState(i)
    BY <1>0, <1>2, GateRuns
  <2>3. ASSUME NEW d \in Calls, NEW n \in 1..MaxAttempts
        PROVE  Gate!BlockState(<<d, n>>)' =
                  CASE n <= sent'[d]                            -> "ran"
                    [] n = sent'[d] + 1 /\ phase'[d] = "gated"  -> "submitted"
                    [] OTHER                                    -> "new"
    <3>1. <<d, n>> \in Attempts /\ (<<d, n>> = Attempt(c) <=> d = c /\ n = sent[c] + 1)
      BY DEF Attempts, Attempt
    <3>2. Gate!BlockState(<<d, n>>) =
             CASE n <= sent[d]                           -> "ran"
               [] n = sent[d] + 1 /\ phase[d] = "gated"  -> "submitted"
               [] OTHER                                  -> "new"
      BY DEF GateCarriesCalls
    <3>3. Gate!BlockState(<<d, n>>)' =
             IF d = c /\ n = sent[c] + 1 THEN "ran" ELSE Gate!BlockState(<<d, n>>)
      BY <2>2, <3>1
    <3>4. /\ sent[c] \in Nat /\ sent'[c] = sent[c] + 1 /\ phase'[c] = "running"
          /\ \A e \in Calls \ {c} : sent'[e] = sent[e] /\ phase'[e] = phase[e]
      BY <2>1
    <3>5. CASE d = c
      BY <3>2, <3>3, <3>4, <3>5
    <3>6. CASE d # c
      BY <3>2, <3>3, <3>4, <3>6
    <3> QED
      BY <3>5, <3>6
  <2> QED
    BY <2>2, <2>3 DEF GateCarriesCalls
<1> QED
  BY <1>1, <1>2 DEF GateStarts

\* No other step moves a call through the gate.
LEMMA NextCarried ==
    ASSUME GateInv, [AppNext]_appVars
    PROVE  Placed(Attempts, queue, stage, ran)' /\ GateCarriesCalls'
<1> USE DEF GateInv, PartsInv, IInv, TypeOK
<1>1. ASSUME NEW c \in Calls, AnswerStep(c) PROVE GateQuiet /\ UNCHANGED gateVars
  <2>1. /\ sent' = sent /\ phase[c] # "gated"
        /\ \E p \in Phases \ {"gated"} : phase' = [phase EXCEPT ![c] = p]
    BY <1>1 DEF AnswerStep, SessionAnswers, HandlerRemoves, HandlerCompletes, Phases
  <2> QED
    BY <1>1, <2>1 DEF AnswerStep, GateQuiet
<1>2. ASSUME \/ \E u \in Uploads : UploadCalled(u) \/ UploadGoesOn(u)
             \/ SweepBegins \/ SweepRequestsEnds \/ SweepUploads \/ SweepEnds \/ Controls
             \/ UNCHANGED appVars
      PROVE  GateQuiet /\ UNCHANGED gateVars
  BY <1>2 DEF UploadCalled, UploadGoesOn, SweepBegins, CancelAllBegins, SweepRequestsEnds,
              CancelAllEnds, SweepUploads, SweepEnds, Controls, clearCache, start, appVars,
              vars, callVars, GateQuiet
<1>3. ASSUME ReleaseBegins \/ ReleaseEnds
      PROVE  GateQuiet /\ UNCHANGED <<queue, stage, ran>>
  BY <1>3 DEF ReleaseBegins, ReleaseEnds, Gate!ReleaseLights, Gate!ReleaseSignals, vars,
              callVars, GateQuiet
<1>4. ASSUME NEW j \in Attempts, GateGoesOn(j)
      PROVE  Placed(Attempts, queue, stage, ran)' /\ GateCarriesCalls'
  <2>1. GateQuiet
    BY <1>4 DEF GateGoesOn, vars, callVars, GateQuiet
  <2> QED
    BY <1>4, <2>1, GateWraps, CarriesFrame DEF GateGoesOn
<1>5. ASSUME GateQuiet, UNCHANGED <<queue, stage, ran>>
      PROVE  Placed(Attempts, queue, stage, ran)' /\ GateCarriesCalls'
  BY <1>5, GateStays, CarriesFrame
<1> HIDE DEF GateInv
<1> QED
  BY <1>1, <1>2, <1>3, <1>4, <1>5, RequestCarried, StartCarried DEF AppNext, gateVars

\* A step that moves one wrapper: another one that has passed its wait stays where it is.
LEMMA OthersStay ==
    ASSUME Gate!TypeOK, NEW j \in Attempts, NEW s \in Gate!Stages, Gate!MoveTo(j, s)
    PROVE  /\ \A i \in Attempts : i # j => (Passed(i)' <=> Passed(i))
           /\ stage'[j] = s
           /\ \A i \in Attempts : i # j => (i \in Gate!Working' <=> i \in Gate!Working)
           /\ j \in Gate!Working' <=> s \in {"waiting", "granted", "enqueued"}
<1>1. stage \in [Attempts -> Gate!Stages] /\ stage' = [stage EXCEPT ![j] = s]
  BY DEF Gate!TypeOK, Gate!MoveTo
<1>2. stage'[j] = s /\ \A i \in Attempts : i # j => stage'[i] = stage[i]
  BY <1>1
<1> QED
  BY <1>2 DEF Passed, Gate!Working

\* A wrapper that takes the last permit is one that has passed its wait, and brings it back;
\* on the main thread it starts when none is at work.
LEMMA NextPermits == GateInv /\ [AppNext]_appVars => PermitInv'
<1> SUFFICES ASSUME GateInv, [AppNext]_appVars PROVE PermitInv'
  OBVIOUS
<1>0. /\ Gate!TypeOK /\ permits \in Nat /\ signalNext \in [Attempts -> {TRUE}]
      /\ {"direct", "queued", "waiting", "granted", "enqueued", "over"} \subseteq Gate!Stages
      /\ Gate!Working \subseteq Attempts /\ Gate!Working' \subseteq Attempts
  BY DEF GateInv, PartsInv, Gate!TypeOK, SignalNexts, Gate!Stages, Gate!Working
<1>1. PermitInv
  BY DEF GateInv
<1>2. ASSUME stage' = stage, permits' \in Nat, permits' >= permits
      PROVE  PermitInv'
  BY <1>0, <1>1, <1>2 DEF PermitInv, Passed, Gate!Working
<1>3. ASSUME NEW c \in Calls, RequestStep(c) PROVE PermitInv'
  <2>1. CASE UNCHANGED gateVars
    BY <1>0, <1>2, <2>1 DEF gateVars
  <2>2. CASE Gate!executeBlock(Attempt(c))
    <3>1. PICK s \in {"direct", "queued"} : Gate!MoveTo(Attempt(c), s)
      BY <2>2 DEF Gate!executeBlock
    <3>2. /\ stage[Attempt(c)] = "new" /\ permits' = permits
          /\ Attempt(c) \in Attempts
      <4>1. phase[c] \in {"idle", "waitRetry"}
        BY <1>3 DEF RequestStep, RequestData, RetryFires
      <4> QED
        BY <2>2, <4>1, AttemptFacts DEF Gate!executeBlock, GateInv, PartsInv
    <3>3. ~Passed(Attempt(c))
      BY <3>2 DEF Passed
    <3> QED
      BY <1>0, <1>1, <3>1, <3>2, <3>3, OthersStay DEF PermitInv
  <2> QED
    BY <1>3, <2>1, <2>2 DEF RequestStep, Handed
<1>4. ASSUME NEW c \in Calls, GateStarts(c) PROVE PermitInv'
  <2>1. CASE Gate!RunBlock(Attempt(c))
    BY <1>0, <1>2, <2>1 DEF Gate!RunBlock
  <2>2. CASE Gate!StartWrapper(Attempt(c))
    <3>1. /\ Gate!MoveTo(Attempt(c), "waiting") /\ permits' = permits
          /\ Attempt(c) \in Attempts
      BY <1>0, <1>4, <2>2, StartedAttempt DEF Gate!StartWrapper
    <3>2. ~Passed(Attempt(c))
      <4>1. queue \in Seq(Items(Attempts)) /\ stage \in [Attempts -> Gate!Stages]
        BY <1>0 DEF Gate!TypeOK, Items
      <4>2. stage[Attempt(c)] = "queued"
        BY <2>2, <3>1, <4>1, PlacedTakeWrapper DEF Gate!StartWrapper, GateInv
      <4> QED
        BY <4>2 DEF Passed
    <3>3. Confined => Gate!Working = {}
      BY <1>4 DEF GateStarts, MainIdle
    <3> QED
      BY <1>0, <1>1, <3>1, <3>2, <3>3, OthersStay DEF PermitInv
  <2> QED
    BY <1>4, <2>1, <2>2 DEF GateStarts
<1>5. ASSUME NEW j \in Attempts, GateGoesOn(j) PROVE PermitInv'
  <2>1. j \in Gate!Working
    BY <1>5 DEF GateGoesOn, Gate!WaitEnds, Gate!EnqueueBlock, Gate!SignalNext, Gate!Working
  <2>2. CASE Gate!WaitEnds(j) \/ Gate!EnqueueBlock(j)
    <3>1. PICK s \in {"granted", "enqueued"} : Gate!MoveTo(j, s)
      BY <2>2 DEF Gate!WaitEnds, Gate!EnqueueBlock
    <3>2. stage'[j] = s
      BY <1>0, <3>1, OthersStay
    <3>3. Passed(j)'
      BY <3>2 DEF Passed
    <3> QED
      BY <1>0, <1>1, <2>1, <3>1, <3>3, OthersStay DEF PermitInv
  <2>3. CASE Gate!SignalNext(j)
    <3>1. Gate!MoveTo(j, "over") /\ permits' = permits + 1
      BY <1>0, <2>3 DEF Gate!SignalNext
    <3> QED
      BY <1>0, <1>1, <3>1, OthersStay DEF PermitInv
  <2> QED
    BY <1>5, <2>2, <2>3 DEF GateGoesOn
<1>6. ASSUME ReleaseBegins \/ ReleaseEnds PROVE PermitInv'
  <2>1. stage' = stage /\ permits' \in {permits, permits + 1}
    BY <1>6 DEF ReleaseBegins, ReleaseEnds, Gate!ReleaseLights, Gate!ReleaseSignals
  <2> QED
    BY <1>0, <1>2, <2>1
<1>7. ASSUME UNCHANGED gateVars PROVE PermitInv'
  BY <1>0, <1>2, <1>7 DEF gateVars
<1>8. ASSUME \/ \E c \in Calls : AnswerStep(c)
             \/ \E u \in Uploads : UploadCalled(u) \/ UploadGoesOn(u)
             \/ SweepBegins \/ SweepRequestsEnds \/ SweepUploads \/ SweepEnds \/ Controls
             \/ UNCHANGED appVars
      PROVE  UNCHANGED gateVars
  BY <1>8 DEF AnswerStep, UploadCalled, UploadGoesOn, SweepBegins, SweepRequestsEnds,
              SweepUploads, SweepEnds, Controls, appVars
<1> QED
  BY <1>3, <1>4, <1>5, <1>6, <1>7, <1>8 DEF AppNext

\* Nothing is at the gate at first, and the permit is there.
LEMMA InitGate == AppInit => GateInv
<1> SUFFICES ASSUME AppInit PROVE GateInv
  OBVIOUS
<1>1. /\ stage = [j \in Attempts |-> "new"] /\ ran = [j \in Attempts |-> 0]
      /\ queue = <<>> /\ permits = 1
  BY DEF AppInit, Gate!Init
<1>2. Placed(Attempts, queue, stage, ran)
  BY <1>1, PlacedFirst
<1>3. GateCarriesCalls
  <2>1. \A c \in Calls : phase[c] = "idle" /\ sent[c] = 0
    BY DEF AppInit, Init
  <2>2. \A c \in Calls, n \in 1..MaxAttempts : Gate!BlockState(<<c, n>>) = "new"
    BY <1>1 DEF Gate!BlockState, Attempts
  <2> SUFFICES ASSUME NEW c \in Calls, NEW n \in 1..MaxAttempts
               PROVE  ~(n <= sent[c]) /\ phase[c] # "gated"
    BY <2>2 DEF GateCarriesCalls
  <2> QED
    BY <2>1, ApplicationAssumption
<1>4. PermitInv
  BY <1>1 DEF PermitInv, Gate!Working
<1> QED
  BY <1>2, <1>3, <1>4, InitParts DEF GateInv

LEMMA NextGate == GateInv /\ [AppNext]_appVars => GateInv'
BY NextParts, NextCarried, NextPermits DEF GateInv

\* The inductive invariant of the gate inside the application.
THEOREM GateInvariance == AppSafety => []GateInv
BY InitGate, NextGate, PTL DEF AppSafety

\* The gate carries the attempts of each call one after the other: what has been sent has
\* run, and only what a gated call waits for is in the gate.
THEOREM GateCarries == AppSafety => []GateCarriesCalls
<1>1. GateInv => GateCarriesCalls
  BY DEF GateInv
<1> QED
  BY <1>1, GateInvariance, PTL

\* On the main thread a wrapper's wait always finds a permit: it blocks nothing.
THEOREM MainThreadNeverHeld == AppSafety => []MainNeverHeld
<1>1. GateInv => MainNeverHeld
  <2> SUFFICES ASSUME GateInv, Confined, NEW j \in Attempts, stage[j] = "waiting"
               PROVE  permits > 0
    BY DEF MainNeverHeld
  <2>1. \A i \in Attempts : Passed(i) => i = j
    BY DEF GateInv, PermitInv, Passed, Gate!Working
  <2> QED
    BY <2>1 DEF GateInv, PermitInv, Passed
<1> QED
  BY <1>1, GateInvariance, PTL
-----------------------------------------------------------------------------
(* The uploads                                                             *)

\* An upload that has a task has something to send, and somewhere to send it.
Sendable(u) == argument[u].body # NoBody /\ argument[u].key \in Keys

\* Confined: an upload alone on its path is tracked until its handler runs or it is cancelled.
UploadTracked(u) ==
    (Uploading!Sending(u) /\ Uploading!OwnPath(u) /\ u \notin uploadCancelled)
       => uploadQueue[Uploading!UploadSlot(u)] = u

UploadInv ==
    /\ Uploading!UploadTypeOK
    /\ \A u \in Uploads : uploadStage[u] \in {"running", "answered", "handling"} => Sendable(u)
    /\ \A u \in Uploads : uploadStage[u] \in {"answered", "handling"}
                              => ending[u] \in Uploading!Endings
    /\ Confined => \A u \in Uploads : UploadTracked(u)

\* An upload's slot is one, and no other sendable upload has it if it is alone on its path.
LEMMA UploadSlotFacts ==
    ASSUME NEW u \in Uploads, Sendable(u)
    PROVE  /\ Uploading!UploadSlot(u) \in Uploading!Slots /\ u # NoTask
           /\ \A v \in Uploads \ {u} : Uploading!OwnPath(v)
                 => Uploading!UploadSlot(v) # Uploading!UploadSlot(u)
BY ApplicationAssumption DEF Sendable, Uploading!UploadSlot, Uploading!Slots, Uploading!OwnPath

\* The first uploads are idle.
LEMMA InitUpload == AppInit => UploadInv
<1> SUFFICES ASSUME AppInit PROVE UploadInv
  OBVIOUS
<1> USE DEF AppInit, Uploading!UploadInit
<1>1. Uploading!UploadTypeOK
  <2>1. argument \in [Uploads -> Uploading!Argument]
    BY ApplicationAssumption
  <2> QED
    BY <2>1 DEF Uploading!ManagerInit, Uploading!UploadTypeOK, Uploading!UploadStages
<1>2. \A u \in Uploads : uploadStage[u] = "idle"
  OBVIOUS
<1> QED
  BY <1>1, <1>2 DEF UploadInv, UploadTracked, Uploading!Sending

\* upload: a new task replaces at most one of an upload to the same path.
LEMMA UploadCalledKeeps ==
    ASSUME UploadInv, NEW u \in Uploads, UploadCalled(u)
    PROVE  UploadInv'
<1> USE DEF UploadInv, Uploading!UploadTypeOK, Uploading!Advance
<1>1. /\ uploadStage[u] = "idle" /\ argument' = argument /\ ending' = ending
      /\ uploadCancelled' = uploadCancelled /\ uploadSweeping' = uploadSweeping
      /\ \/ /\ uploadStage' = [uploadStage EXCEPT ![u] = "over"]
            /\ uploadQueue' = uploadQueue
            /\ \E r \in Uploading!Told : reply' = [reply EXCEPT ![u] = r]
         \/ /\ argument[u].body # NoBody /\ argument[u].key # BadUrl /\ reply' = reply
            /\ uploadStage' = [uploadStage EXCEPT ![u] = "running"]
            /\ Uploading!Store([uploadQueue EXCEPT ![Uploading!UploadSlot(u)] = u])
  BY DEF UploadCalled, Uploading!upload, Uploading!addRequest, Uploading!managerVars,
         Uploading!Told
<1>2. CASE /\ uploadStage' = [uploadStage EXCEPT ![u] = "over"]
           /\ uploadQueue' = uploadQueue
           /\ \E r \in Uploading!Told : reply' = [reply EXCEPT ![u] = r]
  <2>1. /\ uploadStage' \in [Uploads -> Uploading!UploadStages]
        /\ reply' \in [Uploads -> Uploading!Told \cup {NoReply}]
    BY <1>2 DEF Uploading!UploadStages
  <2>2. /\ uploadStage'[u] = "over"
        /\ \A v \in Uploads \ {u} : uploadStage'[v] = uploadStage[v]
    BY <1>2
  <2>3. Uploading!UploadTypeOK'
    BY <1>1, <1>2, <2>1
  <2> QED
    BY <1>1, <1>2, <2>2, <2>3
       DEF Sendable, UploadTracked, Uploading!Sending, Uploading!OwnPath, Uploading!UploadSlot
<1>3. CASE /\ argument[u].body # NoBody /\ argument[u].key # BadUrl /\ reply' = reply
           /\ uploadStage' = [uploadStage EXCEPT ![u] = "running"]
           /\ Uploading!Store([uploadQueue EXCEPT ![Uploading!UploadSlot(u)] = u])
  <2>1. Sendable(u)
    <3>1. argument[u] \in Uploading!Argument
      <4>1. argument \in [Uploads -> Uploading!Argument]
        BY ApplicationAssumption DEF UploadInv, Uploading!UploadTypeOK
      <4> QED
        BY <4>1
    <3> QED
      BY <1>3, <3>1 DEF Sendable, Uploading!Argument
  <2>2. /\ uploadStage' \in [Uploads -> Uploading!UploadStages]
        /\ uploadStage'[u] = "running"
        /\ \A v \in Uploads \ {u} : uploadStage'[v] = uploadStage[v]
    BY <1>3 DEF Uploading!UploadStages
  <2>3. uploadQueue' \in [Uploading!Slots -> Uploads \cup {NoTask}]
    BY <1>3, <2>1, UploadSlotFacts DEF Uploading!Store
  <2>4. Uploading!UploadTypeOK'
    BY <1>1, <1>3, <2>2, <2>3
  <2>5. ASSUME Confined, NEW v \in Uploads PROVE UploadTracked(v)'
    <3>1. uploadQueue' = [uploadQueue EXCEPT ![Uploading!UploadSlot(u)] = u]
      BY <1>3, <2>5 DEF Uploading!Store
    <3>2. CASE v = u
      <4>1. uploadQueue'[Uploading!UploadSlot(u)] = u
        BY <2>1, <3>1, UploadSlotFacts
      <4> QED
        BY <1>1, <3>2, <4>1 DEF UploadTracked, Uploading!UploadSlot
    <3>3. CASE v # u
      <4>1. ASSUME Uploading!Sending(v), Uploading!OwnPath(v), v \notin uploadCancelled
            PROVE  uploadQueue'[Uploading!UploadSlot(v)] = v
        <5>1. Sendable(v) /\ uploadQueue[Uploading!UploadSlot(v)] = v
          BY <2>5, <4>1 DEF UploadTracked, Uploading!Sending
        <5>2. Uploading!UploadSlot(v) \in Uploading!Slots
          BY <5>1, UploadSlotFacts
        <5>3. Uploading!UploadSlot(v) # Uploading!UploadSlot(u)
          BY <2>1, <3>3, <4>1, UploadSlotFacts
        <5> QED
          BY <3>1, <5>1, <5>2, <5>3
      <4>2. Uploading!Sending(v)' <=> Uploading!Sending(v)
        BY <2>2, <3>3 DEF Uploading!Sending
      <4>3. /\ Uploading!OwnPath(v)' <=> Uploading!OwnPath(v)
            /\ Uploading!UploadSlot(v)' = Uploading!UploadSlot(v)
        BY <1>1 DEF Uploading!OwnPath, Uploading!UploadSlot
      <4> QED
        BY <1>1, <4>1, <4>2, <4>3 DEF UploadTracked
    <3> QED
      BY <3>2, <3>3
  <2>6. \A v \in Uploads : uploadStage'[v] \in {"running", "answered", "handling"}
                              => Sendable(v)'
    BY <1>1, <2>1, <2>2 DEF Sendable
  <2>7. \A v \in Uploads : uploadStage'[v] \in {"answered", "handling"}
                              => ending'[v] \in Uploading!Endings
    BY <1>1, <2>2
  <2> QED
    BY <2>4, <2>5, <2>6, <2>7
<1> QED
  BY <1>1, <1>2, <1>3

\* An upload that ends, is forgotten, and tells its completion disturbs no other.
LEMMA UploadGoesOnKeeps ==
    ASSUME UploadInv, NEW u \in Uploads, UploadGoesOn(u)
    PROVE  UploadInv'
<1> USE DEF UploadInv, Uploading!UploadTypeOK, Uploading!Advance
<1>1. /\ argument' = argument
      /\ uploadCancelled' = uploadCancelled /\ uploadSweeping' = uploadSweeping
      /\ uploadStage[u] \in {"running", "answered", "handling"}
      /\ \E s \in Uploading!UploadStages : uploadStage' = [uploadStage EXCEPT ![u] = s]
      /\ ending' \in [Uploads -> Uploading!Endings \cup {NoReply}]
      /\ reply' \in [Uploads -> Uploading!Told \cup {NoReply}]
  <2>1. CASE Uploading!UploadEnds(u)
    BY <2>1 DEF Uploading!UploadEnds, Uploading!managerVars, Uploading!UploadStages,
                Uploading!Endings
  <2>2. CASE Uploading!UploadRemoves(u)
    BY <2>2 DEF Uploading!UploadRemoves, Uploading!removeRequest, Uploading!UploadStages
  <2>3. CASE Uploading!UploadCompletes(u)
    <3>1. reply' \in [Uploads -> Uploading!Told \cup {NoReply}]
      <4>1. uploadStage[u] = "handling" /\ ending[u] \in Uploading!Endings
        BY <2>3 DEF Uploading!UploadCompletes
      <4> QED
        BY <2>3, <4>1 DEF Uploading!UploadCompletes, Uploading!Told, Uploading!Endings
    <3> QED
      BY <2>3, <3>1 DEF Uploading!UploadCompletes, Uploading!managerVars,
                        Uploading!UploadStages
  <2> QED
    BY <2>1, <2>2, <2>3 DEF UploadGoesOn
<1>2. Sendable(u)
  BY <1>1
<1>3. /\ uploadStage' \in [Uploads -> Uploading!UploadStages]
      /\ \A v \in Uploads \ {u} : uploadStage'[v] = uploadStage[v]
      /\ Uploading!Sending(u)' => Uploading!UploadEnds(u)
  <2>1. Uploading!UploadRemoves(u) => uploadStage'[u] = "handling"
    BY DEF Uploading!UploadRemoves
  <2>2. Uploading!UploadCompletes(u) => uploadStage'[u] = "over"
    BY DEF Uploading!UploadCompletes
  <2> QED
    BY <1>1, <2>1, <2>2 DEF UploadGoesOn, Uploading!Sending
<1>4. \/ uploadQueue' = uploadQueue
      \/ /\ ~Uploading!UploadEnds(u) \/ uploadQueue' = uploadQueue
         /\ uploadQueue' = [uploadQueue EXCEPT ![Uploading!UploadSlot(u)] = NoTask]
  BY DEF UploadGoesOn, Uploading!UploadEnds, Uploading!UploadRemoves, Uploading!UploadCompletes,
         Uploading!removeRequest, Uploading!Store, Uploading!managerVars
<1>5. Uploading!UploadTypeOK'
  <2>1. uploadQueue' \in [Uploading!Slots -> Uploads \cup {NoTask}]
    BY <1>2, <1>4, UploadSlotFacts
  <2> QED
    BY <1>1, <1>3, <2>1
<1>6. ASSUME Confined, NEW v \in Uploads PROVE UploadTracked(v)'
  <2>1. /\ Uploading!OwnPath(v)' <=> Uploading!OwnPath(v)
        /\ Uploading!UploadSlot(v)' = Uploading!UploadSlot(v)
    BY <1>1 DEF Uploading!OwnPath, Uploading!UploadSlot
  <2>2. Uploading!Sending(v)' => Uploading!Sending(v) /\ (v = u => uploadQueue' = uploadQueue)
    <3>1. CASE v = u
      BY <1>3, <3>1 DEF Uploading!UploadEnds, Uploading!Sending, Uploading!managerVars
    <3>2. CASE v # u
      BY <1>3, <3>2 DEF Uploading!Sending
    <3> QED
      BY <3>1, <3>2
  <2>3. ASSUME Uploading!Sending(v)', Uploading!OwnPath(v), v \notin uploadCancelled
        PROVE  uploadQueue'[Uploading!UploadSlot(v)] = v
    <3>1. uploadQueue[Uploading!UploadSlot(v)] = v /\ Sendable(v)
      BY <1>6, <2>2, <2>3 DEF UploadTracked, Uploading!Sending
    <3>2. Uploading!UploadSlot(v) \in Uploading!Slots
      BY <3>1, UploadSlotFacts
    <3>3. v # u => Uploading!UploadSlot(v) # Uploading!UploadSlot(u)
      BY <1>2, <2>3, UploadSlotFacts
    <3> QED
      BY <1>4, <2>2, <2>3, <3>1, <3>2, <3>3
  <2> QED
    BY <1>1, <2>1, <2>3 DEF UploadTracked
<1>7. \A v \in Uploads : uploadStage'[v] \in {"running", "answered", "handling"}
                            => Sendable(v)'
  BY <1>1, <1>2, <1>3 DEF Sendable
<1>8. ASSUME NEW v \in Uploads, uploadStage'[v] \in {"answered", "handling"}
      PROVE  ending'[v] \in Uploading!Endings
  <2>1. CASE v # u
    <3>1. ending'[v] = ending[v] /\ uploadStage'[v] = uploadStage[v]
      BY <1>3, <2>1 DEF UploadGoesOn, Uploading!UploadEnds, Uploading!UploadRemoves,
                        Uploading!UploadCompletes
    <3> QED
      BY <1>8, <3>1
  <2>2. CASE v = u
    <3>1. CASE Uploading!UploadEnds(u)
      BY <2>2, <3>1 DEF Uploading!UploadEnds, Uploading!Endings
    <3>2. CASE Uploading!UploadRemoves(u)
      BY <2>2, <3>2 DEF Uploading!UploadRemoves
    <3>3. CASE Uploading!UploadCompletes(u)
      <4>1. uploadStage'[u] = "over"
        BY <3>3 DEF Uploading!UploadCompletes
      <4> QED
        BY <1>8, <2>2, <4>1
    <3> QED
      BY <3>1, <3>2, <3>3 DEF UploadGoesOn
  <2> QED
    BY <2>1, <2>2
<1> QED
  BY <1>5, <1>6, <1>7, <1>8

\* A step that leaves the uploader alone.
LEMMA UploadFrame == UploadInv /\ UNCHANGED uploaderVars => UploadInv'
BY DEF uploaderVars, UploadInv, Uploading!UploadTypeOK, Sendable, UploadTracked,
       Uploading!Sending, Uploading!OwnPath, Uploading!UploadSlot

\* What the sweep of the uploader's tasks does, one loop and one removeAll.
LEMMA SweepUploadsKeeps ==
    ASSUME UploadInv, SweepUploads
    PROVE  UploadInv' /\ (Confined => UploadsSwept')
<1> USE DEF UploadInv, Uploading!UploadTypeOK
<1> DEFINE tracked == Uploading!Tracked(Uploader)
<1>1. /\ UNCHANGED <<uploadQueue, argument, uploadStage, ending, reply>>
      /\ uploadCancelled' = uploadCancelled \cup tracked
      /\ uploadSweeping' = uploadSweeping \cup {Uploader}
  BY DEF SweepUploads, Uploading!CancelUploadsBegins, Uploading!cancelValues
<1>2. tracked \subseteq Uploads
  <2>1. ASSUME NEW k \in Keys PROVE uploadQueue[<<Uploader, k>>] \in Uploads \cup {NoTask}
    <3>1. <<Uploader, k>> \in Uploading!Slots
      BY ApplicationAssumption DEF Uploading!Slots
    <3> QED
      BY <3>1
  <2> QED
    BY <2>1 DEF Uploading!Tracked
<1>3. UploadInv'
  <2>1. Uploading!UploadTypeOK'
    BY <1>1, <1>2, ApplicationAssumption
  <2>2. \A u \in Uploads : /\ Uploading!Sending(u)' <=> Uploading!Sending(u)
                           /\ Uploading!OwnPath(u)' <=> Uploading!OwnPath(u)
                           /\ Uploading!UploadSlot(u)' = Uploading!UploadSlot(u)
    BY <1>1 DEF Uploading!Sending, Uploading!OwnPath, Uploading!UploadSlot
  <2>3. ASSUME Confined, NEW u \in Uploads PROVE UploadTracked(u)'
    BY <1>1, <2>2, <2>3 DEF UploadTracked
  <2>4. /\ \A u \in Uploads : uploadStage'[u] \in {"running", "answered", "handling"}
                                => Sendable(u)'
        /\ \A u \in Uploads : uploadStage'[u] \in {"answered", "handling"}
                                => ending'[u] \in Uploading!Endings
    BY <1>1 DEF Sendable
  <2> HIDE DEF Uploading!UploadTypeOK
  <2> QED
    BY <2>1, <2>3, <2>4
<1>4. ASSUME Confined, NEW u \in Uploads, Uploading!Sending(u), Uploading!OwnPath(u),
             u \notin uploadCancelled
      PROVE  u \in tracked
  <2>1. Sendable(u) /\ uploadQueue[Uploading!UploadSlot(u)] = u
    BY <1>4 DEF UploadTracked, Uploading!Sending
  <2> QED
    BY <2>1, UploadSlotFacts DEF Uploading!Tracked, Uploading!UploadSlot, Sendable
<1>5. Confined => UploadsSwept'
  <2>1. ASSUME Confined, NEW u \in Uploads, Uploading!Sending(u)', Uploading!OwnPath(u)'
        PROVE  u \in uploadCancelled'
    <3>1. Uploading!Sending(u) /\ Uploading!OwnPath(u)
      BY <1>1, <2>1 DEF Uploading!Sending, Uploading!OwnPath
    <3> HIDE DEF tracked
    <3> QED
      BY <1>1, <1>4, <2>1, <3>1
  <2> QED
    BY <2>1 DEF UploadsSwept
<1> HIDE DEF UploadInv
<1> QED
  BY <1>3, <1>5

LEMMA SweepEndsKeeps ==
    ASSUME UploadInv, Confined => UploadsSwept, SweepEnds
    PROVE  UploadInv'
<1> USE DEF UploadInv, Uploading!UploadTypeOK
<1>1. /\ UNCHANGED <<uploadCancelled, argument, uploadStage, ending, reply>>
      /\ uploadSweeping' = uploadSweeping \ {Uploader}
      /\ uploadQueue' \in [Uploading!Slots -> Uploads \cup {NoTask}]
  BY DEF SweepEnds, Uploading!CancelUploadsEnds, Uploading!removeAll, Uploading!Store
<1>2. \A u \in Uploads : /\ Uploading!Sending(u)' <=> Uploading!Sending(u)
                         /\ Uploading!OwnPath(u)' <=> Uploading!OwnPath(u)
  BY <1>1 DEF Uploading!Sending, Uploading!OwnPath
<1>3. ASSUME Confined, NEW u \in Uploads PROVE UploadTracked(u)'
  BY <1>1, <1>2, <1>3 DEF UploadTracked, UploadsSwept
<1> QED
  BY <1>1, <1>3 DEF Sendable
-----------------------------------------------------------------------------
(* cancelAllRequests                                                       *)

\* Confined: what the first loop has reached stays reached while the main thread is inside
\* cancelAllRequests, and so does what the second has.
SweepPart ==
    /\ sweep \in Sweeps
    /\ sweep = "requests" => \E m \in Managers : sweeping = {m}
    /\ sweep # "requests" => sweeping = {}
    /\ uploadSweeping = IF sweep = "uploads" THEN {Uploader} ELSE {}
    /\ Confined /\ sweep # "none" => RequestsSwept
    /\ Confined /\ sweep = "uploads" => UploadsSwept

AppInv == PartsInv /\ TrackInv /\ UploadInv /\ SweepPart

\* Steps that put nothing in flight and cancel nothing.
RequestsQuiet == /\ UNCHANGED <<request, owner, requester, sent, cancelled>>
                 /\ \A c \in Calls : InFlight(c)' => InFlight(c)

UploadsQuiet == /\ UNCHANGED <<argument, uploadCancelled>>
                /\ \A u \in Uploads : Uploading!Sending(u)' => Uploading!Sending(u)

LEMMA RequestsSweptFrame == RequestsSwept /\ RequestsQuiet => RequestsSwept'
<1> SUFFICES ASSUME RequestsSwept, RequestsQuiet, NEW c \in Calls, InFlight(c)',
                    owner'[c] = requester', Alone(c)'
             PROVE  Task(c)' \in cancelled'
  BY DEF RequestsSwept
<1>1. InFlight(c) /\ owner[c] = requester /\ Alone(c)
  BY DEF RequestsQuiet, Alone, Shares, Slot
<1> QED
  BY <1>1 DEF RequestsSwept, RequestsQuiet, Task

LEMMA UploadsSweptFrame == UploadsSwept /\ UploadsQuiet => UploadsSwept'
<1> SUFFICES ASSUME UploadsSwept, UploadsQuiet, NEW u \in Uploads, Uploading!Sending(u)',
                    Uploading!OwnPath(u)'
             PROVE  u \in uploadCancelled'
  BY DEF UploadsSwept
<1>1. Uploading!Sending(u) /\ Uploading!OwnPath(u)
  BY DEF UploadsQuiet, Uploading!OwnPath
<1> QED
  BY <1>1 DEF UploadsSwept, UploadsQuiet

\* A step of the main thread cannot run while it is inside cancelAllRequests.
LEMMA MainBusy == Confined /\ sweep # "none" => ~MainIdle
BY DEF MainIdle

\* While it is, the others of the application are quiet.
OtherStep ==
    \/ \E c \in Calls : RequestStep(c) \/ AnswerStep(c) \/ GateStarts(c)
    \/ \E j \in Attempts : GateGoesOn(j)
    \/ \E u \in Uploads : UploadCalled(u) \/ UploadGoesOn(u)
    \/ ReleaseBegins \/ ReleaseEnds \/ Controls \/ UNCHANGED appVars

LEMMA OthersKeep ==
    ASSUME AppInv, OtherStep
    PROVE  /\ UNCHANGED <<sweep, sweeping, uploadSweeping>>
           /\ Confined /\ sweep # "none" => RequestsQuiet /\ UploadsQuiet
<1> USE DEF AppInv, UploadInv, Uploading!UploadTypeOK, PartsInv, IInv
<1>1. ASSUME UNCHANGED vars PROVE RequestsQuiet /\ sweeping' = sweeping
  BY <1>1 DEF vars, managerVars, sharedVars, callVars, RequestsQuiet, InFlight
<1>2. ASSUME UNCHANGED uploaderVars PROVE UploadsQuiet /\ uploadSweeping' = uploadSweeping
  BY <1>2 DEF uploaderVars, UploadsQuiet, Uploading!Sending
<1>3. ASSUME NEW c \in Calls, RequestStep(c)
      PROVE  ~(Confined /\ sweep # "none") /\ UNCHANGED <<sweep, sweeping>>
  BY <1>3, MainBusy DEF RequestStep, RequestData, RetryFires, Perform, Send, addRequest,
                        managerVars
<1>4. ASSUME NEW c \in Calls, AnswerStep(c)
      PROVE  /\ UNCHANGED <<sweep, sweeping>>
             /\ Confined /\ sweep # "none" => RequestsQuiet
  <2>1. CASE SessionAnswers(c)
    <3>1. phase' = [phase EXCEPT ![c] = "answered"] /\ phase[c] = "running"
          /\ phase \in [Calls -> Phases]
      BY <2>1 DEF SessionAnswers, TypeOK
    <3>2. \A d \in Calls : InFlight(d)' => InFlight(d)
      BY <3>1 DEF InFlight
    <3> QED
      BY <1>4, <2>1, <3>2 DEF AnswerStep, SessionAnswers, managerVars, sharedVars, RequestsQuiet
  <2>2. CASE MainIdle /\ HandlerRemoves(c)
    BY <1>4, <2>2, MainBusy DEF AnswerStep, HandlerRemoves, removeRequest
  <2>3. CASE HandlerCompletes(c)
    <3>1. /\ phase[c] = "handling" /\ phase \in [Calls -> Phases]
          /\ \E p \in {"waitRetry", "done"} : phase' = [phase EXCEPT ![c] = p]
      BY <2>3 DEF HandlerCompletes, TypeOK
    <3>2. \A d \in Calls : InFlight(d)' => InFlight(d)
      BY <3>1 DEF InFlight
    <3> QED
      BY <1>4, <2>3, <3>2
         DEF AnswerStep, HandlerCompletes, managerVars, sharedVars, RequestsQuiet
  <2> QED
    BY <1>4, <2>1, <2>2, <2>3 DEF AnswerStep
<1>5. ASSUME NEW c \in Calls, GateStarts(c)
      PROVE  ~(Confined /\ sweep # "none") /\ UNCHANGED <<sweep, sweeping>>
  BY <1>5, MainBusy DEF GateStarts, Dispatched, Send, addRequest, vars, managerVars
<1>6. ASSUME NEW u \in Uploads, UploadCalled(u)
      PROVE  ~(Confined /\ sweep # "none") /\ UNCHANGED <<sweep, uploadSweeping>>
  BY <1>6, MainBusy DEF UploadCalled, Uploading!upload, Uploading!addRequest,
                        Uploading!managerVars
<1>7. ASSUME NEW u \in Uploads, UploadGoesOn(u)
      PROVE  UNCHANGED <<sweep, uploadSweeping>> /\ UploadsQuiet
  <2>1. /\ UNCHANGED <<argument, uploadCancelled, uploadSweeping>>
        /\ \/ uploadStage[u] = "running" /\ uploadStage' = [uploadStage EXCEPT ![u] = "answered"]
           \/ uploadStage' = [uploadStage EXCEPT ![u] = "handling"]
           \/ uploadStage' = [uploadStage EXCEPT ![u] = "over"]
    BY <1>7 DEF UploadGoesOn, Uploading!UploadEnds, Uploading!UploadRemoves,
                Uploading!UploadCompletes, Uploading!removeRequest, Uploading!managerVars,
                Uploading!Advance
  <2>2. \A v \in Uploads : Uploading!Sending(v)' => Uploading!Sending(v)
    BY <2>1 DEF Uploading!Sending
  <2> QED
    BY <1>7, <2>1, <2>2 DEF UploadGoesOn, UploadsQuiet
<1>8. ASSUME Controls
      PROVE  ~(Confined /\ sweep # "none") /\ UNCHANGED <<sweep, sweeping>>
  BY <1>8, MainBusy DEF Controls, clearCache, start, managerVars
<1>9. ASSUME NEW c \in Calls, RequestStep(c) \/ AnswerStep(c) \/ GateStarts(c)
      PROVE  UNCHANGED uploaderVars
  BY <1>9 DEF RequestStep, AnswerStep, GateStarts
<1>10. ASSUME NEW u \in Uploads, UploadCalled(u) \/ UploadGoesOn(u)
       PROVE  UNCHANGED vars
  BY <1>10 DEF UploadCalled, UploadGoesOn
<1>11. ASSUME \/ \E j \in Attempts : GateGoesOn(j)
              \/ ReleaseBegins \/ ReleaseEnds \/ UNCHANGED appVars
       PROVE  UNCHANGED <<vars, uploaderVars, sweep>>
  BY <1>11 DEF GateGoesOn, ReleaseBegins, ReleaseEnds, appVars
<1>12. Controls => UNCHANGED uploaderVars
  BY DEF Controls
<1> HIDE DEF AppInv
<1> QED
  BY <1>1, <1>2, <1>3, <1>4, <1>5, <1>6, <1>7, <1>8, <1>9, <1>10, <1>11, <1>12 DEF OtherStep

LEMMA OthersInv == AppInv /\ OtherStep => UploadInv' /\ SweepPart'
<1> SUFFICES ASSUME AppInv, OtherStep PROVE UploadInv' /\ SweepPart'
  OBVIOUS
<1>1. UploadInv'
  <2>1. CASE \E u \in Uploads : UploadCalled(u) \/ UploadGoesOn(u)
    BY <2>1, UploadCalledKeeps, UploadGoesOnKeeps DEF AppInv
  <2>2. CASE ~\E u \in Uploads : UploadCalled(u) \/ UploadGoesOn(u)
    <3>1. UNCHANGED uploaderVars
      BY <2>2 DEF OtherStep, RequestStep, AnswerStep, GateStarts, GateGoesOn, ReleaseBegins,
                  ReleaseEnds, Controls, appVars
    <3> QED
      BY <3>1, UploadFrame DEF AppInv
  <2> QED
    BY <2>1, <2>2
<1>2. SweepPart'
  BY OthersKeep, RequestsSweptFrame, UploadsSweptFrame DEF AppInv, SweepPart
<1> QED
  BY <1>1, <1>2

\* cancelAllRequests goes through its four steps.
LEMMA SweepStepsInv ==
    ASSUME AppInv, TrackInv', SweepBegins \/ SweepRequestsEnds \/ SweepUploads \/ SweepEnds
    PROVE  UploadInv' /\ SweepPart'
<1> USE DEF Sweep, Sweeps
<1>1. CASE SweepBegins
  <2>1. /\ sweep = "none" /\ sweep' = "requests" /\ uploadSweeping' = uploadSweeping
        /\ sweeping' = sweeping \cup {requester} /\ requester' = requester
        /\ UNCHANGED uploaderVars
    BY <1>1 DEF SweepBegins, CancelAllBegins, cancelValues, sharedVars, uploaderVars
  <2>2. sweeping' = {requester} /\ requester \in Managers
    BY <2>1 DEF AppInv, SweepPart, PartsInv, IInv, TypeOK
  <2>3. Confined => RequestsSwept'
    <3>1. SweepReaches'
      BY TrackReaches, PTL
    <3>2. requester' \in sweeping'
      BY <2>1, <2>2
    <3> QED
      BY <3>1, <3>2 DEF SweepReaches, RequestsSwept
  <2>4. UploadInv'
    BY <2>1, UploadFrame DEF AppInv
  <2> QED
    BY <2>1, <2>2, <2>3, <2>4 DEF AppInv, SweepPart
<1>2. CASE SweepRequestsEnds
  <2>1. /\ sweep = "requests" /\ sweep' = "between" /\ uploadSweeping' = uploadSweeping
        /\ \E m \in sweeping : sweeping' = sweeping \ {m}
        /\ UNCHANGED <<request, callVars, sharedVars, cancelled>> /\ UNCHANGED uploaderVars
    BY <1>2 DEF SweepRequestsEnds, CancelAllEnds, removeAll, uploaderVars
  <2>2. sweeping' = {}
    BY <2>1 DEF AppInv, SweepPart
  <2>3. RequestsQuiet
    BY <2>1 DEF RequestsQuiet, callVars, sharedVars, InFlight
  <2>4. UploadInv'
    BY <2>1, UploadFrame DEF AppInv
  <2> QED
    BY <2>1, <2>2, <2>3, <2>4, RequestsSweptFrame DEF AppInv, SweepPart
<1>3. CASE SweepUploads
  <2>1. /\ sweep = "between" /\ sweep' = "uploads" /\ UNCHANGED vars
        /\ uploadSweeping' = uploadSweeping \cup {Uploader}
    BY <1>3 DEF SweepUploads, Uploading!CancelUploadsBegins, Uploading!cancelValues
  <2>2. RequestsQuiet /\ sweeping' = sweeping
    BY <2>1 DEF vars, managerVars, sharedVars, callVars, RequestsQuiet, InFlight
  <2>3. UploadInv' /\ (Confined => UploadsSwept')
    BY <1>3, SweepUploadsKeeps DEF AppInv
  <2> QED
    BY <2>1, <2>2, <2>3, RequestsSweptFrame DEF AppInv, SweepPart
<1>4. CASE SweepEnds
  <2>1. /\ sweep = "uploads" /\ sweep' = "none" /\ UNCHANGED vars
        /\ uploadSweeping' = uploadSweeping \ {Uploader}
    BY <1>4 DEF SweepEnds, Uploading!CancelUploadsEnds, Uploading!removeAll
  <2>2. sweeping' = sweeping
    BY <2>1 DEF vars, managerVars
  <2>3. UploadInv'
    BY <1>4, <2>1, SweepEndsKeeps DEF AppInv, SweepPart
  <2> QED
    BY <2>1, <2>2, <2>3 DEF AppInv, SweepPart
<1> QED
  BY <1>1, <1>2, <1>3, <1>4

LEMMA InitApp == AppInit => AppInv
<1> SUFFICES ASSUME AppInit PROVE AppInv
  OBVIOUS
<1>1. SweepPart
  BY DEF AppInit, Init, ManagerInit, Uploading!UploadInit, Uploading!ManagerInit, SweepPart,
         Sweeps
<1>2. TrackInv
  BY InitTrack DEF AppInit
<1> QED
  BY <1>1, <1>2, InitParts, InitUpload DEF AppInv

LEMMA NextApp == AppInv /\ [AppNext]_appVars => AppInv'
<1> SUFFICES ASSUME AppInv, [AppNext]_appVars PROVE AppInv'
  OBVIOUS
<1>1. PartsInv' /\ TrackInv'
  BY NextParts, NextTrack DEF AppInv
<1>2. \/ OtherStep
      \/ SweepBegins \/ SweepRequestsEnds \/ SweepUploads \/ SweepEnds
  BY DEF AppNext, OtherStep
<1> QED
  BY <1>1, <1>2, OthersInv, SweepStepsInv DEF AppInv

\* The inductive invariant of the composed application.
THEOREM ApplicationInvariance == AppSafety => []AppInv
BY InitApp, NextApp, PTL DEF AppSafety

\* The variables of the application and of its parts stay in their types, and the managers
\* are being swept when cancelAllRequests says so.
THEOREM ApplicationTypeCorrect == AppSafety => []AppTypeOK
<1>1. AppInv => AppTypeOK
  BY DEF AppInv, PartsInv, IInv, UploadInv, SweepPart, AppTypeOK
<1> QED
  BY <1>1, ApplicationInvariance, PTL

\* On the main thread, AwesomeNetwork.cancelAllRequests returns only after it has cancelled
\* every request and every upload in flight that has its slot to itself.
THEOREM CancelAllReturns == AppSafety => CancelAllReachesBoth
<1>1. AppInv /\ [AppNext]_appVars
         => [(Confined /\ sweep # "none" /\ sweep' = "none")
                => RequestsSwept /\ UploadsSwept]_appVars
  <2> SUFFICES ASSUME AppInv, AppNext, Confined, sweep # "none", sweep' = "none"
               PROVE  RequestsSwept /\ UploadsSwept
    OBVIOUS
  <2>1. SweepEnds
    <3>1. CASE OtherStep
      BY <3>1, OthersKeep
    <3>2. CASE SweepBegins \/ SweepRequestsEnds \/ SweepUploads
      BY <3>2 DEF SweepBegins, SweepRequestsEnds, SweepUploads, Sweep
    <3> QED
      BY <3>1, <3>2 DEF AppNext, OtherStep
  <2> QED
    BY <2>1 DEF SweepEnds, Sweep, AppInv, SweepPart
<1> QED
  BY <1>1, ApplicationInvariance, PTL DEF AppSafety, CancelAllReachesBoth
-----------------------------------------------------------------------------
(* No deadlock                                                             *)

\* What is first in the queue is the next attempt of a call that waits at the gate.
LEMMA HeadIsGated ==
    ASSUME GateInv, queue # <<>>
    PROVE  \E d \in Calls : phase[d] = "gated" /\ Head(queue)[1] = Attempt(d)
<1>1. queue \in Seq(Items(Attempts))
  BY DEF GateInv, PartsInv, Gate!TypeOK, Items
<1>2. Holds(queue, Head(queue)) /\ Head(queue) \in Items(Attempts)
  BY <1>1, TailHolds DEF GateInv, Placed
<1>3. PICK d \in Calls, n \in 1..MaxAttempts, kind \in {"wrapper", "block"} :
         Head(queue) = <<<<d, n>>, kind>>
  BY <1>2 DEF Items, Attempts
<1>4. <<d, n>> \in Attempts
  BY DEF Attempts
<1>5. stage[<<d, n>>] # "new" /\ ran[<<d, n>>] = 0
  BY <1>2, <1>3, <1>4 DEF GateInv, Placed, Place
<1>6. Gate!BlockState(<<d, n>>) = "submitted"
  BY <1>5 DEF Gate!BlockState
<1>7. n = sent[d] + 1 /\ phase[d] = "gated"
  BY <1>6 DEF GateInv, GateCarriesCalls
<1> QED
  BY <1>3, <1>7 DEF Attempt

\* A call whose turn it is at the gate, or to retry, finds there what it needs.
LEMMA WaitingCallGoesOn ==
    ASSUME GateInv, NEW c \in Calls, phase[c] \in {"gated", "waitRetry"},
           MainIdle, Gate!Working = {}
    PROVE  \E d \in Calls : CallGoesOn(d)
<1>1. /\ Attempt(c) \in Attempts
      /\ Gate!BlockState(Attempt(c)) = IF phase[c] = "gated" THEN "submitted" ELSE "new"
  <2>1. Attempt(c) \in Attempts /\ sent[c] \in Nat /\ sent[c] + 1 \in 1..MaxAttempts
    BY AttemptFacts DEF GateInv, PartsInv
  <2>2. ~(sent[c] + 1 <= sent[c])
    BY <2>1
  <2> QED
    BY <2>1, <2>2 DEF GateInv, GateCarriesCalls, Attempt
<1>2. CASE phase[c] = "waitRetry"
  <2>1. stage[Attempt(c)] = "new"
    BY <1>1, <1>2 DEF Gate!BlockState
  <2> QED
    BY <1>2, <2>1 DEF CallGoesOn
<1>3. CASE phase[c] = "gated"
  <2>1. stage[Attempt(c)] # "new" /\ ran[Attempt(c)] = 0
    BY <1>1, <1>3 DEF Gate!BlockState
  <2>2. stage[Attempt(c)] \in {"direct", "queued", "over"}
    <3>1. stage[Attempt(c)] \in Gate!Stages
      BY <1>1 DEF GateInv, PartsInv, Gate!TypeOK
    <3>2. stage[Attempt(c)] \notin {"waiting", "granted", "enqueued"}
      BY <1>1 DEF Gate!Working
    <3> QED
      BY <2>1, <3>1, <3>2 DEF Gate!Stages
  <2>3. queue # <<>>
    BY <1>1, <2>1, <2>2, PlacedSomewhere DEF GateInv
  <2>4. PICK d \in Calls : phase[d] = "gated" /\ Head(queue)[1] = Attempt(d)
    BY <2>3, HeadIsGated
  <2> QED
    BY <2>3, <2>4 DEF CallGoesOn
<1> QED
  BY <1>2, <1>3

\* The application never locks up over the main thread, the delegate queue, the permits and
\* the threads of the gate: while anything is under way, something can go on.
THEOREM ApplicationNeverStuck == AppSafety => []NoDeadlock
<1>1. AppInv /\ GateInv => NoDeadlock
  <2> SUFFICES ASSUME AppInv, GateInv, UnderWay, ~SomethingGoesOn
               PROVE  FALSE
    BY DEF NoDeadlock
  <2>1. /\ sweep = "none"
        /\ \A c \in Calls : ~CallGoesOn(c)
        /\ \A j \in Attempts : ~Gate!CanGoOn(j)
        /\ \A u \in Uploads : ~UploadProceeds(u)
    BY DEF SomethingGoesOn
  <2>2. Gate!Working = {}
    <3> SUFFICES ASSUME NEW j \in Attempts, stage[j] \in {"waiting", "granted", "enqueued"}
                 PROVE  FALSE
      BY DEF Gate!Working
    <3>1. \A i \in Attempts : ~Passed(i)
      BY <2>1 DEF Passed, Gate!CanGoOn
    <3>2. stage[j] = "waiting" /\ permits > 0
      BY <3>1 DEF Passed, GateInv, PermitInv
    <3> QED
      BY <2>1, <3>2 DEF Gate!CanGoOn
  <2>3. MainIdle
    BY <2>1, <2>2 DEF MainIdle
  <2>4. DelegateIdle
    BY <2>1 DEF DelegateIdle, CallGoesOn, UploadProceeds
  <2>5. ASSUME NEW c \in Calls, phase[c] \notin {"idle", "done", "dropped"} PROVE FALSE
    <3>1. phase[c] \in Phases
      BY DEF GateInv, PartsInv, IInv, TypeOK
    <3>2. phase[c] \notin {"running", "handling", "answered"}
      BY <2>1, <2>3, <2>4 DEF CallGoesOn
    <3>3. phase[c] \in {"gated", "waitRetry"}
      BY <2>5, <3>1, <3>2 DEF Phases
    <3> QED
      BY <2>1, <2>2, <2>3, <3>3, WaitingCallGoesOn
  <2>6. ASSUME NEW u \in Uploads, uploadStage[u] \notin {"idle", "over"} PROVE FALSE
    <3>1. uploadStage[u] \in Uploading!UploadStages
      BY DEF AppInv, UploadInv, Uploading!UploadTypeOK
    <3> QED
      BY <2>1, <2>3, <2>4, <2>6, <3>1 DEF UploadProceeds, Uploading!UploadStages
  <2> QED
    BY <2>5, <2>6 DEF UnderWay
<1> QED
  BY <1>1, ApplicationInvariance, GateInvariance, PTL
==============================================================================
