--------------------------- MODULE DispatcherProofs ---------------------------
(***************************************************************************)
(* Theorems about the gate, for any set of blocks, any number of threads   *)
(* and with or without a timeout: the permits of the semaphore add up, no  *)
(* block runs twice, and none is lost on its way.                          *)
(***************************************************************************)
EXTENDS Dispatcher, QueueFacts, FiniteSetTheorems

\* A wait that timed out is over.
ExpiredInv == \A j \in expired : stage[j] \in {"granted", "enqueued", "over"}

\* No block is lost, in two places, or in the queue twice (see QueueFacts).
QueueInv == TypeOK /\ Placed(Jobs, queue, stage, ran)
-----------------------------------------------------------------------------
(* Types                                                                   *)

LEMMA InitTypes == Init => TypeOK
<1> SUFFICES ASSUME Init PROVE TypeOK
  OBVIOUS
<1>1. queue \in Seq(Jobs \X {"wrapper", "block"})
  BY DEF Init
<1>2. releases \in 0..MaxReleases /\ unsignalled \in 0..releases
  BY DispatcherAssumption DEF Init
<1> QED
  BY <1>1, <1>2 DEF Init, TypeOK, Stages

\* The steps of a job keep the types.
LEMMA JobStepTypes ==
    ASSUME TypeOK, NEW j \in Jobs, JobStep(j)
    PROVE  TypeOK'
<1> USE DEF TypeOK, Stages, MoveTo
<1>1. CASE executeBlock(j)
  <2>1. queue' \in Seq(Jobs \X {"wrapper", "block"})
    <3>1. \A kind \in {"wrapper", "block"} :
             Append(queue, <<j, kind>>) \in Seq(Jobs \X {"wrapper", "block"})
      OBVIOUS
    <3> QED
      BY <1>1, <3>1 DEF executeBlock
  <2>2. stage' \in [Jobs -> Stages]
    BY <1>1 DEF executeBlock
  <2> QED
    BY <1>1, <2>1, <2>2 DEF executeBlock
<1>2. CASE StartWrapper(j)
  BY <1>2 DEF StartWrapper
<1>3. CASE RunBlock(j)
  BY <1>3 DEF RunBlock
<1>4. CASE WaitEnds(j)
  BY <1>4 DEF WaitEnds
<1>5. CASE EnqueueBlock(j)
  BY <1>5 DEF EnqueueBlock
<1>6. CASE SignalNext(j)
  BY <1>6 DEF SignalNext
<1> QED
  BY <1>1, <1>2, <1>3, <1>4, <1>5, <1>6 DEF JobStep

LEMMA NextTypes == TypeOK /\ [Next]_vars => TypeOK'
<1> SUFFICES ASSUME TypeOK, [Next]_vars PROVE TypeOK'
  OBVIOUS
<1>1. CASE ReleaseLights
  BY <1>1, DispatcherAssumption DEF TypeOK, ReleaseLights
<1>2. CASE ReleaseSignals
  BY <1>2, DispatcherAssumption DEF TypeOK, ReleaseSignals
<1>3. CASE UNCHANGED vars
  BY <1>3 DEF TypeOK, vars
<1> QED
  BY <1>1, <1>2, <1>3, JobStepTypes DEF Next

\* The variables of the gate stay in their types; the semaphore never goes below zero.
THEOREM GateTypeCorrect == Spec => []TypeOK
BY InitTypes, NextTypes, PTL DEF Spec
-----------------------------------------------------------------------------
(* The queue: no block is in two places, and none is lost                  *)

\* What is taken from the queue: a wrapper had been waiting there, a block had not run.
LEMMA TakeQueue ==
    ASSUME QueueInv, NEW j \in Jobs
    PROVE  /\ StartWrapper(j) => stage[j] = "queued"
           /\ RunBlock(j) => stage[j] \in {"direct", "enqueued", "over"} /\ ran[j] = 0
<1>0. queue \in Seq(Items(Jobs)) /\ stage \in [Jobs -> Stages] /\ ran \in [Jobs -> Nat]
  BY DEF QueueInv, TypeOK, Items
<1>1. StartWrapper(j) => stage[j] = "queued"
  BY <1>0, PlacedTakeWrapper DEF QueueInv, StartWrapper
<1>2. RunBlock(j) => stage[j] \in {"direct", "enqueued", "over"} /\ ran[j] = 0
  BY <1>0, PlacedTakeBlock DEF QueueInv, RunBlock
<1> QED
  BY <1>1, <1>2

\* Each step of a job moves its block as QueueFacts has it.
LEMMA JobStepQueue ==
    ASSUME QueueInv, NEW j \in Jobs, JobStep(j)
    PROVE  Placed(Jobs, queue, stage, ran)'
<1> USE DEF MoveTo
<1>0. queue \in Seq(Items(Jobs)) /\ stage \in [Jobs -> Stages] /\ ran \in [Jobs -> Nat]
  BY DEF QueueInv, TypeOK, Items
<1>1. CASE executeBlock(j)
  <2>1. PICK kind \in {"wrapper", "block"}, s \in {"direct", "queued"} :
           /\ (kind = "wrapper" /\ s = "queued") \/ (kind = "block" /\ s = "direct")
           /\ queue' = Append(queue, <<j, kind>>) /\ stage' = [stage EXCEPT ![j] = s]
    BY <1>1 DEF executeBlock
  <2>2. stage[j] = "new" /\ ran' = ran
    BY <1>1 DEF executeBlock
  <2> QED
    BY <1>0, <2>1, <2>2, PlacedAppend DEF QueueInv
<1>2. CASE EnqueueBlock(j)
  <2>1. /\ stage[j] = "granted" /\ ran' = ran
        /\ queue' = Append(queue, <<j, "block">>) /\ stage' = [stage EXCEPT ![j] = "enqueued"]
    BY <1>2 DEF EnqueueBlock
  <2> QED
    BY <1>0, <2>1, PlacedAppend DEF QueueInv
<1>3. CASE StartWrapper(j)
  BY <1>0, <1>3, PlacedTakeWrapper DEF QueueInv, StartWrapper
<1>4. CASE RunBlock(j)
  BY <1>0, <1>4, PlacedTakeBlock DEF QueueInv, RunBlock
<1>5. CASE WaitEnds(j) \/ SignalNext(j)
  <2>1. PICK s \in {"granted", "over"} :
           /\ (stage[j] = "waiting" /\ s = "granted") \/ (stage[j] = "enqueued" /\ s = "over")
           /\ queue' = queue /\ ran' = ran /\ stage' = [stage EXCEPT ![j] = s]
    BY <1>5 DEF WaitEnds, SignalNext
  <2> QED
    BY <1>0, <2>1, PlacedWrapper DEF QueueInv
<1> QED
  BY <1>1, <1>2, <1>3, <1>4, <1>5 DEF JobStep

LEMMA NextQueue == QueueInv /\ [Next]_vars => QueueInv'
<1> SUFFICES ASSUME QueueInv, [Next]_vars PROVE QueueInv'
  OBVIOUS
<1>1. TypeOK'
  BY NextTypes DEF QueueInv
<1>2. CASE ReleaseLights \/ ReleaseSignals \/ UNCHANGED vars
  <2>1. UNCHANGED <<queue, stage, ran>>
    BY <1>2 DEF ReleaseLights, ReleaseSignals, vars
  <2> QED
    BY <1>1, <2>1 DEF QueueInv
<1> QED
  BY <1>1, <1>2, JobStepQueue DEF Next, QueueInv

LEMMA InitQueue == Init => QueueInv
BY InitTypes, PlacedFirst DEF Init, QueueInv

\* A block that has been handed over is, until it has run, in the queue once or with its
\* wrapper: none is lost and none is there twice.
THEOREM QueueInvariance == Spec => []QueueInv
BY InitQueue, NextQueue, PTL DEF Spec
-----------------------------------------------------------------------------
(* The permits of the semaphore                                            *)

PInv == QueueInv /\ ExpiredInv /\ PermitAccounting

\* The three sets of wrappers the accounting counts are finite.
LEMMA CountsFinite ==
    ASSUME TypeOK
    PROVE  /\ IsFiniteSet(Held) /\ IsFiniteSet(Kept) /\ IsFiniteSet(Minted)
           /\ Cardinality(Held) \in Nat /\ Cardinality(Kept) \in Nat
           /\ Cardinality(Minted) \in Nat
<1>1. /\ Held \in SUBSET Jobs /\ Kept \in SUBSET Jobs /\ Minted \in SUBSET Jobs
  BY DEF Held, Kept, Minted, TypeOK
<1>2. IsFiniteSet(Held) /\ IsFiniteSet(Kept) /\ IsFiniteSet(Minted)
  BY <1>1, FS_Subset, DispatcherAssumption
<1> QED
  BY <1>2, FS_CardinalityType

\* A step that leaves the stages it counts alone leaves the sets alone.
LEMMA CountsFrame ==
    ASSUME TypeOK, TypeOK', UNCHANGED <<expired, signalNext>>,
           \A j \in Jobs : \/ stage'[j] = stage[j]
                           \/ /\ stage[j] = "granted" /\ stage'[j] = "enqueued"
                           \/ /\ stage[j] \notin {"granted", "enqueued", "over"}
                              /\ stage'[j] \notin {"granted", "enqueued", "over"}
    PROVE  Held' = Held /\ Kept' = Kept /\ Minted' = Minted
<1>1. \A j \in Jobs : j \in Held' <=> j \in Held
  BY DEF Held
<1>2. \A j \in Jobs : j \in Kept' <=> j \in Kept
  BY DEF Kept
<1>3. \A j \in expired : j \in Minted' <=> j \in Minted
  BY DEF Minted, TypeOK
<1>4. Held \subseteq Jobs /\ Held' \subseteq Jobs /\ Kept \subseteq Jobs /\ Kept' \subseteq Jobs
  BY DEF Held, Kept
<1>5. Minted \subseteq expired /\ Minted' \subseteq expired
  BY DEF Minted
<1> QED
  BY <1>1, <1>2, <1>3, <1>4, <1>5

\* A wait that takes a permit becomes a holder of it; one that times out holds none.
LEMMA WaitEndsAccounts ==
    ASSUME PInv, TypeOK', NEW j \in Jobs, WaitEnds(j)
    PROVE  PermitAccounting'
<1> USE DEF PInv, QueueInv, TypeOK, MoveTo
<1>1. j \notin expired /\ j \notin Held /\ j \notin Kept
  BY DEF WaitEnds, ExpiredInv, Held, Kept
<1>2. /\ UNCHANGED <<releases, unsignalled, signalNext>>
      /\ stage[j] = "waiting" /\ stage' = [stage EXCEPT ![j] = "granted"]
  BY DEF WaitEnds
<1>3. Kept' = Kept /\ Minted' = Minted
  <2>1. expired' = expired \/ expired' = expired \cup {j}
    BY DEF WaitEnds
  <2>2. Kept' = Kept
    BY <1>1, <1>2, <2>1 DEF Kept
  <2>3. Minted' = Minted
    BY <1>1, <1>2, <2>1 DEF Minted
  <2> QED
    BY <2>2, <2>3
<1>4. CASE permits > 0 /\ permits' = permits - 1 /\ UNCHANGED expired
  <2>1. Held' = Held \cup {j}
    BY <1>1, <1>2, <1>4 DEF Held
  <2>2. Cardinality(Held') = Cardinality(Held) + 1
    BY <1>1, <2>1, CountsFinite, FS_AddElement
  <2> QED
    BY <1>2, <1>3, <1>4, <2>2, CountsFinite DEF PermitAccounting
<1>5. CASE expired' = expired \cup {j} /\ UNCHANGED permits
  <2>1. Held' = Held
    BY <1>1, <1>2, <1>5 DEF Held
  <2> QED
    BY <1>2, <1>3, <1>5, <2>1 DEF PermitAccounting
<1> QED
  BY <1>4, <1>5 DEF WaitEnds

\* A wrapper that signals gives its permit back, or mints one if it never had it; one
\* that does not signal keeps what it had.
LEMMA SignalNextAccounts ==
    ASSUME PInv, TypeOK', NEW j \in Jobs, SignalNext(j)
    PROVE  PermitAccounting'
<1> USE DEF PInv, QueueInv, MoveTo
<1>1. /\ UNCHANGED <<releases, unsignalled, signalNext, expired>>
      /\ stage[j] = "enqueued" /\ stage' = [stage EXCEPT ![j] = "over"]
      /\ permits' = IF signalNext[j] THEN permits + 1 ELSE permits
  BY DEF SignalNext
<1>0. /\ permits \in Nat /\ releases \in Nat /\ unsignalled \in Nat
      /\ Cardinality(Held) \in Nat /\ Cardinality(Kept) \in Nat
      /\ Cardinality(Minted) \in Nat
      /\ stage \in [Jobs -> Stages] /\ expired \subseteq Jobs
  BY CountsFinite, DispatcherAssumption DEF TypeOK
<1>2. CASE j \notin expired
  <2>1. Held' = Held \ {j} /\ j \in Held /\ Minted' = Minted
    <3>1. Held' = Held \ {j} /\ j \in Held
      BY <1>0, <1>1, <1>2 DEF Held
    <3>2. Minted' = Minted
      BY <1>0, <1>1, <1>2 DEF Minted
    <3> QED
      BY <3>1, <3>2
  <2>2. Cardinality(Held') = Cardinality(Held) - 1
    BY <2>1, CountsFinite, FS_RemoveElement
  <2>3. CASE signalNext[j]
    <3>1. Kept' = Kept
      BY <1>0, <1>1, <2>3 DEF Kept
    <3> QED
      BY <1>0, <1>1, <2>1, <2>2, <2>3, <3>1 DEF PermitAccounting
  <2>4. CASE ~signalNext[j]
    <3>1. Kept' = Kept \cup {j} /\ j \notin Kept
      BY <1>0, <1>1, <1>2, <2>4 DEF Kept
    <3>2. Cardinality(Kept') = Cardinality(Kept) + 1
      BY <3>1, CountsFinite, FS_AddElement
    <3> QED
      BY <1>0, <1>1, <2>1, <2>2, <2>4, <3>2 DEF PermitAccounting
  <2> QED
    BY <2>3, <2>4
<1>3. CASE j \in expired
  <2>1. Held' = Held
    BY <1>0, <1>1, <1>3 DEF Held
  <2>2. Kept' = Kept
    BY <1>0, <1>1, <1>3 DEF Kept
  <2>3. CASE signalNext[j]
    <3>1. Minted' = Minted \cup {j} /\ j \notin Minted
      BY <1>0, <1>1, <1>3, <2>3 DEF Minted
    <3>2. Cardinality(Minted') = Cardinality(Minted) + 1
      BY <3>1, CountsFinite, FS_AddElement
    <3> QED
      BY <1>0, <1>1, <2>1, <2>2, <2>3, <3>2 DEF PermitAccounting
  <2>4. CASE ~signalNext[j]
    <3>1. Minted' = Minted
      BY <1>0, <1>1, <2>4 DEF Minted
    <3> QED
      BY <1>0, <1>1, <2>1, <2>2, <2>4, <3>1 DEF PermitAccounting
  <2> QED
    BY <2>3, <2>4
<1> QED
  BY <1>2, <1>3

\* Every other step leaves the wrappers that are counted where they are.
LEMMA OtherStepAccounts ==
    ASSUME PInv, TypeOK',
           \/ \E j \in Jobs : \/ executeBlock(j) \/ StartWrapper(j) \/ RunBlock(j)
                              \/ EnqueueBlock(j)
           \/ ReleaseLights \/ ReleaseSignals \/ UNCHANGED vars
    PROVE  PermitAccounting'
<1> USE DEF PInv, QueueInv, MoveTo
<1>1. /\ UNCHANGED <<expired, signalNext>>
      /\ \A j \in Jobs : \/ stage'[j] = stage[j]
                         \/ /\ stage[j] = "granted" /\ stage'[j] = "enqueued"
                         \/ /\ stage[j] \notin {"granted", "enqueued", "over"}
                            /\ stage'[j] \notin {"granted", "enqueued", "over"}
  <2>1. ASSUME NEW j \in Jobs, executeBlock(j) PROVE <1>1!1 /\ <1>1!2
    BY <2>1 DEF TypeOK, executeBlock
  <2>2. ASSUME NEW j \in Jobs, StartWrapper(j) PROVE <1>1!1 /\ <1>1!2
    BY <2>2, TakeQueue DEF TypeOK, StartWrapper
  <2>3. ASSUME NEW j \in Jobs, RunBlock(j) PROVE <1>1!1 /\ <1>1!2
    BY <2>3 DEF RunBlock
  <2>4. ASSUME NEW j \in Jobs, EnqueueBlock(j) PROVE <1>1!1 /\ <1>1!2
    BY <2>4 DEF TypeOK, EnqueueBlock
  <2> QED
    BY <2>1, <2>2, <2>3, <2>4 DEF ReleaseLights, ReleaseSignals, vars
<1>2. Held' = Held /\ Kept' = Kept /\ Minted' = Minted
  BY <1>1, CountsFrame
<1>3. \/ UNCHANGED <<permits, releases, unsignalled>>
      \/ permits' = permits /\ releases' = releases + 1 /\ unsignalled' = unsignalled + 1
      \/ permits' = permits + 1 /\ releases' = releases /\ unsignalled' = unsignalled - 1
  BY DEF executeBlock, StartWrapper, RunBlock, EnqueueBlock, ReleaseLights,
         ReleaseSignals, vars
<1>4. /\ permits \in Nat /\ releases \in Nat /\ unsignalled \in Nat
      /\ Cardinality(Held) \in Nat /\ Cardinality(Kept) \in Nat
      /\ Cardinality(Minted) \in Nat
  BY CountsFinite, DispatcherAssumption DEF TypeOK
<1> QED
  BY <1>2, <1>3, <1>4 DEF PermitAccounting

LEMMA NextAccounts == PInv /\ [Next]_vars => PInv'
<1> SUFFICES ASSUME PInv, [Next]_vars PROVE PInv'
  OBVIOUS
<1>1. QueueInv' /\ TypeOK'
  BY NextQueue, NextTypes DEF PInv, QueueInv
<1>2. ExpiredInv'
  <2> USE DEF PInv, QueueInv, ExpiredInv, TypeOK, MoveTo
  <2>1. ASSUME NEW j \in Jobs, executeBlock(j) PROVE ExpiredInv'
    BY <2>1 DEF executeBlock
  <2>2. ASSUME NEW j \in Jobs, StartWrapper(j) PROVE ExpiredInv'
    BY <2>2, TakeQueue DEF StartWrapper
  <2>3. ASSUME NEW j \in Jobs, RunBlock(j) PROVE ExpiredInv'
    BY <2>3 DEF RunBlock
  <2>4. ASSUME NEW j \in Jobs, WaitEnds(j) PROVE ExpiredInv'
    BY <2>4 DEF WaitEnds
  <2>5. ASSUME NEW j \in Jobs, EnqueueBlock(j) \/ SignalNext(j) PROVE ExpiredInv'
    BY <2>5 DEF EnqueueBlock, SignalNext
  <2>6. CASE ReleaseLights \/ ReleaseSignals \/ UNCHANGED vars
    BY <2>6 DEF ReleaseLights, ReleaseSignals, vars
  <2> QED
    BY <2>1, <2>2, <2>3, <2>4, <2>5, <2>6 DEF Next, JobStep
<1>3. PermitAccounting'
  BY <1>1, WaitEndsAccounts, SignalNextAccounts, OtherStepAccounts DEF Next, JobStep
<1> QED
  BY <1>1, <1>2, <1>3 DEF PInv

\* The inductive invariant of the queue and the semaphore together.
THEOREM PermitInvariance == Spec => []PInv
<1>1. Init => PInv
  <2> SUFFICES ASSUME Init PROVE PInv
    OBVIOUS
  <2>1. Held = {} /\ Kept = {} /\ Minted = {}
    BY DEF Init, Held, Kept, Minted
  <2>2. PermitAccounting
    BY <2>1, FS_EmptySet DEF Init, PermitAccounting
  <2> QED
    BY <2>2, InitQueue DEF PInv, Init, ExpiredInv
<1> QED
  BY <1>1, NextAccounts, PTL DEF Spec

\* The semaphore's permits add up: whatever is released, times out or is not signalled,
\* each is free, held, kept, or was minted by a release or by a wait that timed out.
THEOREM PermitsAccounted == Spec => []PermitAccounting
<1>1. PInv => PermitAccounting
  BY DEF PInv
<1> QED
  BY <1>1, PermitInvariance, PTL
-----------------------------------------------------------------------------
(* The gate does not lock up                                               *)

\* A wrapper that waits can go on, or another one holds the permit: with none held and
\* none kept the semaphore has one.
LEMMA WaitingGoesOn ==
    ASSUME PInv, HasTimeout \/ Kept = {}, NEW j \in Jobs, stage[j] = "waiting"
    PROVE  \E d \in Jobs : CanGoOn(d)
<1>1. CASE \E d \in Jobs : stage[d] \in {"granted", "enqueued"}
  BY <1>1 DEF CanGoOn
<1>2. CASE HasTimeout
  BY <1>2 DEF CanGoOn
<1>3. CASE Kept = {} /\ \A d \in Jobs : stage[d] \notin {"granted", "enqueued"}
  <2>1. Held = {}
    BY <1>3 DEF Held
  <2>2. Cardinality(Held) = 0 /\ Cardinality(Kept) = 0
    BY <1>3, <2>1, FS_EmptySet
  <2>3. /\ permits \in Nat /\ releases \in Nat /\ unsignalled \in 0..releases
        /\ Cardinality(Minted) \in Nat
    BY CountsFinite, DispatcherAssumption DEF PInv, QueueInv, TypeOK
  <2>4. permits > 0
    BY <2>2, <2>3 DEF PInv, PermitAccounting
  <2> QED
    BY <2>4 DEF CanGoOn
<1> QED
  BY <1>1, <1>2, <1>3

\* As long as a submitted block has not run, the gate can take a step of its own.
THEOREM GateNeverStuck == Spec => []NeverStuck
<1>1. PInv => NeverStuck
  <2> SUFFICES ASSUME PInv, HasTimeout \/ Kept = {},
                      NEW j \in Jobs, stage[j] # "new", ran[j] = 0,
                      ~(ThreadFree /\ queue # <<>>)
               PROVE  \E d \in Jobs : CanGoOn(d)
    BY DEF NeverStuck
  <2>1. CASE stage[j] \in {"waiting", "granted", "enqueued"}
    BY <2>1, WaitingGoesOn DEF CanGoOn
  <2>2. CASE stage[j] \in {"direct", "queued", "over"}
    <3>1. queue # <<>>
      BY <2>2, PlacedSomewhere DEF PInv, QueueInv
    <3>2. Working # {}
      <4>1. ~ThreadFree
        BY <3>1
      <4>2. Working = {} => Cardinality(Working) = 0
        BY FS_EmptySet
      <4>3. Width \in Nat /\ Width # 0
        BY DispatcherAssumption
      <4> QED
        BY <4>1, <4>2, <4>3 DEF ThreadFree
    <3>3. PICK d \in Jobs : stage[d] \in {"waiting", "granted", "enqueued"}
      BY <3>2 DEF Working
    <3> QED
      BY <3>3, WaitingGoesOn DEF CanGoOn
  <2> QED
    BY <2>1, <2>2 DEF PInv, QueueInv, TypeOK, Stages
<1> QED
  BY <1>1, PermitInvariance, PTL
-----------------------------------------------------------------------------
(* The gate implements BlockExecutor                                       *)

\* A step of one job that changes its block changes no other.
LEMMA BlockMoves ==
    ASSUME QueueInv, NEW j \in Jobs, JobStep(j)
    PROVE  /\ \A d \in Jobs \ {j} : BlockState(d)' = BlockState(d)
           /\ \/ BlockState(j) = "new" /\ BlockState(j)' = "submitted"
              \/ BlockState(j) = "submitted" /\ BlockState(j)' = "ran"
              \/ BlockState(j)' = BlockState(j)
<1> USE DEF QueueInv, TypeOK, MoveTo, BlockState
<1>1. CASE executeBlock(j)
  <2>1. ran' = ran /\ ran[j] = 0 /\ stage[j] = "new"
    BY <1>1 DEF executeBlock, Placed, Place
  <2>2. \E s \in {"direct", "queued"} : stage' = [stage EXCEPT ![j] = s]
    BY <1>1 DEF executeBlock
  <2> QED
    BY <2>1, <2>2
<1>2. CASE StartWrapper(j)
  BY <1>2, TakeQueue DEF StartWrapper
<1>3. CASE RunBlock(j)
  BY <1>3, TakeQueue DEF RunBlock
<1>4. CASE WaitEnds(j) \/ EnqueueBlock(j) \/ SignalNext(j)
  BY <1>4 DEF WaitEnds, EnqueueBlock, SignalNext
<1> QED
  BY <1>1, <1>2, <1>3, <1>4 DEF JobStep

\* Every step of the gate maps to a step of BlockExecutor or to a stutter.
LEMMA NextExecutes ==
    QueueInv /\ [Next]_vars =>
       [Executor!ExecutorNext]_([j \in Jobs |-> BlockState(j)])
<1> SUFFICES ASSUME QueueInv, [Next]_vars
             PROVE  [Executor!ExecutorNext]_([j \in Jobs |-> BlockState(j)])
  OBVIOUS
<1> DEFINE block == [j \in Jobs |-> BlockState(j)]
<1>1. ASSUME NEW j \in Jobs, JobStep(j)
      PROVE  Executor!Submit(j) \/ Executor!Run(j) \/ block' = block
  <2>1. CASE BlockState(j)' = BlockState(j)
    BY <1>1, <2>1, BlockMoves
  <2>2. CASE BlockState(j) = "new" /\ BlockState(j)' = "submitted"
    <3>1. block[j] = "new" /\ block' = [block EXCEPT ![j] = "submitted"]
      BY <1>1, <2>2, BlockMoves
    <3> QED
      BY <3>1 DEF Executor!Submit
  <2>3. CASE BlockState(j) = "submitted" /\ BlockState(j)' = "ran"
    <3>1. block[j] = "submitted" /\ block' = [block EXCEPT ![j] = "ran"]
      BY <1>1, <2>3, BlockMoves
    <3> QED
      BY <3>1 DEF Executor!Run
  <2> QED
    BY <1>1, <2>1, <2>2, <2>3, BlockMoves
<1>2. CASE ReleaseLights \/ ReleaseSignals \/ UNCHANGED vars
  <2>1. UNCHANGED <<stage, ran>>
    BY <1>2 DEF ReleaseLights, ReleaseSignals, vars
  <2> QED
    BY <2>1 DEF BlockState
<1> QED
  BY <1>1, <1>2 DEF Next, Executor!ExecutorNext

\* A block handed to executeBlock runs once, whatever the lights, the permits, the
\* timeouts and the threads do.
THEOREM ExecutesOnce == Spec => Executor!ExecutorSafety
<1>1. Init => Executor!ExecutorInit
  BY DEF Init, Executor!ExecutorInit, BlockState
<1> QED
  BY <1>1, InitQueue, NextQueue, NextExecutes, PTL DEF Spec, Executor!ExecutorSafety
=============================================================================
