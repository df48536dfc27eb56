-------------------------- MODULE ReachabilityProofs -------------------------
(***************************************************************************)
(* Proofs about Reachability: its type invariant, and that the listeners   *)
(* of a quiet notifier have been told the truth.                           *)
(***************************************************************************)
EXTENDS Reachability, TLAPS

\* The main queue's items, apart from TypeOK's name for them.
Items == {"block", "tell"} \X Blocks

\* The bounds are numbers, and nil is no set of flags.
LEMMA Bounds == MaxChanges \in Nat /\ MaxCalls \in Nat
                /\ Flags \subseteq AllFlags /\ NeverRead \notin AllFlags
  BY ReachabilityAssumption

\* One look keeps a thread inside connection, or ends it.
LEMMA LookType == ASSUME NEW r \in Reading, r.at \in Looks, NEW f
                  PROVE  Look(r, f) \in Reading
  <1>1. CASE r.at = "reachable"
    BY <1>1, SMT DEF Look, Reading, Looks, Connections
  <1>2. CASE r.at = "required"
    BY <1>2, SMT DEF Look, Reading, Looks, Connections
  <1>3. CASE r.at = "onDemand"
    BY <1>3, SMT DEF Look, Reading, Looks, Connections
  <1>4. CASE r.at = "intervention"
    BY <1>4, SMT DEF Look, Reading, Looks, Connections
  <1>5. CASE r.at = "wwan"
    BY <1>5, SMT DEF Look, Reading, Looks, Connections
  <1> QED BY <1>1, <1>2, <1>3, <1>4, <1>5 DEF Looks

LEMMA ReadingType == Idle \in Reading /\ Begin \in Reading
  BY DEF Idle, Begin, Reading, Looks, Connections

\* Every flag read is a set of flags.
LEMMA SeenType == ASSUME TypeOK PROVE Seen \subseteq AllFlags
  <1>1. NoFlags \in AllFlags
    BY SMT DEF NoFlags, AllFlags
  <1> QED BY <1>1, Bounds DEF TypeOK, Seen

\* An empty queue is one of length 0.
LEMMA Emptiness == \A q \in Seq(Items) : q = <<>> <=> Len(q) = 0
  OBVIOUS
-----------------------------------------------------------------------------
(* Type correctness                                                        *)

LEMMA InitType == Init => TypeOK
  <1> SUFFICES ASSUME Init PROVE TypeOK
    OBVIOUS
  <1>1. mainQueue \in Seq({"block", "tell"} \X Blocks)
    BY DEF Init
  <1>2. changes \in 0..MaxChanges /\ calls \in 0..MaxCalls /\ checks \in Nat
    BY Bounds DEF Init
  <1> QED BY <1>1, <1>2, ReadingType DEF Init, TypeOK

LEMMA NextType == TypeOK /\ [Next]_vars => TypeOK'
  <1> SUFFICES ASSUME TypeOK, [Next]_vars PROVE TypeOK'
    OBVIOUS
  <1> USE Bounds
  <1>1. ASSUME FlagsChange PROVE TypeOK'
    BY <1>1 DEF FlagsChange, TypeOK
  <1>2. ASSUME startNetworkStateNotifier PROVE TypeOK'
    <2>1. calls' \in 0..MaxCalls
      BY <1>2 DEF startNetworkStateNotifier, TypeOK
    <2>3. checks' \in Nat
      <3>1. checks' = checks \/ checks' = checks + 1
        BY <1>2, Zenon DEF startNetworkStateNotifier
      <3> QED BY <3>1 DEF TypeOK
    <2>2. notifierRunning' \in BOOLEAN /\ callback' \in BOOLEAN
      BY <1>2, Zenon DEF startNetworkStateNotifier, TypeOK
    <2> QED BY <1>2, <2>1, <2>2, <2>3 DEF startNetworkStateNotifier, TypeOK
  <1>3. ASSUME stopNetworkStateNotifier PROVE TypeOK'
    <2>1. calls' \in 0..MaxCalls
      BY <1>3 DEF stopNetworkStateNotifier, TypeOK
    <2>2. notifierRunning' \in BOOLEAN /\ callback' \in BOOLEAN
      BY <1>3, Zenon DEF stopNetworkStateNotifier, TypeOK
    <2> QED BY <1>3, <2>1, <2>2 DEF stopNetworkStateNotifier, TypeOK
  <1>4. ASSUME HandlerBegins PROVE TypeOK'
    <2>1. checks' \in Nat
      BY <1>4 DEF HandlerBegins, TakeCall, TypeOK
    <2>3. callback' \in BOOLEAN
      BY <1>4, Zenon DEF HandlerBegins, TakeCall, TypeOK
    <2>2. handler' \in Reading /\ torn' \in BOOLEAN
      BY <1>4, ReadingType DEF HandlerBegins, TypeOK
    <2> QED BY <1>4, <2>1, <2>2, <2>3 DEF HandlerBegins, TypeOK
  <1>5. ASSUME HandlerLooks PROVE TypeOK'
    <2>1. handler' \in Reading /\ torn' \in BOOLEAN
      BY <1>5, LookType DEF HandlerLooks, TypeOK
    <2> QED BY <1>5, <2>1 DEF HandlerLooks, TypeOK
  <1>6. ASSUME HandlerPosts PROVE TypeOK'
    <2>1. mainQueue' \in Seq({"block", "tell"} \X Blocks)
      BY <1>6 DEF HandlerPosts, TypeOK, Blocks
    <2>2. handler' \in Reading
      BY <1>6 DEF HandlerPosts, TypeOK, Reading
    <2> QED BY <1>6, <2>1, <2>2 DEF HandlerPosts, TypeOK
  <1>7. ASSUME HandlerRecords PROVE TypeOK'
    <2>1. previousFlags' \in AllFlags /\ torn' \in BOOLEAN
      BY <1>7, SeenType DEF HandlerRecords, TypeOK
    <2> QED BY <1>7, <2>1, ReadingType DEF HandlerRecords, TypeOK
  <1>8. ASSUME NEW b \in Blocks, MainHops(b) PROVE TypeOK'
    <2>1. mainQueue' \in Seq({"block", "tell"} \X Blocks)
      BY <1>8 DEF MainHops, TypeOK
    <2> QED BY <1>8, <2>1 DEF MainHops, TypeOK
  <1>9. ASSUME NEW b \in Blocks, MainTells(b) PROVE TypeOK'
    <2>1. mainQueue' \in Seq({"block", "tell"} \X Blocks)
      BY <1>9 DEF MainTells, TypeOK
    <2> QED BY <1>9, <2>1, ReadingType DEF MainTells, TypeOK
  <1>10. ASSUME TellerLooks PROVE TypeOK'
    <2>1. teller' \in Reading
      BY <1>10, LookType DEF TellerLooks, TypeOK
    <2> QED BY <1>10, <2>1 DEF TellerLooks, TypeOK
  <1>11. ASSUME TellerPosts PROVE TypeOK'
    BY <1>11, ReadingType DEF TellerPosts, TypeOK
  <1>12. CASE UNCHANGED vars
    BY <1>12 DEF vars, TypeOK
  <1> QED
    BY <1>1, <1>2, <1>3, <1>4, <1>5, <1>6, <1>7, <1>8, <1>9, <1>10, <1>11, <1>12
       DEF Next, NotifierStep, MainStep

\* The notifier never leaves the ranges of its variables; a check, once taken, is gone.
THEOREM ReachabilityTypeCorrect == Spec => []TypeOK
  BY InitType, NextType, PTL DEF Spec
-----------------------------------------------------------------------------
(* What has been said last, or is due to be                                *)

BlockOf(connection) == IF connection # "none" THEN "reachable" ELSE "unreachable"
EventOf(b)          == IF b = "reachable" THEN "connected" ELSE "disconnected"

\* Once the main queue has run what it holds, the last event posted is that of b: the
\* last block not yet run is b; there is none, and the last hop is b's; there is none
\* either, and a hop for reachable is running; or the event has been posted.
DueBlock(b) ==
    \A i \in DOMAIN mainQueue :
       /\ mainQueue[i][1] = "block"
       /\ \A j \in DOMAIN mainQueue : j > i => mainQueue[j][1] = "tell"
       => mainQueue[i][2] = b

DueTell(b) ==
    (mainQueue # <<>> /\ \A i \in DOMAIN mainQueue : mainQueue[i][1] = "tell")
       => mainQueue[Len(mainQueue)][2] = b

DueNow(b) ==
    mainQueue = <<>> => IF teller.at = "idle" THEN skipped \/ told = EventOf(b)
                                              ELSE b = "reachable"

LastIs(b) == DueBlock(b) /\ DueTell(b) /\ DueNow(b)
-----------------------------------------------------------------------------
(* The inductive invariant                                                 *)

\* A pass in which the flags stood still has seen of them what it should have.
Progress(r) ==
    CASE r.at = "idle"         -> TRUE
      [] r.at = "reachable"    -> r.connection = "none"
      [] r.at = "required"     -> flags.reachable /\ r.connection = "none"
      [] r.at = "onDemand"     -> /\ flags.reachable
                                  /\ r.connection = IF flags.required THEN "none" ELSE "wifi"
      [] r.at = "intervention" -> /\ flags.reachable /\ flags.onDemand
                                  /\ r.connection = IF flags.required THEN "none" ELSE "wifi"
      [] r.at = "wwan"         -> /\ flags.reachable
                                  /\ r.connection = IF \/ ~flags.required
                                                       \/ flags.onDemand /\ ~flags.intervention
                                                    THEN "wifi" ELSE "none"
      [] OTHER                 -> r.connection = ConnectionOf(flags)

ProgressInv == ~torn => Progress(handler)

\* What is recorded has been said, or is about to be.
RecordedInv == /\ handler.at = "recording" => LastIs(BlockOf(handler.connection))
               /\ (handler.at = "idle" /\ ~torn /\ previousFlags # NeverRead)
                     => LastIs(BlockOf(ConnectionOf(previousFlags)))

\* A running notifier with nothing to do has recorded the flags as they are.
CurrentInv == (/\ notifierRunning /\ handler.at = "idle" /\ ~torn
               /\ checks = 0 /\ ~callback)
                 => previousFlags = flags

RInv == TypeOK /\ ProgressInv /\ RecordedInv /\ CurrentInv

\* The invariant is strong enough.
LEMMA InvTold == RInv => QuietTold
  <1> SUFFICES ASSUME RInv, Quiet, notifierRunning, ~torn, ~skipped PROVE ToldTruth
    BY DEF QuietTold
  <1>1. previousFlags = flags
    BY DEF RInv, CurrentInv, Quiet
  <1>2. previousFlags # NeverRead
    BY <1>1, Bounds DEF RInv, TypeOK
  <1>3. LastIs(BlockOf(ConnectionOf(flags)))
    BY <1>1, <1>2 DEF RInv, RecordedInv, Quiet
  <1> QED BY <1>3 DEF LastIs, DueNow, Quiet, ToldTruth, EventOf, BlockOf

LEMMA InvInit == Init => RInv
  BY InitType, SMT
  DEF Init, RInv, ProgressInv, Progress, RecordedInv, CurrentInv, Idle
-----------------------------------------------------------------------------
(* The main queue keeps what is due                                        *)

LEMMA HopsKeep == ASSUME TypeOK, NEW b \in Blocks, NEW d, LastIs(d), MainHops(b)
                  PROVE  LastIs(d)'
  <1> DEFINE q == mainQueue
             n == Len(mainQueue)
  <1>1. q \in Seq(Items) /\ q # <<>> /\ n \in Nat /\ n > 0 /\ DOMAIN q = 1..n
    BY DEF TypeOK, MainHops, Items
  <1>2. q[1] = <<"block", b>>
    BY <1>1 DEF MainHops
  <1>3. /\ mainQueue' \in Seq(Items) /\ Len(mainQueue') = n /\ DOMAIN mainQueue' = 1..n
        /\ mainQueue'[n] = <<"tell", b>>
        /\ \A i \in 1..(n - 1) : mainQueue'[i] = q[i + 1]
    BY <1>1 DEF MainHops, Items
  <1> HIDE DEF n
  <1>4. DueBlock(d)'
    <2> SUFFICES ASSUME NEW i \in 1..n, mainQueue'[i][1] = "block",
                        \A j \in 1..n : j > i => mainQueue'[j][1] = "tell"
                 PROVE  mainQueue'[i][2] = d
      BY <1>3 DEF DueBlock
    <2>0. mainQueue'[n][1] = "tell"
      BY <1>3
    <2>1. i \in 1..(n - 1) /\ mainQueue'[i] = q[i + 1] /\ i + 1 \in 1..n
      <3>1. i # n
        BY <2>0
      <3>2. i \in 1..(n - 1) /\ i + 1 \in 1..n
        BY <3>1, <1>1
      <3> QED BY <3>2, <1>3
    <2>2. ASSUME NEW j \in 1..n, j > i + 1 PROVE q[j][1] = "tell"
      <3>1. j - 1 \in 1..(n - 1) /\ j - 1 > i /\ j - 1 \in 1..n /\ (j - 1) + 1 = j
        BY <2>1, <2>2, <1>1
      <3>2. mainQueue'[j - 1] = q[j]
        BY <3>1, <1>3
      <3> QED BY <3>1, <3>2
    <2> QED BY <2>1, <2>2, <1>1 DEF LastIs, DueBlock
  <1>5. DueTell(d)'
    <2> SUFFICES ASSUME \A i \in 1..n : mainQueue'[i][1] = "tell"
                 PROVE  mainQueue'[n][2] = d
      BY <1>3 DEF DueTell
    <2>1. ASSUME NEW j \in 1..n, j > 1 PROVE q[j][1] = "tell"
      <3>1. j - 1 \in 1..(n - 1) /\ j - 1 \in 1..n /\ (j - 1) + 1 = j
        BY <2>1, <1>1
      <3>2. mainQueue'[j - 1] = q[j]
        BY <3>1, <1>3
      <3> QED BY <3>1, <3>2
    <2>2. b = d
      BY <2>1, <1>1, <1>2 DEF LastIs, DueBlock
    <2>3. n \in 1..n /\ mainQueue'[n] = <<"tell", b>>
      BY <1>1, <1>3
    <2> QED BY <2>2, <2>3
  <1>6. mainQueue' # <<>>
    BY <1>1, <1>3, Emptiness
  <1> QED BY <1>4, <1>5, <1>6 DEF LastIs, DueNow

LEMMA TellsKeep == ASSUME TypeOK, NEW b \in Blocks, NEW d, LastIs(d), MainTells(b)
                   PROVE  LastIs(d)'
  <1> DEFINE q == mainQueue
             n == Len(mainQueue)
  <1>1. q \in Seq(Items) /\ q # <<>> /\ n \in Nat /\ n > 0 /\ DOMAIN q = 1..n
    BY DEF TypeOK, MainTells, Items
  <1>2. q[1] = <<"tell", b>>
    BY <1>1 DEF MainTells
  <1>3. /\ mainQueue' \in Seq(Items) /\ Len(mainQueue') = n - 1
        /\ DOMAIN mainQueue' = 1..(n - 1)
        /\ \A i \in 1..(n - 1) : mainQueue'[i] = q[i + 1]
    BY <1>1 DEF MainTells, Items
  <1>4. DueBlock(d)'
    <2> SUFFICES ASSUME NEW i \in 1..(n - 1), mainQueue'[i][1] = "block",
                        \A j \in 1..(n - 1) : j > i => mainQueue'[j][1] = "tell"
                 PROVE  mainQueue'[i][2] = d
      BY <1>3 DEF DueBlock
    <2>1. mainQueue'[i] = q[i + 1] /\ i + 1 \in 1..n
      BY <1>1, <1>3
    <2>2. ASSUME NEW j \in 1..n, j > i + 1 PROVE q[j][1] = "tell"
      <3>1. j - 1 \in 1..(n - 1) /\ j - 1 > i /\ (j - 1) + 1 = j
        BY <2>2, <1>1
      <3>2. mainQueue'[j - 1] = q[j]
        BY <3>1, <1>3
      <3> QED BY <3>1, <3>2
    <2> QED BY <2>1, <2>2, <1>1 DEF LastIs, DueBlock
  <1>5. ASSUME NEW j \in 1..n, j > 1, \A i \in 1..(n - 1) : mainQueue'[i][1] = "tell"
        PROVE  q[j][1] = "tell"
    <2>1. j - 1 \in 1..(n - 1) /\ (j - 1) + 1 = j
      BY <1>5, <1>1
    <2>2. mainQueue'[j - 1] = q[j]
      BY <2>1, <1>3
    <2> QED BY <2>1, <2>2, <1>5
  <1>6. (\A i \in 1..(n - 1) : mainQueue'[i][1] = "tell") => q[n][2] = d
    BY <1>5, <1>1, <1>2 DEF LastIs, DueTell
  <1>7. DueTell(d)'
    <2> SUFFICES ASSUME mainQueue' # <<>>,
                        \A i \in 1..(n - 1) : mainQueue'[i][1] = "tell"
                 PROVE  mainQueue'[n - 1][2] = d
      BY <1>3 DEF DueTell
    <2>1. n - 1 \in 1..(n - 1)
      BY <1>1, <1>3
    <2>2. mainQueue'[n - 1] = q[(n - 1) + 1] /\ (n - 1) + 1 = n
      BY <2>1, <1>1, <1>3
    <2> QED BY <2>2, <1>6
  <1>8. DueNow(d)'
    <2> SUFFICES ASSUME mainQueue' = <<>>
                 PROVE  IF teller'.at = "idle" THEN skipped' \/ told' = EventOf(d)
                                               ELSE d = "reachable"
      BY DEF DueNow
    <2>1. n = 1
      <3>1. n - 1 = 0
        BY <1>3, Emptiness
      <3> QED BY <3>1, <1>1
    <2>2. b = d
      BY <2>1, <1>2, <1>6
    <2> QED BY <2>2 DEF MainTells, Begin, EventOf
  <1> QED BY <1>4, <1>7, <1>8 DEF LastIs

LEMMA TellerKeeps == ASSUME TypeOK, NEW d, LastIs(d), TellerLooks \/ TellerPosts
                     PROVE  LastIs(d)'
  <1>1. CASE TellerLooks
    <2>1. teller.at # "idle" /\ teller'.at # "idle"
      BY <1>1 DEF TellerLooks, Looks, Look, TypeOK, Reading
    <2> QED BY <1>1, <2>1 DEF TellerLooks, LastIs, DueBlock, DueTell, DueNow
  <1>2. CASE TellerPosts
    BY <1>2 DEF TellerPosts, LastIs, DueBlock, DueTell, DueNow, Idle, EventOf
  <1> QED BY <1>1, <1>2

\* A block put at the end of the main queue is what is said last.
LEMMA PostsLast == ASSUME TypeOK, HandlerPosts
                   PROVE  LastIs(BlockOf(handler.connection))'
  <1> DEFINE b == BlockOf(handler.connection)
             n == Len(mainQueue)
  <1>1. mainQueue \in Seq(Items) /\ n \in Nat /\ b \in Blocks
    BY DEF TypeOK, Items, BlockOf, Blocks
  <1>2. mainQueue' = Append(mainQueue, <<"block", b>>)
    BY DEF HandlerPosts, BlockOf
  <1>3. /\ DOMAIN mainQueue' = 1..(n + 1) /\ mainQueue'[n + 1] = <<"block", b>>
        /\ mainQueue' # <<>>
    BY <1>1, <1>2 DEF Items
  <1>4. handler'.connection = handler.connection
    BY DEF HandlerPosts, TypeOK, Reading
  <1>5. DueBlock(b)'
    BY <1>1, <1>3, <1>4 DEF DueBlock
  <1>6. DueTell(b)'
    BY <1>1, <1>3 DEF DueTell
  <1>7. DueNow(b)'
    BY <1>3 DEF DueNow
  <1> QED BY <1>4, <1>5, <1>6, <1>7 DEF LastIs, BlockOf
-----------------------------------------------------------------------------
(* The steps keep the invariant                                            *)

\* A look at flags that stand still is progress.
LEMMA LookProgress ==
    ASSUME TypeOK, Progress(handler), handler.at \in Looks
    PROVE  Progress(Look(handler, flags)) /\ Look(handler, flags).at \notin {"idle", "recording"}
  <1>1. CASE handler.at = "reachable"
    BY <1>1, SMT DEF Look, Progress, ConnectionOf
  <1>2. CASE handler.at = "required"
    BY <1>2, SMT DEF Look, Progress, ConnectionOf
  <1>3. CASE handler.at = "onDemand"
    BY <1>3, SMT DEF Look, Progress, ConnectionOf, TypeOK, Reading
  <1>4. CASE handler.at = "intervention"
    BY <1>4, SMT DEF Look, Progress, ConnectionOf
  <1>5. CASE handler.at = "wwan"
    BY <1>5, SMT DEF Look, Progress, ConnectionOf
  <1> QED BY <1>1, <1>2, <1>3, <1>4, <1>5 DEF Looks

LEMMA LookGoesOn == ASSUME NEW r \in Reading, r.at \in Looks, NEW f
                    PROVE  Look(r, f).at \notin {"idle", "recording"}
  <1>1. CASE r.at = "reachable"
    BY <1>1, SMT DEF Look
  <1>2. CASE r.at = "required"
    BY <1>2, SMT DEF Look
  <1>3. CASE r.at = "onDemand"
    BY <1>3, SMT DEF Look, Reading
  <1>4. CASE r.at = "intervention"
    BY <1>4, SMT DEF Look
  <1>5. CASE r.at = "wwan"
    BY <1>5, SMT DEF Look
  <1> QED BY <1>1, <1>2, <1>3, <1>4, <1>5 DEF Looks

LEMMA InvNext == RInv /\ [Next]_vars => RInv'
  <1> SUFFICES ASSUME RInv, [Next]_vars PROVE RInv'
    OBVIOUS
  <1>0. TypeOK /\ TypeOK' /\ ProgressInv /\ RecordedInv /\ CurrentInv
    BY NextType DEF RInv
  <1> DEFINE Goal == ProgressInv' /\ RecordedInv' /\ CurrentInv'
             Due  == <<mainQueue, teller, told, skipped>>
  <1>a. ASSUME NEW d, LastIs(d), UNCHANGED Due PROVE LastIs(d)'
    BY <1>a DEF LastIs, DueBlock, DueTell, DueNow
  <1>b. ASSUME UNCHANGED <<flags, handler, torn>> PROVE ProgressInv'
    BY <1>b, <1>0 DEF ProgressInv, Progress, ConnectionOf
  <1>1. ASSUME FlagsChange PROVE Goal
    <2>1. ProgressInv'
      BY <1>1 DEF FlagsChange, ProgressInv, Progress
    <2>2. RecordedInv'
      BY <1>0, <1>1, <1>a DEF FlagsChange, RecordedInv, ConnectionOf
    <2>3. CurrentInv'
      BY <1>0, <1>1 DEF FlagsChange, CurrentInv
    <2> QED BY <2>1, <2>2, <2>3
  <1>2. ASSUME startNetworkStateNotifier PROVE Goal
    <2>1. ProgressInv'
      BY <1>2, <1>b DEF startNetworkStateNotifier
    <2>2. RecordedInv'
      BY <1>0, <1>2, <1>a DEF startNetworkStateNotifier, RecordedInv
    <2>3. CurrentInv'
      <3>1. ASSUME checks' = checks + 1 PROVE CurrentInv'
        <4>1. checks' # 0
          <5>1. checks \in Nat
            BY <1>0 DEF TypeOK
          <5> QED BY <3>1, <5>1
        <4> QED BY <4>1 DEF CurrentInv
      <3>2. ASSUME notifierRunning, UNCHANGED <<notifierRunning, checks, callback>>
            PROVE  CurrentInv'
        BY <1>0, <1>2, <3>2 DEF startNetworkStateNotifier, CurrentInv
      <3>3. ASSUME ~notifierRunning, UNCHANGED notifierRunning PROVE CurrentInv'
        BY <3>3 DEF CurrentInv
      <3> QED BY <1>2, <3>1, <3>2, <3>3 DEF startNetworkStateNotifier
    <2> QED BY <2>1, <2>2, <2>3
  <1>3. ASSUME stopNetworkStateNotifier PROVE Goal
    <2>1. ProgressInv'
      BY <1>3, <1>b DEF stopNetworkStateNotifier
    <2>2. RecordedInv'
      BY <1>0, <1>3, <1>a DEF stopNetworkStateNotifier, RecordedInv
    <2>3. CurrentInv'
      BY <1>3 DEF stopNetworkStateNotifier, CurrentInv
    <2> QED BY <2>1, <2>2, <2>3
  <1>4. ASSUME HandlerBegins PROVE Goal
    <2>1. UNCHANGED <<flags, notifierRunning, previousFlags, Due>> /\ handler.at = "idle"
      BY <1>4 DEF HandlerBegins
    <2>2. PICK f \in Seen : \/ /\ f # previousFlags
                               /\ handler' = Begin
                               /\ torn' = (f # flags)
                            \/ /\ f = previousFlags
                               /\ torn' = (torn \/ f # flags)
                               /\ UNCHANGED handler
      BY <1>4 DEF HandlerBegins
    <2>3. CASE handler' = Begin
      BY <2>1, <2>3, SMT DEF ProgressInv, Progress, RecordedInv, CurrentInv, Begin
    <2>4. CASE f = previousFlags /\ torn' = (torn \/ f # flags) /\ UNCHANGED handler
      <3>1. ProgressInv'
        BY <2>1, <2>4, <1>0, SMT DEF ProgressInv, Progress
      <3>2. RecordedInv'
        BY <2>1, <2>4, <1>0, <1>a DEF RecordedInv
      <3>3. CurrentInv'
        BY <2>1, <2>4 DEF CurrentInv
      <3> QED BY <3>1, <3>2, <3>3
    <2> QED BY <2>2, <2>3, <2>4
  <1>5. ASSUME HandlerLooks PROVE Goal
    <2>1. UNCHANGED <<flags, Due>> /\ handler.at \in Looks
      BY <1>5 DEF HandlerLooks
    <2>2. PICK f \in Seen : handler' = Look(handler, f) /\ torn' = (torn \/ f # flags)
      BY <1>5 DEF HandlerLooks
    <2>3. handler'.at \notin {"idle", "recording"}
      BY <2>1, <2>2, <1>0, LookGoesOn DEF TypeOK
    <2>4. ~torn' => Progress(handler')
      BY <2>1, <2>2, <1>0, LookProgress DEF ProgressInv
    <2>5. ProgressInv'
      BY <2>1, <2>4 DEF ProgressInv, Progress, ConnectionOf
    <2> QED BY <2>3, <2>5 DEF RecordedInv, CurrentInv
  <1>6. ASSUME HandlerPosts PROVE Goal
    <2>1. /\ handler.at = "decided" /\ handler'.at = "recording"
          /\ handler'.connection = handler.connection
          /\ UNCHANGED <<flags, torn>>
      BY <1>6, <1>0 DEF HandlerPosts, TypeOK, Reading
    <2>2. ProgressInv'
      BY <2>1, <1>0 DEF ProgressInv, Progress, ConnectionOf
    <2>3. LastIs(BlockOf(handler.connection))'
      BY <1>0, <1>6, PostsLast
    <2> QED BY <2>1, <2>2, <2>3 DEF RecordedInv, CurrentInv
  <1>7. ASSUME HandlerRecords PROVE Goal
    <2>1. /\ handler.at = "recording" /\ handler'.at = "idle"
          /\ UNCHANGED <<flags, Due>>
      BY <1>7 DEF HandlerRecords, Idle
    <2>2. ~torn' => ~torn /\ previousFlags' = flags
      BY <1>7 DEF HandlerRecords
    <2>3. PICK d : d = BlockOf(handler.connection) /\ LastIs(d)
      BY <2>1, <1>0 DEF RecordedInv
    <2>6. LastIs(d)'
      BY <2>1, <2>3, <1>a
    <2>4. ~torn => handler.connection = ConnectionOf(flags)
      BY <2>1, <1>0 DEF ProgressInv, Progress
    <2>5. ProgressInv'
      BY <2>1 DEF ProgressInv, Progress
    <2>7. ~torn' => d = BlockOf(ConnectionOf(previousFlags'))
      BY <2>2, <2>3, <2>4
    <2>8. RecordedInv'
      BY <2>1, <2>6, <2>7 DEF RecordedInv, ConnectionOf
    <2>9. CurrentInv'
      BY <2>1, <2>2 DEF CurrentInv
    <2> QED BY <2>5, <2>8, <2>9
  <1>8. ASSUME MainStep PROVE Goal
    <2>1. UNCHANGED <<flags, notifierRunning, previousFlags, checks, callback, handler, torn>>
      BY <1>8 DEF MainStep, MainHops, MainTells, TellerLooks, TellerPosts
    <2>2. ASSUME NEW d, LastIs(d) PROVE LastIs(d)'
      BY <2>2, <1>0, <1>8, HopsKeep, TellsKeep, TellerKeeps DEF MainStep
    <2>3. RecordedInv'
      BY <2>1, <2>2, <1>0 DEF RecordedInv
    <2>4. CurrentInv'
      BY <2>1, <1>0 DEF CurrentInv
    <2> QED BY <2>1, <2>3, <2>4, <1>b
  <1>9. ASSUME UNCHANGED vars PROVE Goal
    <2>1. RecordedInv'
      BY <1>0, <1>9, <1>a DEF vars, RecordedInv
    <2>2. CurrentInv'
      BY <1>0, <1>9 DEF vars, CurrentInv
    <2> QED BY <2>1, <2>2, <1>9, <1>b DEF vars
  <1> QED
    BY <1>0, <1>1, <1>2, <1>3, <1>4, <1>5, <1>6, <1>7, <1>8, <1>9
       DEF Next, NotifierStep, RInv

\* RInv is an invariant: what the notifier has recorded in a pass through which the flags
\* stood still is what its listeners have heard last or are about to hear.
THEOREM ReachabilityInvariance == Spec => []RInv
  BY InvInit, InvNext, PTL DEF Spec

\* When nothing is under way, the listeners of a running notifier know whether there is a
\* connection, unless the flags changed within the last pass or a connected was dropped.
THEOREM ListenersKnow == Spec => []QuietTold
  BY ReachabilityInvariance, InvTold, PTL
=============================================================================
