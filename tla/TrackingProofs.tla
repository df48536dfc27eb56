---------------------------- MODULE TrackingProofs ----------------------------
(***************************************************************************)
(* What AwesomeRequestManager tracks when the application confines it to   *)
(* the main thread: the dictionary holds no finished task, and holds the   *)
(* task of every call that has its key to itself.  On any threads, who     *)
(* cancels a task.                                                         *)
(***************************************************************************)
EXTENDS AwesomeNetworkProofs

\* removeAll drops nothing that the loop before it has not cancelled: on the main thread
\* nothing is added in between.
SweepInv == Confined => \A m \in sweeping : Tracked(m) \subseteq cancelled

TrackInv == IInv /\ NoFinishedTaskTracked /\ UniqueKeyTracked /\ SweepInv

\* Confined: an entry of the dictionary, and the entry a call alone in its slot must have.
EntryOk(s) ==
    requestQueue[s] # NoTask =>
       \E c \in Calls : requestQueue[s] = Task(c) /\ InFlight(c) /\ Slot(owner[c], c) = s

TrackedOk(c) ==
    (InFlight(c) /\ Task(c) \notin cancelled /\ Alone(c))
       => requestQueue[Slot(owner[c], c)] = Task(c)

\* The three parts of the invariant that a step may disturb.
Tracking == NoFinishedTaskTracked /\ UniqueKeyTracked /\ SweepInv

\* An entry is a slot's, and nil is no task.
LEMMA InFlightFacts ==
    ASSUME TrackInv, NEW c \in Calls, InFlight(c)
    PROVE  /\ request[c].url # NoUrl /\ owner[c] \in Managers
           /\ Slot(owner[c], c) \in Slots /\ Task(c) # NoTask
<1>1. request[c].url # NoUrl /\ owner[c] \in Managers
  BY OwnerFacts DEF TrackInv, IInv, CallInv, InFlight
<1>2. Slot(owner[c], c) \in Slots
  BY <1>1, SlotFacts DEF TrackInv, IInv
<1>3. Task(c) \in Calls \X Nat
  BY DEF Task, TrackInv, IInv, TypeOK
<1> QED
  BY <1>1, <1>2, <1>3, ConstantAssumption
-----------------------------------------------------------------------------
\* Nothing is tracked at first.
LEMMA InitTrack == Init => TrackInv
<1> SUFFICES ASSUME Init PROVE TrackInv
  OBVIOUS
<1>1. IInv
  BY InitInv
<1>2. NoFinishedTaskTracked /\ SweepInv
  BY DEF Init, ManagerInit, NoFinishedTaskTracked, SweepInv
<1>3. UniqueKeyTracked
  BY DEF Init, UniqueKeyTracked, InFlight
<1> QED
  BY <1>1, <1>2, <1>3 DEF TrackInv

\* A send stores the call's new task in its slot and touches no other slot.
LEMMA SendTrack ==
    ASSUME TrackInv, Confined, sweeping = {}, NEW c \in Calls, request[c].url # NoUrl,
           ~InFlight(c), NEW m \in Managers, Send(m, c), request' = request,
           owner' = [owner EXCEPT ![c] = m], owner[c] = m \/ owner[c] = 0
    PROVE  Tracking'
<1> DEFINE slot == Slot(m, c)
<1> USE DEF TrackInv, IInv
<1>1. slot \in Slots
  BY SlotFacts
<1>2. /\ phase' = [phase EXCEPT ![c] = "running"]
      /\ sent' = [sent EXCEPT ![c] = sent[c] + 1]
      /\ requestQueue' = [requestQueue EXCEPT ![slot] = <<c, sent[c] + 1>>]
      /\ cancelled \subseteq cancelled' /\ sweeping' = {}
  BY DEF Send, addRequest, Store
<1>3. /\ Task(c)' = <<c, sent[c] + 1>> /\ InFlight(c)' /\ owner'[c] = m
      /\ requestQueue'[slot] = <<c, sent[c] + 1>>
      /\ \A s \in Slots \ {slot} : requestQueue'[s] = requestQueue[s]
      /\ \A d \in Calls \ {c} : /\ Task(d)' = Task(d) /\ (InFlight(d)' <=> InFlight(d))
                                /\ owner'[d] = owner[d]
  BY <1>1, <1>2 DEF TypeOK, Task, InFlight
<1>4. Slot(owner[c], c)' = slot /\ \A d \in Calls \ {c} : Slot(owner[d], d)' = Slot(owner[d], d)
  BY <1>3 DEF Slot
<1>5. ASSUME NEW s \in Slots PROVE EntryOk(s)'
  <2>1. CASE s = slot
    BY <1>3, <1>4, <2>1 DEF EntryOk
  <2>2. CASE s # slot
    <3> SUFFICES ASSUME requestQueue[s] # NoTask PROVE EntryOk(s)'
      BY <1>3, <2>2 DEF EntryOk
    <3>1. PICK d \in Calls : requestQueue[s] = Task(d) /\ InFlight(d) /\ Slot(owner[d], d) = s
      BY DEF NoFinishedTaskTracked
    <3>2. d # c
      BY <3>1
    <3> QED
      BY <1>3, <1>4, <2>2, <3>1, <3>2 DEF EntryOk
  <2> QED
    BY <2>1, <2>2
<1>6. ASSUME NEW d \in Calls PROVE TrackedOk(d)'
  <2>1. CASE d = c
    BY <1>3, <1>4, <2>1 DEF TrackedOk
  <2>2. CASE d # c
    <3> SUFFICES ASSUME InFlight(d), Task(d) \notin cancelled, Alone(d)'
                 PROVE  requestQueue'[Slot(owner[d], d)] = Task(d)
      BY <1>2, <1>3, <1>4, <2>2 DEF TrackedOk
    <3>1. request[d].url # NoUrl /\ Slot(owner[d], d) \in Slots /\ owner[d] \in Managers
      BY InFlightFacts
    <3>2. Slot(owner[d], d) # slot
      BY <1>4, <2>2, <3>1 DEF Alone, Shares
    <3>3. ASSUME NEW e \in Calls \ {d} PROVE ~Shares(d, e)
      <4>1. CASE e # c
        BY <1>4, <2>2, <3>3, <4>1 DEF Alone, Shares
      <4>2. CASE e = c
        BY <3>1, <3>2, <4>2, ManagerAssumption DEF Shares, Slot
      <4> QED
        BY <4>1, <4>2
    <3>4. requestQueue[Slot(owner[d], d)] = Task(d)
      BY <3>3 DEF UniqueKeyTracked, Alone
    <3> QED
      BY <1>3, <3>1, <3>2, <3>4
  <2> QED
    BY <2>1, <2>2
<1>7. NoFinishedTaskTracked'
  BY <1>5 DEF NoFinishedTaskTracked, EntryOk
<1>8. UniqueKeyTracked'
  BY <1>6 DEF UniqueKeyTracked, TrackedOk
<1> QED
  BY <1>2, <1>7, <1>8 DEF SweepInv, Tracking

\* A step that leaves the dictionary and what was in flight alone keeps the three; a call
\* that has just been asked can only make others less alone.
LEMMA TrackFrame ==
    ASSUME TrackInv, request' = request, sent' = sent, requestQueue' = requestQueue,
           cancelled' = cancelled, sweeping' = sweeping,
           \A c \in Calls : (InFlight(c)' <=> InFlight(c)) /\ owner'[c] \in {owner[c], requester},
           \A c \in Calls : owner'[c] = owner[c] \/ owner[c] = 0
    PROVE  Tracking'
<1> USE DEF TrackInv, IInv
<1>1. \A c \in Calls : InFlight(c) => owner'[c] = owner[c]
  BY InFlightFacts, ManagerAssumption
<1>2. \A c \in Calls : InFlight(c) => Slot(owner[c], c)' = Slot(owner[c], c)
  BY <1>1 DEF Slot
<1>3. NoFinishedTaskTracked'
  BY <1>2 DEF NoFinishedTaskTracked, Task
<1>4. ASSUME NEW c \in Calls, InFlight(c), Alone(c)' PROVE Alone(c)
  <2> SUFFICES ASSUME NEW d \in Calls \ {c}, Shares(c, d) PROVE FALSE
    BY DEF Alone
  <2>1. owner[c] \in Managers /\ owner[d] = owner[c]
    BY <1>4, InFlightFacts DEF Shares, Slot
  <2>2. owner'[d] = owner[d] /\ owner'[c] = owner[c]
    BY <2>1, ManagerAssumption
  <2> QED
    BY <1>4, <2>2 DEF Alone, Shares, Slot
<1>5. UniqueKeyTracked'
  BY <1>2, <1>4 DEF UniqueKeyTracked, Task
<1>6. SweepInv'
  BY DEF SweepInv, Tracked
<1> QED
  BY <1>3, <1>5, <1>6 DEF Tracking

\* performRequest either sends, or leaves the manager alone with c still not in flight.
LEMMA PerformTrack ==
    ASSUME TrackInv, Confined, sweeping = {}, NEW c \in Calls, ~InFlight(c),
           NEW m \in Managers, Perform(m, c), request' = request,
           owner' = [owner EXCEPT ![c] = m],
           owner[c] = m \/ (owner[c] = 0 /\ m = requester)
    PROVE  Tracking'
<1>1. CASE request[c].url # NoUrl /\ Send(m, c)
  BY <1>1, SendTrack
<1>2. CASE /\ UNCHANGED <<managerVars, sent>>
           /\ \/ phase' = [phase EXCEPT ![c] = "dropped"]
              \/ phase' = [phase EXCEPT ![c] = "gated"]
  <2>1. \A d \in Calls : InFlight(d)' <=> InFlight(d)
    BY <1>2 DEF InFlight, TrackInv, IInv, TypeOK
  <2>2. \A d \in Calls : /\ owner'[d] \in {owner[d], requester}
                         /\ owner'[d] = owner[d] \/ owner[d] = 0
    BY DEF TrackInv, IInv, TypeOK
  <2> QED
    BY <1>2, <2>1, <2>2, TrackFrame DEF managerVars
<1> QED
  BY <1>1, <1>2 DEF Perform

\* The handler takes its own task out, and with it the only entry its slot can have.
LEMMA RemoveTrack ==
    ASSUME TrackInv, Confined, NEW c \in Calls, HandlerRemoves(c)
    PROVE  Tracking'
<1> DEFINE slot == Slot(owner[c], c)
<1> USE DEF TrackInv, IInv
<1>1. /\ phase[c] = "answered" /\ phase' = [phase EXCEPT ![c] = "handling"]
      /\ requestQueue' = [requestQueue EXCEPT ![slot] = NoTask]
      /\ sweeping = {} /\ sweeping' = {}
      /\ UNCHANGED <<request, owner, sent, cancelled>>
  BY DEF HandlerRemoves, MainFree, removeRequest, Store
<1>2. InFlight(c) /\ request[c].url # NoUrl /\ slot \in Slots
  BY <1>1, InFlightFacts DEF InFlight
<1>3. /\ requestQueue'[slot] = NoTask
      /\ \A s \in Slots \ {slot} : requestQueue'[s] = requestQueue[s]
      /\ \A d \in Calls : Task(d)' = Task(d) /\ Slot(owner[d], d)' = Slot(owner[d], d)
      /\ \A d \in Calls \ {c} : InFlight(d)' <=> InFlight(d)
      /\ ~InFlight(c)'
  BY <1>1, <1>2 DEF TypeOK, Task, InFlight, Slot
<1>4. ASSUME NEW s \in Slots PROVE EntryOk(s)'
  <2>1. CASE s = slot
    BY <1>3, <2>1 DEF EntryOk
  <2>2. CASE s # slot
    <3>1. EntryOk(s)
      BY DEF EntryOk, NoFinishedTaskTracked
    <3> QED
      BY <1>3, <2>2, <3>1 DEF EntryOk
  <2> QED
    BY <2>1, <2>2
<1>5. ASSUME NEW d \in Calls PROVE TrackedOk(d)'
  <2>1. CASE d = c
    BY <1>3, <2>1 DEF TrackedOk
  <2>2. CASE d # c
    <3> SUFFICES ASSUME InFlight(d), Task(d) \notin cancelled, Alone(d)
                 PROVE  requestQueue'[Slot(owner[d], d)] = Task(d)
      BY <1>1, <1>3, <2>2 DEF TrackedOk, Alone, Shares
    <3>1. request[d].url # NoUrl /\ Slot(owner[d], d) \in Slots
      BY InFlightFacts
    <3>2. Slot(owner[d], d) # slot
      BY <1>2, <2>2, <3>1 DEF Alone, Shares
    <3> QED
      BY <1>3, <3>1, <3>2 DEF UniqueKeyTracked
  <2> QED
    BY <2>1, <2>2
<1>6. NoFinishedTaskTracked'
  BY <1>4 DEF NoFinishedTaskTracked, EntryOk
<1>7. UniqueKeyTracked'
  BY <1>5 DEF UniqueKeyTracked, TrackedOk
<1> QED
  BY <1>1, <1>6, <1>7 DEF SweepInv, Tracking

\* cancelAllRequests: its loop cancels what is tracked, so that removeAll forgets only
\* cancelled tasks.
LEMMA SweepTrack ==
    ASSUME TrackInv, Confined, CancelAllBegins \/ CancelAllEnds
    PROVE  Tracking'
<1> USE DEF TrackInv, IInv
<1>1. UNCHANGED <<request, callVars>>
  BY DEF CancelAllBegins, CancelAllEnds
<1>2. \A c \in Calls : /\ Task(c)' = Task(c) /\ (InFlight(c)' <=> InFlight(c))
                       /\ Slot(owner[c], c)' = Slot(owner[c], c) /\ (Alone(c)' <=> Alone(c))
  BY <1>1 DEF Task, InFlight, callVars, Slot, Alone, Shares
<1>4. CASE CancelAllBegins
  <2>1. /\ requestQueue' = requestQueue /\ cancelled' = cancelled \cup Tracked(requester)
        /\ sweeping' = sweeping \cup {requester}
    BY <1>4 DEF CancelAllBegins, cancelValues
  <2>2. NoFinishedTaskTracked'
    BY <1>2, <2>1 DEF NoFinishedTaskTracked
  <2>3. UniqueKeyTracked'
    BY <1>2, <2>1 DEF UniqueKeyTracked
  <2>4. SweepInv'
    BY <2>1 DEF SweepInv, Tracked
  <2> QED
    BY <2>2, <2>3, <2>4 DEF Tracking
<1>5. ASSUME NEW m \in sweeping, CancelAllEnds, removeAll(m) PROVE Tracking'
  <2>1. /\ requestQueue' = [s \in Slots |-> IF s[1] = m THEN NoTask ELSE requestQueue[s]]
        /\ cancelled' = cancelled /\ sweeping' = sweeping \ {m}
    BY <1>5 DEF removeAll, Store
  <2>2. NoFinishedTaskTracked'
    BY <1>2, <2>1 DEF NoFinishedTaskTracked
  <2>3. Tracked(m) \subseteq cancelled
    BY DEF SweepInv
  <2>4. ASSUME NEW c \in Calls, InFlight(c), Task(c) \notin cancelled, Alone(c)
        PROVE  requestQueue'[Slot(owner[c], c)] = Task(c)
    <3>1. requestQueue[Slot(owner[c], c)] = Task(c) /\ Slot(owner[c], c) \in Slots
      BY <2>4, InFlightFacts DEF UniqueKeyTracked
    <3>2. Task(c) # NoTask /\ request[c].url # NoUrl
      BY <2>4, InFlightFacts
    <3>3. owner[c] # m
      <4>1. urlCacheKey(request[c].url) \in Keys
        BY <3>2, KeyFacts
      <4> QED
        BY <2>3, <2>4, <3>1, <3>2, <4>1 DEF Tracked, Slot
    <3> QED
      BY <2>1, <3>1, <3>3 DEF Slot
  <2>5. UniqueKeyTracked'
    BY <1>2, <2>1, <2>4 DEF UniqueKeyTracked
  <2>6. SweepInv'
    <3>1. ASSUME NEW n \in sweeping \ {m} PROVE Tracked(n)' \subseteq Tracked(n)
      <4>1. n \in Managers
        BY DEF TypeOK
      <4>2. ASSUME NEW k \in Keys PROVE requestQueue'[<<n, k>>] = requestQueue[<<n, k>>]
        <5>1. <<n, k>> \in Slots /\ <<n, k>>[1] # m
          BY <4>1 DEF Slots
        <5> QED
          BY <2>1, <5>1
      <4> QED
        BY <4>2 DEF Tracked
    <3> QED
      BY <2>1, <3>1 DEF SweepInv
  <2> QED
    BY <2>2, <2>5, <2>6 DEF Tracking
<1> QED
  BY <1>4, <1>5 DEF CancelAllEnds

\* Every step keeps the tracking invariant.
LEMMA NextTrack == TrackInv /\ [Next]_vars => TrackInv'
<1> SUFFICES ASSUME TrackInv, [Next]_vars PROVE TrackInv'
  OBVIOUS
<1> USE DEF TrackInv, IInv
<1>1. IInv'
  BY NextInv
<1>2. CASE ~Confined
  BY <1>1, <1>2 DEF NoFinishedTaskTracked, UniqueKeyTracked, SweepInv
<1>3. CASE Confined
  <2> USE <1>3
  <2>1. ASSUME NEW c \in Calls, RequestData(c) PROVE Tracking'
    <3>1. /\ phase[c] = "idle" /\ sweeping = {} /\ request' = request
          /\ owner' = [owner EXCEPT ![c] = requester]
          /\ \/ Perform(requester, c)
             \/ phase' = [phase EXCEPT ![c] = "done"] /\ UNCHANGED <<managerVars, sent>>
      BY <2>1 DEF RequestData, MainFree
    <3>2. ~InFlight(c) /\ owner[c] = 0 /\ requester \in Managers
      BY <3>1, OwnerFacts DEF InFlight, CallInv
    <3>3. CASE Perform(requester, c)
      BY <3>1, <3>2, <3>3, PerformTrack
    <3>4. CASE phase' = [phase EXCEPT ![c] = "done"] /\ UNCHANGED <<managerVars, sent>>
      <4>1. \A d \in Calls : /\ InFlight(d)' <=> InFlight(d)
                             /\ owner'[d] \in {owner[d], requester}
                             /\ owner'[d] = owner[d] \/ owner[d] = 0
        BY <3>1, <3>2, <3>4 DEF InFlight, TypeOK
      <4> QED
        BY <3>1, <3>4, <4>1, TrackFrame DEF managerVars
    <3> QED
      BY <3>1, <3>3, <3>4
  <2>2. ASSUME NEW c \in Calls, RetryFires(c) PROVE Tracking'
    <3>1. /\ phase[c] = "waitRetry" /\ sweeping = {} /\ UNCHANGED <<request, owner>>
          /\ Perform(owner[c], c)
      BY <2>2 DEF RetryFires, MainFree
    <3>2. ~InFlight(c) /\ owner[c] \in Managers /\ owner' = [owner EXCEPT ![c] = owner[c]]
      BY <3>1, OwnerFacts DEF InFlight, TypeOK
    <3> QED
      BY <3>1, <3>2, PerformTrack
  <2>3. ASSUME NEW c \in Calls, Dispatched(c) PROVE Tracking'
    <3>1. /\ phase[c] = "gated" /\ sweeping = {} /\ UNCHANGED <<request, owner>>
          /\ Send(owner[c], c)
      BY <2>3 DEF Dispatched, MainFree
    <3>2. request[c].url # NoUrl /\ ~InFlight(c) /\ owner[c] \in Managers
          /\ owner' = [owner EXCEPT ![c] = owner[c]]
      BY <3>1, OwnerFacts DEF CallInv, InFlight, TypeOK
    <3> QED
      BY <3>1, <3>2, SendTrack
  <2>4. ASSUME NEW c \in Calls, SessionAnswers(c) \/ HandlerCompletes(c) PROVE Tracking'
    <3>1. /\ UNCHANGED <<managerVars, request, owner, sent>>
          /\ \/ phase[c] = "running" /\ phase' = [phase EXCEPT ![c] = "answered"]
             \/ /\ phase[c] = "handling"
                /\ \/ phase' = [phase EXCEPT ![c] = "waitRetry"]
                   \/ phase' = [phase EXCEPT ![c] = "done"]
      BY <2>4 DEF SessionAnswers, HandlerCompletes
    <3>2. \A d \in Calls : InFlight(d)' <=> InFlight(d)
      BY <3>1 DEF InFlight, TypeOK
    <3> QED
      BY <3>1, <3>2, TrackFrame DEF managerVars
  <2>5. ASSUME clearCache \/ start \/ UNCHANGED vars PROVE Tracking'
    <3>1. UNCHANGED <<managerVars, request, owner, sent, phase>>
      BY <2>5 DEF clearCache, start, vars, callVars
    <3> QED
      BY <3>1, TrackFrame DEF managerVars, InFlight
  <2>6. Tracking'
    BY <2>1, <2>2, <2>3, <2>4, <2>5, RemoveTrack, SweepTrack DEF Next, CallStep
  <2> QED
    BY <1>1, <2>6 DEF Tracking
<1> QED
  BY <1>2, <1>3

\* AwesomeRequestManager on the main thread: no entry outlives its task's handler.
THEOREM NothingStaleTracked == Spec => []NoFinishedTaskTracked
<1>1. TrackInv => NoFinishedTaskTracked
  BY DEF TrackInv
<1> QED
  BY <1>1, InitTrack, NextTrack, PTL DEF Spec

\* AwesomeRequestManager on the main thread: the requester a call was asked of can reach
\* its task from its send until its handler, if the call is alone in its slot.
THEOREM UniqueCallsTracked == Spec => []UniqueKeyTracked
<1>1. TrackInv => UniqueKeyTracked
  BY DEF TrackInv
<1> QED
  BY <1>1, InitTrack, NextTrack, PTL DEF Spec

\* What a loop over the tracked tasks cancels is every task that is alone in its slot.
LEMMA TrackReaches == TrackInv => SweepReaches
<1> SUFFICES ASSUME TrackInv, Confined, NEW c \in Calls, InFlight(c), owner[c] \in sweeping,
                    Alone(c), Task(c) \notin cancelled
             PROVE  FALSE
  BY DEF SweepReaches
<1>1. requestQueue[Slot(owner[c], c)] = Task(c)
  BY DEF TrackInv, UniqueKeyTracked
<1>2. Task(c) # NoTask /\ urlCacheKey(request[c].url) \in Keys
  BY InFlightFacts, KeyFacts DEF TrackInv, IInv
<1>3. Task(c) \in Tracked(owner[c])
  BY <1>1, <1>2 DEF Tracked, Slot
<1> QED
  BY <1>3 DEF TrackInv, SweepInv

\* AwesomeNetwork.cancelAllRequests on the main thread: once its loop is over it has
\* cancelled every such task of the requester it swept.
THEOREM SweepCancels == Spec => []SweepReaches
BY InitTrack, NextTrack, TrackReaches, PTL DEF Spec
-----------------------------------------------------------------------------
(* Who cancels, on any threads                                             *)

\* Confined or not: an entry is the task of a call with a URL, stored in its slot.
KeyedUnder(t, s) == /\ t[1] \in Calls /\ request[t[1]].url # NoUrl
                    /\ owner[t[1]] \in Managers /\ Slot(owner[t[1]], t[1]) = s

Keyed == \A s \in Slots : requestQueue[s] # NoTask => KeyedUnder(requestQueue[s], s)

KeyInv == IInv /\ Keyed

\* The action CancelOnlyByPeer asks of every step.
ByPeer == \A t \in cancelled' \ cancelled : CancelledBySweep(t) \/ CancelledBySend(t)

\* A call keeps the requester it was asked of.
OwnersKept == \A c \in Calls : owner'[c] = owner[c] \/ owner[c] = 0

\* What was stored in a slot stays its own.
LEMMA KeyedStable ==
    ASSUME IInv, request' = request, OwnersKept, NEW t, NEW s, KeyedUnder(t, s)
    PROVE  KeyedUnder(t, s)'
<1>1. owner'[t[1]] = owner[t[1]]
  BY ManagerAssumption DEF OwnersKept, KeyedUnder
<1> QED
  BY <1>1 DEF KeyedUnder, Slot

\* A send stores c's task in c's slot, and cancels at most the task that was there.
LEMMA SendCancels ==
    ASSUME KeyInv, NEW c \in Calls, request[c].url # NoUrl, ~InFlight(c),
           NEW m \in Managers, Send(m, c), request' = request,
           owner' = [owner EXCEPT ![c] = m], OwnersKept
    PROVE  Keyed' /\ ByPeer
<1> DEFINE slot == Slot(m, c)
<1> USE DEF KeyInv, IInv, Keyed
<1>1. slot \in Slots /\ owner'[c] = m
  BY SlotFacts DEF TypeOK
<1>2. ASSUME NEW s \in Slots, requestQueue'[s] # NoTask
      PROVE  KeyedUnder(requestQueue[s], s)'
  <2>1. \/ requestQueue' = [requestQueue EXCEPT ![slot] = <<c, sent[c] + 1>>]
        \/ requestQueue' = requestQueue
    BY DEF Send, addRequest, Store
  <2>2. \/ requestQueue'[s] = requestQueue[s]
        \/ s = slot /\ requestQueue'[s] = <<c, sent[c] + 1>>
    BY <1>1, <2>1 DEF TypeOK
  <2>3. CASE s = slot /\ requestQueue'[s] = <<c, sent[c] + 1>>
    BY <1>1, <2>3 DEF KeyedUnder, Slot
  <2>4. CASE requestQueue'[s] = requestQueue[s]
    <3>1. PICK t : t = requestQueue[s] /\ KeyedUnder(t, s)
      BY <1>2, <2>4
    <3>2. KeyedUnder(t, s)'
      BY <3>1, KeyedStable
    <3> QED
      BY <2>4, <3>1, <3>2
  <2> QED
    BY <2>2, <2>3, <2>4
<1>3. ASSUME NEW t \in cancelled' \ cancelled PROVE CancelledBySend(t)
  <2>1. /\ request[c].cancelPrevious /\ t = requestQueue[slot] /\ t # NoTask
        /\ sent' = [sent EXCEPT ![c] = sent[c] + 1]
    BY <1>3 DEF Send, addRequest
  <2>2. sent'[c] = sent[c] + 1
    BY <2>1 DEF TypeOK
  <2>3. KeyedUnder(t, slot)'
    <3>1. PICK s : s = slot /\ KeyedUnder(t, s)
      BY <1>1, <2>1
    <3>2. KeyedUnder(t, s)'
      BY <3>1, KeyedStable
    <3> QED
      BY <3>1, <3>2 DEF Slot
  <2>4. Shares(c, t[1])'
    BY <1>1, <2>3 DEF Shares, KeyedUnder, Slot
  <2> QED
    BY <2>1, <2>2, <2>4 DEF CancelledBySend
<1> QED
  BY <1>2, <1>3 DEF ByPeer

\* A step that stores nothing new keeps the entries keyed.
LEMMA KeyedFrame ==
    ASSUME KeyInv, request' = request, OwnersKept,
           \A s \in Slots : requestQueue'[s] \in {requestQueue[s], NoTask}
    PROVE  Keyed'
<1> SUFFICES ASSUME NEW s \in Slots, requestQueue'[s] # NoTask
             PROVE  KeyedUnder(requestQueue[s], s)'
  BY DEF Keyed
<1>1. PICK t : t = requestQueue[s] /\ t = requestQueue'[s] /\ KeyedUnder(t, s)
  BY DEF KeyInv, Keyed
<1>2. KeyedUnder(t, s)'
  BY <1>1, KeyedStable DEF KeyInv
<1> QED
  BY <1>1, <1>2

\* Every step keeps the entries keyed, and cancels as CancelOnlyByPeer says.
LEMMA CancelStep ==
    ASSUME KeyInv, [Next]_vars
    PROVE  KeyInv' /\ ByPeer
<1> USE DEF KeyInv
<1>1. IInv' /\ request' = request
  <2>1. request' = request
    BY DEF Next, CallStep, RequestData, Dispatched, SessionAnswers, HandlerRemoves,
           HandlerCompletes, RetryFires, CancelAllBegins, CancelAllEnds, clearCache,
           start, vars
  <2> QED
    BY <2>1, NextInv
<1>2. ASSUME UNCHANGED managerVars, OwnersKept PROVE Keyed' /\ ByPeer
  BY <1>1, <1>2, KeyedFrame DEF managerVars, ByPeer
<1>3. UNCHANGED owner => OwnersKept
  BY DEF OwnersKept
<1>4. ASSUME NEW c \in Calls, NEW m \in Managers, \/ Send(m, c) /\ request[c].url # NoUrl
                                                  \/ UNCHANGED managerVars,
             owner' = [owner EXCEPT ![c] = m], OwnersKept, ~InFlight(c)
      PROVE  Keyed' /\ ByPeer
  BY <1>1, <1>2, <1>4, SendCancels
<1>5. ASSUME NEW c \in Calls, RequestData(c) PROVE Keyed' /\ ByPeer
  <2>1. /\ phase[c] = "idle" /\ owner' = [owner EXCEPT ![c] = requester]
        /\ \/ Send(requester, c) /\ request[c].url # NoUrl
           \/ UNCHANGED managerVars
    BY <1>5 DEF RequestData, Perform
  <2>2. OwnersKept /\ ~InFlight(c) /\ requester \in Managers
    BY <2>1, OwnerFacts DEF IInv, TypeOK, CallInv, OwnersKept, InFlight
  <2> QED
    BY <1>4, <2>1, <2>2
<1>6. ASSUME NEW c \in Calls, RetryFires(c) \/ Dispatched(c) PROVE Keyed' /\ ByPeer
  <2>1. /\ phase[c] \in {"gated", "waitRetry"} /\ UNCHANGED owner
        /\ \/ Send(owner[c], c) /\ request[c].url # NoUrl
           \/ UNCHANGED managerVars
    BY <1>6 DEF RetryFires, Dispatched, Perform, IInv, CallInv
  <2>2. ~InFlight(c) /\ owner[c] \in Managers /\ owner' = [owner EXCEPT ![c] = owner[c]]
    BY <2>1, OwnerFacts DEF IInv, TypeOK, InFlight
  <2> QED
    BY <1>3, <1>4, <2>1, <2>2
<1>7. ASSUME NEW c \in Calls, HandlerRemoves(c) PROVE Keyed' /\ ByPeer
  <2>1. /\ \A s \in Slots : requestQueue'[s] \in {requestQueue[s], NoTask}
        /\ cancelled' = cancelled /\ UNCHANGED owner
    BY <1>7 DEF HandlerRemoves, removeRequest, Store, IInv, TypeOK
  <2> QED
    BY <1>1, <1>3, <2>1, KeyedFrame DEF ByPeer
<1>8. CASE CancelAllBegins
  <2>1. /\ sweeping' # sweeping /\ requestQueue' = requestQueue /\ UNCHANGED owner
        /\ cancelled' = cancelled \cup Tracked(requester)
    BY <1>8 DEF CancelAllBegins, cancelValues, callVars
  <2>2. ASSUME NEW t \in Tracked(requester) PROVE owner[t[1]] = requester
    <3>1. PICK k \in Keys : t = requestQueue[<<requester, k>>] /\ t # NoTask
      BY DEF Tracked
    <3>2. <<requester, k>> \in Slots
      BY DEF IInv, TypeOK, Slots
    <3>3. KeyedUnder(t, <<requester, k>>)
      BY <3>1, <3>2 DEF Keyed
    <3> QED
      BY <3>3 DEF KeyedUnder, Slot
  <2> QED
    BY <1>1, <1>3, <2>1, <2>2, KeyedFrame DEF ByPeer, CancelledBySweep
<1>9. CASE CancelAllEnds
  <2>1. /\ \A s \in Slots : requestQueue'[s] \in {requestQueue[s], NoTask}
        /\ cancelled' = cancelled /\ UNCHANGED owner
    BY <1>9 DEF CancelAllEnds, removeAll, Store, IInv, TypeOK, callVars
  <2> QED
    BY <1>1, <1>3, <2>1, KeyedFrame DEF ByPeer
<1>10. ASSUME UNCHANGED <<managerVars, owner>> PROVE Keyed' /\ ByPeer
  BY <1>2, <1>3, <1>10
<1>11. Keyed' /\ ByPeer
  <2>1. ASSUME NEW c \in Calls, CallStep(c) PROVE Keyed' /\ ByPeer
    <3>1. CASE SessionAnswers(c) \/ HandlerCompletes(c)
      BY <3>1, <1>10 DEF SessionAnswers, HandlerCompletes
    <3> QED
      BY <2>1, <3>1, <1>5, <1>6, <1>7 DEF CallStep
  <2>2. CASE clearCache \/ start \/ UNCHANGED vars
    BY <2>2, <1>10 DEF clearCache, start, vars, callVars
  <2> QED
    BY <2>1, <2>2, <1>8, <1>9 DEF Next
<1> QED
  BY <1>1, <1>11

\* AwesomeRequestManager.addRequest and cancelAllRequests, on any threads: nothing else
\* cancels a task, a sweep only tasks of the current requester, and a retry never its own
\* call's task while that can answer.
THEOREM CancelledByPeersOnly == Spec => CancelOnlyByPeer
<1>1. Init => KeyInv
  BY InitInv DEF Init, ManagerInit, KeyInv, Keyed
<1>2. KeyInv /\ [Next]_vars => KeyInv'
  BY CancelStep
<1>3. KeyInv /\ [Next]_vars => [ByPeer]_vars
  BY CancelStep
<1> QED
  BY <1>1, <1>2, <1>3, PTL DEF Spec, CancelOnlyByPeer, ByPeer
=============================================================================
