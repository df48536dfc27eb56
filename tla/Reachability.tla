----------------------------- MODULE Reachability -----------------------------
(***************************************************************************)
(* AwesomeReachability and AwesomeNetwork+Reachability (Networking/): the  *)
(* notifier that turns changes of the system's reachability flags into     *)
(* connected and disconnected events.                                      *)
(*                                                                         *)
(* Threads.  The flags change on their own.  AwesomeReachabilityChanged    *)
(* runs on the notifier's serial queue, once per callback of the system    *)
(* and once per startNotifier; what it decides takes two hops through the  *)
(* main queue.  Each look at the flags asks the system again.              *)
(***************************************************************************)
EXTENDS Integers, Sequences

CONSTANTS Flags,          \* the flags the system may report, a subset of AllFlags
          NeverRead,      \* nil, for previousFlags
          AllowsCellular, \* allowsCellularConnection
          ReadFaults,     \* TRUE when SCNetworkReachabilityGetFlags may fail
          SetupFaults,    \* TRUE when the callback or its queue may not be set
          MaxChanges,     \* bound: changes of the flags
          MaxCalls        \* bound: calls to start and stop the notifier

\* onDemand stands for the flags connectionOnTraffic and connectionOnDemand.
AllFlags == [reachable : BOOLEAN, required : BOOLEAN, onDemand : BOOLEAN,
             intervention : BOOLEAN, wwan : BOOLEAN]

NoFlags == [reachable |-> FALSE, required |-> FALSE, onDemand |-> FALSE,
            intervention |-> FALSE, wwan |-> FALSE]

ASSUME ReachabilityAssumption ==
    /\ Flags \subseteq AllFlags /\ NeverRead \notin AllFlags
    /\ AllowsCellular \in BOOLEAN /\ ReadFaults \in BOOLEAN /\ SetupFaults \in BOOLEAN
    /\ MaxChanges \in Nat /\ MaxCalls \in Nat

VARIABLES flags,          \* what the system would report now
          notifierRunning,
          previousFlags,
          checks,         \* initial checks waiting on the serial queue
          callback,       \* a callback of the system is waiting there
          handler,        \* AwesomeReachabilityChanged: how far it is, see Reading
          mainQueue,      \* the main queue: <<"block", b>>, or <<"tell", b>> for its hop
          teller,         \* the reads of connection a "tell" makes, see Reading
          told,           \* the last event posted
          torn,           \* the flags changed under the last pass, or a read failed in it
          skipped,        \* the last "tell" posted nothing
          changes, calls  \* so far

vars == <<flags, notifierRunning, previousFlags, checks, callback, handler, mainQueue,
          teller, told, torn, skipped, changes, calls>>

Connections == {"none", "wifi", "cellular"}
Blocks      == {"reachable", "unreachable"}

\* A thread inside connection: the flag it looks at next, and the connection so far.
Looks   == {"reachable", "required", "onDemand", "intervention", "wwan"}
Reading == [at : Looks \cup {"idle", "decided", "recording"}, connection : Connections]
Idle    == [at |-> "idle", connection |-> "none"]
Begin   == [at |-> "reachable", connection |-> "none"]

Init ==
    /\ flags \in Flags
    /\ notifierRunning = FALSE /\ previousFlags = NeverRead
    /\ checks = 0 /\ callback = FALSE
    /\ handler = Idle /\ teller = Idle
    /\ mainQueue = <<>>
    /\ told = "nothing"
    /\ torn = FALSE /\ skipped = FALSE
    /\ changes = 0 /\ calls = 0
-----------------------------------------------------------------------------
\* What one look at the flags may see: a look that fails sees none of them.
Seen == {flags} \cup IF ReadFaults THEN {NoFlags} ELSE {}

\* Mutant: a connection that needs the user's intervention counts.
LookWithoutIntervention(r, f) ==
    CASE r.at = "reachable"    -> [at |-> IF f.reachable THEN "required" ELSE "decided",
                                   connection |-> "none"]
      [] r.at = "required"     -> [at |-> "onDemand",
                                   connection |-> IF f.required THEN "none" ELSE "wifi"]
      [] r.at = "onDemand"     -> [at |-> "wwan",
                                   connection |-> IF f.onDemand THEN "wifi"
                                                  ELSE r.connection]
      [] OTHER                 -> [at |-> "decided",
                                   connection |-> IF ~f.wwan THEN r.connection
                                                  ELSE IF AllowsCellular THEN "cellular"
                                                  ELSE "none"]

\* connection, one look after the other, on a device.
Look(r, f) ==
    CASE r.at = "reachable"    -> [at |-> IF f.reachable THEN "required" ELSE "decided",
                                   connection |-> "none"]
      [] r.at = "required"     -> [at |-> "onDemand",
                                   connection |-> IF f.required THEN "none" ELSE "wifi"]
      [] r.at = "onDemand"     -> [r EXCEPT !.at = IF f.onDemand THEN "intervention"
                                                   ELSE "wwan"]
      [] r.at = "intervention" -> [at |-> "wwan",
                                   connection |-> IF f.intervention THEN r.connection
                                                  ELSE "wifi"]
      [] OTHER                 -> [at |-> "decided",
                                   connection |-> IF ~f.wwan THEN r.connection
                                                  ELSE IF AllowsCellular THEN "cellular"
                                                  ELSE "none"]

\* The system: while the notifier runs, a change schedules a callback.
FlagsChange ==
    /\ changes < MaxChanges /\ changes' = changes + 1
    /\ flags' \in Flags \ {flags}
    /\ callback' = (callback \/ notifierRunning)
    /\ torn' = (torn \/ handler.at # "idle")
    /\ UNCHANGED <<notifierRunning, previousFlags, checks, handler, mainQueue, teller,
                   told, skipped, calls>>

\* Mutant: without the initial check.
StartUnchecked ==
    /\ calls < MaxCalls /\ calls' = calls + 1
    /\ notifierRunning' = TRUE
    /\ UNCHANGED <<flags, previousFlags, checks, callback, handler, mainQueue, teller, told,
                   torn, skipped, changes>>

\* startNotifier: the callback, its queue, the initial check; a failure stops it again.
startNetworkStateNotifier ==
    /\ calls < MaxCalls /\ calls' = calls + 1
    /\ \/ /\ notifierRunning
          /\ UNCHANGED <<notifierRunning, checks, callback>>
       \/ /\ ~notifierRunning
          /\ notifierRunning' = TRUE /\ checks' = checks + 1
          /\ UNCHANGED callback
       \/ /\ ~notifierRunning /\ SetupFaults
          /\ callback' \in {callback, FALSE}
          /\ UNCHANGED <<notifierRunning, checks>>
    /\ UNCHANGED <<flags, previousFlags, handler, mainQueue, teller, told, torn, skipped,
                   changes>>

\* stopNotifier: a callback already scheduled may come all the same.
stopNetworkStateNotifier ==
    /\ calls < MaxCalls /\ calls' = calls + 1
    /\ notifierRunning' = FALSE
    /\ callback' \in {callback, FALSE}
    /\ UNCHANGED <<flags, previousFlags, checks, handler, mainQueue, teller, told, torn,
                   skipped, changes>>
-----------------------------------------------------------------------------
\* AwesomeReachabilityChanged is called: by a check or a callback.
TakeCall ==
    \/ checks > 0 /\ checks' = checks - 1 /\ UNCHANGED callback
    \/ callback /\ callback' = FALSE /\ UNCHANGED checks

\* Its guard: nothing to do when the flags are those it recorded last.
HandlerBegins ==
    /\ handler.at = "idle"
    /\ TakeCall
    /\ \E f \in Seen :
          \/ /\ f # previousFlags
             /\ handler' = Begin
             /\ torn' = (f # flags)
          \/ /\ f = previousFlags
             /\ torn' = (torn \/ f # flags)
             /\ UNCHANGED handler
    /\ UNCHANGED <<flags, notifierRunning, previousFlags, mainQueue, teller, told, skipped,
                   changes, calls>>

HandlerLooks ==
    /\ handler.at \in Looks
    /\ \E f \in Seen : handler' = Look(handler, f) /\ torn' = (torn \/ f # flags)
    /\ UNCHANGED <<flags, notifierRunning, previousFlags, checks, callback, mainQueue,
                   teller, told, skipped, changes, calls>>

\* The block for what it found goes to the main queue ...
HandlerPosts ==
    /\ handler.at = "decided"
    /\ mainQueue' = Append(mainQueue, <<"block", IF handler.connection # "none"
                                                 THEN "reachable" ELSE "unreachable">>)
    /\ handler' = [handler EXCEPT !.at = "recording"]
    /\ UNCHANGED <<flags, notifierRunning, previousFlags, checks, callback, teller, told,
                   torn, skipped, changes, calls>>

\* ... and the flags, read once more, are recorded.
HandlerRecords ==
    /\ handler.at = "recording"
    /\ \E f \in Seen : previousFlags' = f /\ torn' = (torn \/ f # flags)
    /\ handler' = Idle
    /\ UNCHANGED <<flags, notifierRunning, checks, callback, mainQueue, teller, told,
                   skipped, changes, calls>>

\* The main queue runs whenReachable or whenUnreachable, which hop once more ...
MainHops(b) ==
    /\ teller.at = "idle" /\ mainQueue # <<>> /\ Head(mainQueue) = <<"block", b>>
    /\ mainQueue' = Append(Tail(mainQueue), <<"tell", b>>)
    /\ UNCHANGED <<flags, notifierRunning, previousFlags, checks, callback, handler, teller,
                   told, torn, skipped, changes, calls>>

\* ... and then post: disconnected at once, connected when connection still says so.
MainTells(b) ==
    /\ teller.at = "idle" /\ mainQueue # <<>> /\ Head(mainQueue) = <<"tell", b>>
    /\ mainQueue' = Tail(mainQueue)
    /\ \/ b = "unreachable" /\ told' = "disconnected" /\ skipped' = FALSE /\ UNCHANGED teller
       \/ b = "reachable" /\ teller' = Begin /\ UNCHANGED <<told, skipped>>
    /\ UNCHANGED <<flags, notifierRunning, previousFlags, checks, callback, handler, torn,
                   changes, calls>>

TellerLooks ==
    /\ teller.at \in Looks
    /\ \E f \in Seen : teller' = Look(teller, f)
    /\ UNCHANGED <<flags, notifierRunning, previousFlags, checks, callback, handler,
                   mainQueue, told, torn, skipped, changes, calls>>

\* Mutant: the event is the connection's name.
PostConnection ==
    /\ teller.at = "decided"
    /\ skipped' = (teller.connection = "none")
    /\ told' = IF teller.connection = "none" THEN told ELSE teller.connection
    /\ teller' = Idle
    /\ UNCHANGED <<flags, notifierRunning, previousFlags, checks, callback, handler,
                   mainQueue, torn, changes, calls>>

TellerPosts ==
    /\ teller.at = "decided"
    /\ skipped' = (teller.connection = "none")
    /\ told' = IF teller.connection = "none" THEN told ELSE "connected"
    /\ teller' = Idle
    /\ UNCHANGED <<flags, notifierRunning, previousFlags, checks, callback, handler,
                   mainQueue, torn, changes, calls>>

NotifierStep == HandlerBegins \/ HandlerLooks \/ HandlerPosts \/ HandlerRecords
MainStep     == (\E b \in Blocks : MainHops(b) \/ MainTells(b)) \/ TellerLooks \/ TellerPosts

Next ==
    \/ FlagsChange \/ startNetworkStateNotifier \/ stopNetworkStateNotifier
    \/ NotifierStep \/ MainStep

Spec == Init /\ [][Next]_vars

\* Both queues run what they hold.
FairSpec == Spec /\ WF_vars(NotifierStep) /\ WF_vars(MainStep)
-----------------------------------------------------------------------------
(* Properties                                                              *)

\* The variables stay in the ranges the code's types give them.
TypeOK ==
    /\ flags \in Flags /\ previousFlags \in AllFlags \cup {NeverRead}
    /\ notifierRunning \in BOOLEAN /\ callback \in BOOLEAN
    /\ checks \in Nat
    /\ handler \in Reading /\ teller \in Reading
    /\ mainQueue \in Seq({"block", "tell"} \X Blocks)
    /\ told \in {"nothing", "connected", "disconnected"}
    /\ torn \in BOOLEAN /\ skipped \in BOOLEAN
    /\ changes \in 0..MaxChanges /\ calls \in 0..MaxCalls

\* The connection of flags that stand still.
ConnectionOf(f) ==
    CASE ~f.reachable          -> "none"
      [] f.reachable /\ f.wwan -> IF AllowsCellular THEN "cellular" ELSE "none"
      [] OTHER                 -> IF ~f.required \/ (f.onDemand /\ ~f.intervention)
                                  THEN "wifi" ELSE "none"

ToldTruth ==
    told = IF ConnectionOf(flags) = "none" THEN "disconnected" ELSE "connected"

\* When nothing is under way, the listeners of a running notifier have been told whether
\* there is a connection, unless the flags changed inside the last pass that recorded
\* them, or the last connected was dropped because the connection was gone when it was due.
Quiet == /\ handler.at = "idle" /\ teller.at = "idle"
         /\ checks = 0 /\ ~callback /\ mainQueue = <<>>

QuietTold == Quiet /\ notifierRunning /\ ~torn /\ ~skipped => ToldTruth

\* ... and once the flags stand still, everything under way comes to its end.
ListenersTold == <>[](notifierRunning /\ ~torn /\ ~skipped => ToldTruth)
=============================================================================
