---------------------------- MODULE RequestManager ---------------------------
(***************************************************************************)
(* AwesomeRequestManager (Networking/AwesomeRequestManager.swift): the     *)
(* tasks in flight, one per urlCacheKey, so that they can be cancelled.    *)
(* Given as operations on its variables, for every manager the program     *)
(* makes; AwesomeNetwork and Upload compose them.                          *)
(*                                                                         *)
(* requestQueue is a Swift dictionary without a lock.  removeRequest hops  *)
(* to the main queue; the other operations run where they are called.      *)
(* Confined says that the application calls everything on the main thread  *)
(* and gives .main as request.queue, so that all accesses are serial.      *)
(* Otherwise two accesses may overlap, and a store may be lost.            *)
(***************************************************************************)
CONSTANTS Keys,         \* the values urlCacheKey takes
          Managers,     \* the managers, one per requester or uploader
          NoTask,       \* nil
          Confined      \* TRUE when every access is made on the main thread

\* A slot is a key in the dictionary of a manager.
Slots == Managers \X Keys

VARIABLES requestQueue, \* requestQueue[s]: the task stored in slot s, or NoTask
          cancelled,    \* tasks that URLSessionTask.cancel has been called on
          sweeping      \* the managers whose cancelAllRequests has yet to removeAll

managerVars == <<requestQueue, cancelled, sweeping>>

ManagerInit ==
    /\ requestQueue = [s \in Slots |-> NoTask]
    /\ cancelled = {}
    /\ sweeping = {}

\* Whether a step that needs the main thread can run when the app is confined to it.
MainFree == Confined => sweeping = {}

\* The dictionary becomes q, or stays as it was when the store races and is lost.
Store(q) == \/ requestQueue' = q
            \/ ~Confined /\ UNCHANGED requestQueue

Tracked(manager) == {requestQueue[<<manager, k>>] : k \in Keys} \ {NoTask}

\* Mutant: the previous task is cancelled whatever the request asked for.
AddAlwaysCancels(task, slot, cancelPrevious) ==
    /\ cancelled' = cancelled \cup ({requestQueue[slot]} \ {NoTask})
    /\ Store([requestQueue EXCEPT ![slot] = task])
    /\ UNCHANGED sweeping

addRequest(task, slot, cancelPrevious) ==
    /\ cancelled' = IF cancelPrevious
                    THEN cancelled \cup ({requestQueue[slot]} \ {NoTask})
                    ELSE cancelled
    /\ Store([requestQueue EXCEPT ![slot] = task])
    /\ UNCHANGED sweeping

\* Mutant: the handler does not forget its task.
KeepRequest(slot) == slot \in Slots /\ UNCHANGED managerVars

\* Forgets whatever task is stored in the slot.
removeRequest(slot) ==
    /\ Store([requestQueue EXCEPT ![slot] = NoTask])
    /\ UNCHANGED <<cancelled, sweeping>>

\* Mutant: the dictionary is emptied without its tasks being cancelled.
SweepWithoutCancel(manager) ==
    /\ manager \notin sweeping
    /\ sweeping' = sweeping \cup {manager}
    /\ UNCHANGED <<cancelled, requestQueue>>

\* cancelAllRequests: the loop runs over a copy of the values ...
cancelValues(manager) ==
    /\ manager \notin sweeping
    /\ sweeping' = sweeping \cup {manager}
    /\ cancelled' = cancelled \cup Tracked(manager)
    /\ UNCHANGED requestQueue

\* ... and removeAll then empties whatever the dictionary holds by now.
removeAll(manager) ==
    /\ manager \in sweeping
    /\ sweeping' = sweeping \ {manager}
    /\ Store([s \in Slots |-> IF s[1] = manager THEN NoTask ELSE requestQueue[s]])
    /\ UNCHANGED cancelled
=============================================================================
