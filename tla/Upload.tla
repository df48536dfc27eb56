-------------------------------- MODULE Upload --------------------------------
(***************************************************************************)
(* AwesomeUpload.upload (Uploading/AwesomeUpload.swift): one POST per call *)
(* with a body of its own, tracked by the uploader's AwesomeRequestManager *)
(* so that cancelAllRequests reaches it.                                   *)
(*                                                                         *)
(* upload runs on its caller's thread.  The session's serial delegate      *)
(* queue runs the handler, which hops to the main queue (UploadRemoves)    *)
(* before it looks at the answer (UploadCompletes).                        *)
(***************************************************************************)
EXTENDS RequestManager

CONSTANTS Uploader,   \* which of Managers is AwesomeUpload.shared.requestManager
          Uploads,    \* the calls the application makes to upload
          Arguments,  \* what it may pass, a subset of Argument
          NoBody,     \* uploadData is nil
          BadUrl,     \* urlString is nil, or is no URL
          NoReply     \* the completion has not been called

\* What an uncancelled task ends with: 2xx with a body or without, another status, an error.
Endings == {"body", "noBody", "httpError", "failed"}

\* What the completion is told: the response's data, or an AwesomeError.
Told == {"data", "invalidData", "invalidUrl", "uploadFailed"}

\* uploadData, and the urlCacheKey of a POST to urlString: its path, whatever is sent.
Argument == [body : {"some", NoBody}, key : Keys \cup {BadUrl}]

VARIABLES argument,   \* argument[u]: what upload u is called with
          stage,      \* stage[u]: where it is, see UploadStages
          ending,     \* ending[u]: what its task ended with
          reply       \* reply[u]: what its completion was told

uploadVars == <<managerVars, argument, stage, ending, reply>>

UploadStages == {"idle", "running", "answered", "handling", "over"}

UploadSlot(u) == <<Uploader, argument[u].key>>

Advance(u, from, to) == stage[u] = from /\ stage' = [stage EXCEPT ![u] = to]
-----------------------------------------------------------------------------
UploadInit ==
    /\ ManagerInit
    /\ argument \in [Uploads -> Arguments]
    /\ stage = [u \in Uploads |-> "idle"]
    /\ ending = [u \in Uploads |-> NoReply]
    /\ reply = [u \in Uploads |-> NoReply]

\* upload: told at once when there is nothing to send or nowhere to send it; else a task is
\* made, tracked without cancelling the previous one, and resumed.
upload(u) ==
    /\ MainFree
    /\ \/ /\ argument[u].body = NoBody
          /\ Advance(u, "idle", "over")
          /\ reply' = [reply EXCEPT ![u] = "invalidData"]
          /\ UNCHANGED managerVars
       \/ /\ argument[u].body # NoBody /\ argument[u].key = BadUrl
          /\ Advance(u, "idle", "over")
          /\ reply' = [reply EXCEPT ![u] = "invalidUrl"]
          /\ UNCHANGED managerVars
       \/ /\ argument[u].body # NoBody /\ argument[u].key # BadUrl
          /\ Advance(u, "idle", "running")
          /\ addRequest(u, UploadSlot(u), FALSE)
          /\ UNCHANGED reply
    /\ UNCHANGED <<argument, ending>>

\* The session ends the task; a cancelled one ends in an error.
UploadEnds(u) ==
    /\ Advance(u, "running", "answered")
    /\ \E e \in IF u \in cancelled THEN {"failed"} ELSE Endings :
          ending' = [ending EXCEPT ![u] = e]
    /\ UNCHANGED <<managerVars, argument, reply>>

\* The handler's first statement, on the main queue.  Handlers run one at a time.
UploadRemoves(u) ==
    /\ MainFree
    /\ \A v \in Uploads : stage[v] # "handling"
    /\ Advance(u, "answered", "handling")
    /\ removeRequest(UploadSlot(u))
    /\ UNCHANGED <<argument, ending, reply>>

\* Mutant: an answer outside 2xx is passed over in silence.
CompletesWhenFine(u) ==
    /\ Advance(u, "handling", "over")
    /\ reply' = [reply EXCEPT ![u] = CASE ending[u] = "failed" -> "uploadFailed"
                                       [] ending[u] = "body"   -> "data"
                                       [] OTHER                -> NoReply]
    /\ UNCHANGED <<managerVars, argument, ending>>

\* The rest of it: the completion is told, except of a 2xx answer without data.
UploadCompletes(u) ==
    /\ Advance(u, "handling", "over")
    /\ reply' = [reply EXCEPT ![u] =
                    CASE ending[u] \in {"failed", "httpError"} -> "uploadFailed"
                      [] ending[u] = "body"                    -> "data"
                      [] ending[u] = "noBody"                  -> NoReply]
    /\ UNCHANGED <<managerVars, argument, ending>>

CancelUploadsBegins == cancelValues(Uploader) /\ UNCHANGED <<argument, stage, ending, reply>>
CancelUploadsEnds   == removeAll(Uploader) /\ UNCHANGED <<argument, stage, ending, reply>>
-----------------------------------------------------------------------------
(* Properties; Application checks them together with the rest              *)

\* The variables stay in the ranges the code's types give them.
UploadTypeOK ==
    /\ requestQueue \in [Slots -> Uploads \cup {NoTask}]
    /\ cancelled \subseteq Uploads /\ sweeping \subseteq Managers
    /\ argument \in [Uploads -> Arguments]
    /\ stage \in [Uploads -> UploadStages]
    /\ ending \in [Uploads -> Endings \cup {NoReply}]
    /\ reply \in [Uploads -> Told \cup {NoReply}]

Sending(u) == stage[u] \in {"running", "answered"}

\* Two uploads to one path share a slot whatever they carry.
OwnPath(u) == \A v \in Uploads \ {u} :
                 argument[v].body # NoBody => argument[v].key # argument[u].key
==============================================================================
