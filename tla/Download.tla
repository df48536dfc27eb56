------------------------------- MODULE Download -------------------------------
(***************************************************************************)
(* AwesomeDownload and AwesomeDownloadManager (Downloading/): one shared   *)
(* session, task, URL and completion, replaced by each new download, and   *)
(* lists of URLs chained through the completion.                           *)
(*                                                                         *)
(* Threads.  The application calls on the main thread, which also runs the *)
(* completions.  Each session calls its delegate on a queue of its own,    *)
(* which uses the same fields without a lock.                              *)
(***************************************************************************)
EXTENDS Integers, Sequences

CONSTANTS Urls, Names,
          NameOf,       \* NameOf[u]: lastPathComponent, the name u is filed under
          Lists,        \* the lists of URLs the application may download
          NoFile, NoList,
          Failures,     \* TRUE when the network may fail a task
          FileFaults,   \* TRUE when FileManager may fail
          MaxCalls,     \* bound: calls of the application
          MaxStarts     \* bound: calls to startDownloadSession

ASSUME DownloadAssumption ==
    /\ NameOf \in [Urls -> Names] /\ NoFile \notin Urls
    /\ Lists \subseteq Seq(Urls) /\ NoList \notin Seq(Urls)
    /\ Failures \in BOOLEAN /\ FileFaults \in BOOLEAN
    /\ MaxCalls \in Nat /\ MaxStarts \in Nat

VARIABLES asked,        \* the downloads started: url, and the rest of its list or NoList
          session,      \* the download whose session is in the field, 0 for nil
          downloadTask, \* the download whose task is in the field, 0 for nil
          task,         \* task[n]: where the task of download n is, see TaskStates
          main,         \* what the main thread does next, see MainStates
          mainQueue,    \* completions dispatched to the main queue: by, success
          answers,      \* completions called, in order: to, by, success
          files,        \* files[f]: the URL whose content the file f holds, or NoFile
          alert,        \* the URLs that wait for the user to confirm their deletion
          calls,        \* calls of the application so far
          replacedLate  \* a download was replaced or cancelled while it was finishing

vars == <<asked, session, downloadTask, task, main, mainQueue, answers, files, alert,
          calls, replacedLate>>

\* fetched: all bytes are here, a cancel comes too late; closing and filing: inside
\* didFinishDownloadingTo.
Finishing  == {"fetched", "closing", "filing"}
TaskStates == Finishing \cup {"none", "suspended", "running", "cancelled", "failed", "over"}
MainStates == {"idle", "session", "task", "resume", "completed"}
Starts == 1..MaxStarts

Init ==
    /\ asked = <<>>
    /\ session = 0 /\ downloadTask = 0
    /\ task = [n \in Starts |-> "none"]
    /\ main = "idle"
    /\ mainQueue = <<>> /\ answers = <<>>
    /\ files \in {f \in [Names -> Urls \cup {NoFile}] :
                    \A x \in Names : f[x] = NoFile \/ NameOf[f[x]] = x}
    /\ alert = {}
    /\ calls = 0 /\ replacedLate = FALSE
-----------------------------------------------------------------------------
\* The fields downloadUrl and downloadedCallback: those of the last download.
Last == Len(asked)
downloadUrl == asked[Last].url

offlineFileExists(u) == files[NameOf[u]] # NoFile

Late == mainQueue # <<>> \/ \E n \in Starts : task[n] \in Finishing

\* The tasks when those of D are cancelled: one that has its bytes, or is not there, is
\* beyond it.
Cancelled(D) == [n \in Starts |-> IF n \in D /\ task[n] \in {"suspended", "running"}
                                  THEN "cancelled" ELSE task[n]]

\* cancelDownload: the task in the field, and all those of the session in the field.
cancelDownload ==
    /\ task' = Cancelled({downloadTask, session})
    /\ replacedLate' = (replacedLate \/ Late)

\* Mutant: the previous download is left running.
StartWithoutCancel(u, rest) ==
    /\ Last < MaxStarts
    /\ asked' = Append(asked, [url |-> u, rest |-> rest])
    /\ replacedLate' = (replacedLate \/ Late) /\ UNCHANGED task
    /\ main' = "session"

\* download(from:) of a URL that has no file, up to the new session.
Start(u, rest) ==
    /\ Last < MaxStarts
    /\ asked' = Append(asked, [url |-> u, rest |-> rest])
    /\ cancelDownload
    /\ main' = "session"

\* AwesomeDownloadManager.download: URLs with a file complete at once; the first without
\* one is started and the others wait for it.
downloadList(urls) ==
    \/ /\ \A i \in DOMAIN urls : offlineFileExists(urls[i])
       /\ cancelDownload
       /\ main' = "idle"
       /\ UNCHANGED asked
    \/ \E i \in DOMAIN urls :
          /\ ~offlineFileExists(urls[i])
          /\ \A k \in 1..(i - 1) : offlineFileExists(urls[k])
          /\ Start(urls[i], SubSeq(urls, i + 1, Len(urls)))

Call == main = "idle" /\ calls < MaxCalls /\ calls' = calls + 1

DownloadList(urls) ==
    /\ Call
    /\ downloadList(urls)
    /\ UNCHANGED <<session, downloadTask, mainQueue, answers, files, alert>>

\* AwesomeDownload.download with force: the file goes first.  When it cannot be deleted
\* the call completes as if it had been downloaded.
DownloadForced(u) ==
    /\ Call
    /\ \/ /\ Start(u, NoList)
          /\ files' = [files EXCEPT ![NameOf[u]] = NoFile]
       \/ /\ FileFaults /\ offlineFileExists(u)
          /\ UNCHANGED <<asked, task, main, files, replacedLate>>
    /\ UNCHANGED <<session, downloadTask, mainQueue, answers, alert>>

\* startDownloadSession, continued: the session, the task, resume.
CreateSession ==
    /\ main = "session"
    /\ session' = Last
    /\ main' = "task"
    /\ UNCHANGED <<asked, downloadTask, task, mainQueue, answers, files, alert, calls,
                   replacedLate>>

CreateTask ==
    /\ main = "task"
    /\ downloadTask' = session
    /\ task' = IF session = 0 THEN task ELSE [task EXCEPT ![session] = "suspended"]
    /\ main' = "resume"
    /\ UNCHANGED <<asked, session, mainQueue, answers, files, alert, calls, replacedLate>>

\* Mutant: the task is created and left suspended.
LeaveSuspended ==
    /\ main = "resume"
    /\ main' = "idle"
    /\ UNCHANGED <<asked, session, downloadTask, task, mainQueue, answers, files, alert,
                   calls, replacedLate>>

Resume ==
    /\ main = "resume"
    /\ task' = [n \in Starts |-> IF n = downloadTask /\ task[n] = "suspended"
                                 THEN "running" ELSE task[n]]
    /\ main' = "idle"
    /\ UNCHANGED <<asked, session, downloadTask, mainQueue, answers, files, alert, calls,
                   replacedLate>>
-----------------------------------------------------------------------------
\* The network: all bytes, or a failure, of which the delegate implements nothing.
TaskEnds(n) ==
    /\ task[n] = "running"
    /\ \E s \in {"fetched"} \cup IF Failures THEN {"failed"} ELSE {} :
          task' = [task EXCEPT ![n] = s]
    /\ UNCHANGED <<asked, session, downloadTask, main, mainQueue, answers, files, alert,
                   calls, replacedLate>>

\* didFinishDownloadingTo on the session's queue: finishDownloadSession first ...
CloseSession(n) ==
    /\ task[n] = "fetched"
    /\ session' = 0
    /\ task' = [task EXCEPT ![n] = "closing"]
    /\ UNCHANGED <<asked, downloadTask, main, mainQueue, answers, files, alert, calls,
                   replacedLate>>

CloseTask(n) ==
    /\ task[n] = "closing"
    /\ downloadTask' = 0
    /\ task' = [Cancelled({downloadTask}) EXCEPT ![n] = "filing"]
    /\ UNCHANGED <<asked, session, main, mainQueue, answers, files, alert, calls,
                   replacedLate>>

\* The file is moved to name unless there is one, and the completion dispatched as often
\* as times says.
MoveFile(n, name, times) ==
    /\ task[n] = "filing"
    /\ \E success \in BOOLEAN :
          /\ success => files[name] = NoFile
          /\ ~success => files[name] # NoFile \/ FileFaults
          /\ files' = IF success THEN [files EXCEPT ![name] = asked[n].url] ELSE files
          /\ mainQueue' = mainQueue \o [i \in 1..times |-> [by |-> n, success |-> success]]
    /\ task' = [task EXCEPT ![n] = "over"]
    /\ UNCHANGED <<asked, session, downloadTask, main, answers, alert, calls, replacedLate>>

\* Mutants: the completion is called twice; the file has the name of the first URL.
FileTwice(n) == MoveFile(n, NameOf[downloadUrl], 2)
FileUnderFirst(n) == MoveFile(n, NameOf[asked[1].url], 1)

\* Mutant: a file is named by the whole URL.
FileUnderUrl(n) ==
    /\ task[n] = "filing"
    /\ files' = [x \in Names \cup {downloadUrl} |-> IF x = downloadUrl THEN asked[n].url
                                                   ELSE files[x]]
    /\ mainQueue' = Append(mainQueue, [by |-> n, success |-> TRUE])
    /\ task' = [task EXCEPT ![n] = "over"]
    /\ UNCHANGED <<asked, session, downloadTask, main, answers, alert, calls, replacedLate>>

\* ... then the file is moved to the place of the URL in the field.
FileContent(n) == MoveFile(n, NameOf[downloadUrl], 1)

\* The main queue calls the completion in the field ...
Complete ==
    /\ main = "idle" /\ mainQueue # <<>>
    /\ answers' = Append(answers, [to |-> Last, by |-> Head(mainQueue).by,
                                   success |-> Head(mainQueue).success])
    /\ mainQueue' = Tail(mainQueue)
    /\ main' = "completed"
    /\ UNCHANGED <<asked, session, downloadTask, task, files, alert, calls, replacedLate>>

\* ... and that of a list goes on with the rest of it, whatever success says.
NextInList ==
    /\ main = "completed"
    /\ \/ /\ asked[Last].rest # NoList
          /\ downloadList(asked[Last].rest)
       \/ /\ asked[Last].rest = NoList
          /\ main' = "idle"
          /\ UNCHANGED <<asked, task, replacedLate>>
    /\ UNCHANGED <<session, downloadTask, mainQueue, answers, files, alert, calls>>
-----------------------------------------------------------------------------
\* AwesomeDownloadManager.delete: downloads are cancelled before the user is asked, and
\* also when there is nothing to delete.
AskDelete(urls) ==
    /\ Call
    /\ alert = {} /\ alert' = urls
    /\ cancelDownload
    /\ UNCHANGED <<asked, session, downloadTask, main, mainQueue, answers, files>>

AnswerDelete ==
    /\ main = "idle" /\ alert # {}
    /\ \E D \in SUBSET alert : \* those deleted: none when the user declines
          /\ D = {} \/ D = alert \/ FileFaults
          /\ files' = [f \in Names |-> IF \E u \in D : NameOf[u] = f THEN NoFile ELSE files[f]]
    /\ alert' = {}
    /\ UNCHANGED <<asked, session, downloadTask, task, main, mainQueue, answers, calls,
                   replacedLate>>

TaskStep(n) == TaskEnds(n) \/ CloseSession(n) \/ CloseTask(n) \/ FileContent(n)

Next ==
    \/ \E urls \in Lists : DownloadList(urls)
    \/ \E u \in Urls : DownloadForced(u)
    \/ \E urls \in SUBSET Urls : AskDelete(urls)
    \/ CreateSession \/ CreateTask \/ Resume \/ Complete \/ NextInList \/ AnswerDelete
    \/ \E n \in Starts : TaskStep(n)

Spec == Init /\ [][Next]_vars

\* The main thread and the sessions' queues run what they hold, and the network ends each
\* task, by its timeout if nothing else.
Fairness ==
    /\ WF_vars(CreateSession) /\ WF_vars(CreateTask) /\ WF_vars(Resume)
    /\ WF_vars(Complete) /\ WF_vars(NextInList)
    /\ \A n \in Starts : /\ WF_vars(TaskEnds(n)) /\ WF_vars(CloseSession(n))
                         /\ WF_vars(CloseTask(n)) /\ WF_vars(FileContent(n))

FairSpec == Spec /\ Fairness
-----------------------------------------------------------------------------
(* Properties                                                              *)

Download == [url : Urls, rest : Seq(Urls) \cup {NoList}]

\* The variables stay in the ranges the code's types give them.
TypeOK ==
    /\ asked \in Seq(Download) /\ Last <= MaxStarts
    /\ session \in 0..Last /\ downloadTask \in 0..Last
    /\ task \in [Starts -> TaskStates]
    /\ main \in MainStates
    /\ mainQueue \in Seq([by : Starts, success : BOOLEAN])
    /\ answers \in Seq([to : Starts, by : Starts, success : BOOLEAN])
    /\ files \in [Names -> Urls \cup {NoFile}]
    /\ alert \subseteq Urls
    /\ calls \in 0..MaxCalls
    /\ replacedLate \in BOOLEAN

\* As long as no download was replaced while it was finishing: a file holds the content
\* of a URL of its name.
FilesOwn ==
    ~replacedLate => \A x \in Names : files[x] # NoFile => NameOf[files[x]] = x

\* ... a completion is called for the download it was given for, at most once, and in
\* the order the downloads were started.
AnswersOwn ==
    ~replacedLate =>
       /\ \A i \in DOMAIN answers : answers[i].by = answers[i].to
       /\ \A i, k \in DOMAIN answers : i < k => answers[i].to < answers[k].to

\* ... at most one task is alive, and it can be cancelled: it is the one in the field.
Alive(n) == task[n] \in {"suspended", "running"} \cup Finishing

OneAlive ==
    ~replacedLate =>
       \A n \in Starts : /\ Alive(n) => n = Last
                         /\ task[n] \in {"suspended", "running"} => downloadTask = n

\* ... and none is lost: a download that has been started is settled (completed, cancelled
\* or failed), or what settles it is on its way: the rest of its start on the main thread,
\* a task that runs or is being filed, or a completion that is due.
Settled(n) == \/ \E i \in DOMAIN answers : answers[i].to = n
              \/ task[n] \in {"cancelled", "failed"}

OnItsWay(n) == \/ n = Last /\ main \in {"session", "task", "resume"}
               \/ task[n] \in {"running"} \cup Finishing
               \/ \E i \in DOMAIN mainQueue : mainQueue[i].by = n

NoneLost == ~replacedLate => \A n \in 1..Last : Settled(n) \/ OnItsWay(n)

\* ... so that each is settled in the end.
DownloadsSettle ==
    \A n \in Starts : (n <= Last) ~> (Settled(n) \/ replacedLate)
-----------------------------------------------------------------------------
(* What the repository says and the code does not do                       *)

\* README "Downloading": "completion: { (success) in // download is completed", with
\* success FALSE for one that fails; a download that is not cancelled is completed.
FailureAnswered ==
    \A n \in Starts : (n <= Last) ~> (\/ \E i \in DOMAIN answers : answers[i].to = n
                                     \/ task[n] = "cancelled")

\* The same: a completion with success follows the download it was given for.
CompletedIsThisDownload ==
    \A i \in DOMAIN answers : answers[i].success => answers[i].by = answers[i].to
=============================================================================
