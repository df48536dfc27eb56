---------------------------- MODULE DownloadProofs ----------------------------
(***************************************************************************)
(* Theorems about the downloads, for any URLs, names and lists: as long as *)
(* no download is replaced or cancelled while it is finishing, the fields  *)
(* that all downloads share belong to the last one, and with them the      *)
(* file, the completion and the task that can be cancelled.                *)
(***************************************************************************)
EXTENDS Download, SequenceTheorems, TLAPS

Starting == {"session", "task", "resume"}

\* A task and a completion under way belong to a download that was started.
StartedInv ==
    /\ \A n \in Starts : task[n] # "none" => n <= Last
    /\ \A i \in DOMAIN mainQueue : mainQueue[i].by <= Last
    /\ main # "idle" => Last > 0

TInv == TypeOK /\ StartedInv

\* The task of the last download is the only one alive, and the fields are its own.
FieldsInv ==
    /\ \A n \in Starts : /\ Alive(n) => n = Last
                         /\ task[n] \in {"suspended", "running"} => downloadTask = n
    /\ main \in {"session", "task"} => task[Last] = "none"
    /\ main = "task" => session = Last
    /\ main = "resume" => task[Last] = "suspended" /\ downloadTask = Last
    /\ main \in Starting => mainQueue = <<>>

\* A completion that is due, or was called, is that of a task that is over.
DueInv ==
    mainQueue # <<>> => /\ Len(mainQueue) = 1
                        /\ Head(mainQueue).by = Last
                        /\ Last > 0 /\ task[Last] = "over"

CalledInv ==
    /\ \A i \in DOMAIN answers :
          /\ answers[i].by = answers[i].to
          /\ answers[i].to <= Last
          /\ answers[i].to = Last => task[Last] = "over" /\ mainQueue = <<>>
    /\ \A i, k \in DOMAIN answers : i < k => answers[i].to < answers[k].to

OwnFiles == \A x \in Names : files[x] # NoFile => NameOf[files[x]] = x

DInv == TInv /\ (~replacedLate => FieldsInv /\ DueInv /\ CalledInv /\ OwnFiles)
-----------------------------------------------------------------------------
(* Types                                                                   *)

\* A cancel touches the tasks it names, if they are suspended or running.
LEMMA CancelledFacts ==
    ASSUME TypeOK, NEW D
    PROVE  /\ Cancelled(D) \in [Starts -> TaskStates]
           /\ \A n \in Starts :
                 /\ Cancelled(D)[n] = task[n]
                       \/ (n \in D /\ task[n] \in {"suspended", "running"}
                                 /\ Cancelled(D)[n] = "cancelled")
                 /\ n \in D => Cancelled(D)[n] \notin {"suspended", "running"}
BY DEF Cancelled, TypeOK, TaskStates

LEMMA AskedFacts ==
    ASSUME TypeOK
    PROVE  /\ Last \in Nat /\ Last <= MaxStarts
           /\ \A n \in 1..Last : /\ asked[n] \in Download
                                 /\ asked[n].url \in Urls
                                 /\ asked[n].rest \in Seq(Urls) \cup {NoList}
           /\ \A n \in 1..Last : n \in Starts
           /\ MaxStarts \in Nat
<1>1. asked \in Seq(Download) /\ Last <= MaxStarts /\ MaxStarts \in Nat /\ Last \in Nat
  BY DownloadAssumption DEF TypeOK, Last
<1>2. ASSUME NEW n \in 1..Last PROVE asked[n] \in Download
  BY <1>1, <1>2 DEF Last
<1>3. \A d \in Download : d.url \in Urls /\ d.rest \in Seq(Urls) \cup {NoList}
  BY DEF Download
<1>4. \A n \in 1..Last : n \in Starts
  BY <1>1 DEF Starts
<1> QED
  BY <1>1, <1>2, <1>3, <1>4

\* What a new download, or a list that has nothing left to fetch, does to the types.
LEMMA StartTypes ==
    ASSUME TypeOK, NEW u \in Urls, NEW rest \in Seq(Urls) \cup {NoList}, Start(u, rest)
    PROVE  /\ asked' \in Seq(Download) /\ Last' = Last + 1 /\ Last' <= MaxStarts
           /\ \A n \in 1..Last : asked'[n] = asked[n]
           /\ task' \in [Starts -> TaskStates]
           /\ \A n \in Starts : task'[n] # "none" => task[n] # "none"
           /\ main' = "session" /\ replacedLate' \in BOOLEAN
<1>1. asked \in Seq(Download) /\ [url |-> u, rest |-> rest] \in Download
  BY DEF TypeOK, Download
<1>2. asked' \in Seq(Download) /\ Last' = Last + 1 /\ \A n \in 1..Last : asked'[n] = asked[n]
  BY <1>1 DEF Start, Last
<1>3. Last' <= MaxStarts
  BY <1>2, AskedFacts DEF Start
<1>4. task' = Cancelled({downloadTask, session})
  BY DEF Start, cancelDownload
<1>5. replacedLate' \in BOOLEAN
  BY DEF TypeOK, Start, cancelDownload, Late
<1> QED
  BY <1>2, <1>3, <1>4, <1>5, CancelledFacts DEF Start

LEMMA ListTypes ==
    ASSUME TypeOK, NEW urls \in Seq(Urls), downloadList(urls)
    PROVE  /\ asked' \in Seq(Download) /\ Last' \in {Last, Last + 1} /\ Last' <= MaxStarts
           /\ task' \in [Starts -> TaskStates]
           /\ \A n \in Starts : task'[n] # "none" => task[n] # "none"
           /\ \/ main' = "idle" /\ asked' = asked
              \/ main' = "session" /\ Last' = Last + 1
           /\ replacedLate' \in BOOLEAN
<1>1. CASE cancelDownload /\ main' = "idle" /\ UNCHANGED asked
  <2>1. Last' = Last
    BY <1>1 DEF Last
  <2>2. task' = Cancelled({downloadTask, session})
    BY <1>1 DEF cancelDownload
  <2>3. replacedLate' \in BOOLEAN
    BY <1>1 DEF TypeOK, cancelDownload, Late
  <2> QED
    BY <1>1, <2>1, <2>2, <2>3, CancelledFacts, AskedFacts DEF TypeOK
<1>2. ASSUME NEW i \in DOMAIN urls, Start(urls[i], SubSeq(urls, i + 1, Len(urls)))
      PROVE  /\ asked' \in Seq(Download) /\ Last' = Last + 1 /\ Last' <= MaxStarts
             /\ task' \in [Starts -> TaskStates]
             /\ \A n \in Starts : task'[n] # "none" => task[n] # "none"
             /\ main' = "session" /\ replacedLate' \in BOOLEAN
  <2>1. urls[i] \in Urls /\ SubSeq(urls, i + 1, Len(urls)) \in Seq(Urls)
    OBVIOUS
  <2> QED
    BY <1>2, <2>1, StartTypes
<1> QED
  BY <1>1, <1>2 DEF downloadList

\* What an answer and a completion that is due are made of.
LEMMA AnswerFacts ==
    ASSUME TypeOK
    PROVE  /\ \A i \in DOMAIN mainQueue : /\ mainQueue[i].by \in Starts
                                         /\ mainQueue[i].success \in BOOLEAN
           /\ \A i \in DOMAIN answers : /\ answers[i].by \in Starts
                                       /\ answers[i].to \in Starts
<1> DEFINE Due == [by : Starts, success : BOOLEAN]
           Called == [to : Starts, by : Starts, success : BOOLEAN]
<1>1. mainQueue \in Seq(Due) /\ answers \in Seq(Called)
  BY DEF TypeOK
<1>2. \A x \in Due : x.by \in Starts /\ x.success \in BOOLEAN
  OBVIOUS
<1>3. \A x \in Called : x.by \in Starts /\ x.to \in Starts
  OBVIOUS
<1> HIDE DEF Due, Called
<1>4. \A i \in DOMAIN mainQueue : mainQueue[i] \in Due
  BY <1>1
<1>5. \A i \in DOMAIN answers : answers[i] \in Called
  BY <1>1
<1> QED
  BY <1>2, <1>3, <1>4, <1>5

\* A completion is dispatched behind those that are due.
LEMMA DueAppended ==
    ASSUME NEW q \in Seq([by : Starts, success : BOOLEAN]), NEW n \in Starts,
           NEW success \in BOOLEAN
    PROVE  LET r == q \o [i \in 1..1 |-> [by |-> n, success |-> success]] IN
           /\ r \in Seq([by : Starts, success : BOOLEAN])
           /\ DOMAIN r = 1..(Len(q) + 1) /\ Len(r) = Len(q) + 1
           /\ \A i \in 1..Len(q) : r[i] = q[i]
           /\ r[Len(q) + 1] = [by |-> n, success |-> success]
<1> DEFINE Due == [by : Starts, success : BOOLEAN]
           item == [by |-> n, success |-> success]
           one == [i \in 1..1 |-> item]
<1>1. q \in Seq(Due) /\ item \in Due
  OBVIOUS
<1> HIDE DEF Due, item
<1>2. one \in Seq(Due) /\ Len(one) = 1 /\ one[1] = item
  BY <1>1
<1>3. /\ q \o one \in Seq(Due)
      /\ DOMAIN (q \o one) = 1..(Len(q) + 1) /\ Len(q \o one) = Len(q) + 1
      /\ \A i \in 1..Len(q) : (q \o one)[i] = q[i]
      /\ (q \o one)[Len(q) + 1] = item
  BY <1>1, <1>2
<1> QED
  BY <1>3 DEF Due, item

\* Files stay filed under names when one is deleted or filled.
LEMMA FileTypes ==
    ASSUME TypeOK, NEW x \in Names, NEW u \in Urls \cup {NoFile}
    PROVE  [files EXCEPT ![x] = u] \in [Names -> Urls \cup {NoFile}]
BY DEF TypeOK

\* The types that hold when a download may have been started.
LEMMA TypesFrame ==
    ASSUME TInv, asked' \in Seq(Download), Last' \in {Last, Last + 1}, Last' <= MaxStarts,
           task' \in [Starts -> TaskStates],
           \A n \in Starts : task'[n] # "none" => task[n] # "none",
           \/ main' = "idle"
           \/ main' = "session" /\ Last' = Last + 1,
           replacedLate' \in BOOLEAN, files' \in [Names -> Urls \cup {NoFile}],
           calls' \in 0..MaxCalls,
           UNCHANGED <<session, downloadTask, mainQueue, answers, alert>>
    PROVE  TInv'
<1>1. Last \in Nat /\ session \in 0..Last /\ downloadTask \in 0..Last
  BY AskedFacts DEF TInv, TypeOK
<1>2. \A i \in DOMAIN mainQueue : mainQueue[i].by \in Starts /\ mainQueue[i].by \in Int
  BY AnswerFacts DEF TInv, Starts
<1>3. \A n \in Starts : n \in Int
  BY DEF Starts
<1>4. session' \in 0..Last' /\ downloadTask' \in 0..Last'
  BY <1>1
<1>5. StartedInv'
  BY <1>1, <1>2, <1>3 DEF TInv, StartedInv
<1> QED
  BY <1>4, <1>5 DEF TInv, TypeOK, MainStates

\* Each action keeps the types, and what is under way belongs to a started download.
LEMMA CallTypes ==
    ASSUME TInv,
           \/ \E urls \in Lists : DownloadList(urls)
           \/ \E u \in Urls : DownloadForced(u)
           \/ \E urls \in SUBSET Urls : AskDelete(urls)
    PROVE  TInv'
<1> USE DEF TInv
<1>0. calls < MaxCalls /\ calls' = calls + 1 /\ calls' \in 0..MaxCalls
  BY DownloadAssumption DEF DownloadList, DownloadForced, AskDelete, Call, TypeOK
<1>1. ASSUME NEW urls \in Lists, DownloadList(urls) PROVE TInv'
  <2>1. urls \in Seq(Urls)
    BY DownloadAssumption
  <2>2. /\ asked' \in Seq(Download) /\ Last' \in {Last, Last + 1} /\ Last' <= MaxStarts
        /\ task' \in [Starts -> TaskStates]
        /\ \A n \in Starts : task'[n] # "none" => task[n] # "none"
        /\ \/ main' = "idle" /\ asked' = asked
           \/ main' = "session" /\ Last' = Last + 1
        /\ replacedLate' \in BOOLEAN
    BY <1>1, <2>1, ListTypes DEF DownloadList
  <2>3. /\ UNCHANGED <<session, downloadTask, mainQueue, answers, alert>>
        /\ files' \in [Names -> Urls \cup {NoFile}]
    BY <1>1 DEF DownloadList, TypeOK
  <2> QED
    BY <1>0, <2>2, <2>3, TypesFrame
<1>2. ASSUME NEW u \in Urls, DownloadForced(u) PROVE TInv'
  <2>1. files' \in [Names -> Urls \cup {NoFile}]
    <3>1. NameOf[u] \in Names
      BY DownloadAssumption
    <3> QED
      BY <1>2, <3>1, FileTypes DEF DownloadForced, TypeOK
  <2>2. CASE Start(u, NoList)
    <3>1. /\ asked' \in Seq(Download) /\ Last' = Last + 1 /\ Last' <= MaxStarts
          /\ task' \in [Starts -> TaskStates]
          /\ \A n \in Starts : task'[n] # "none" => task[n] # "none"
          /\ main' = "session" /\ replacedLate' \in BOOLEAN
      BY <2>2, StartTypes
    <3>2. UNCHANGED <<session, downloadTask, mainQueue, answers, alert>>
      BY <1>2 DEF DownloadForced
    <3> QED
      BY <1>0, <2>1, <3>1, <3>2, TypesFrame
  <2>3. CASE UNCHANGED <<asked, task, main, files, replacedLate>>
    <3>1. Last' = Last
      BY <2>3 DEF Last
    <3>2. UNCHANGED <<session, downloadTask, mainQueue, answers, alert>>
      BY <1>2 DEF DownloadForced
    <3> QED
      BY <1>0, <2>1, <2>3, <3>1, <3>2 DEF TypeOK, StartedInv
  <2> QED
    BY <1>2, <2>2, <2>3 DEF DownloadForced
<1>3. ASSUME NEW urls \in SUBSET Urls, AskDelete(urls) PROVE TInv'
  <2>1. /\ UNCHANGED <<asked, session, downloadTask, main, mainQueue, answers, files>>
        /\ alert' = urls /\ task' = Cancelled({downloadTask, session})
        /\ replacedLate' \in BOOLEAN
    BY <1>3 DEF AskDelete, cancelDownload, TypeOK, Late
  <2>2. Last' = Last
    BY <2>1 DEF Last
  <2>3. /\ task' \in [Starts -> TaskStates]
        /\ \A n \in Starts : task'[n] # "none" => task[n] # "none"
    BY <2>1, CancelledFacts
  <2> QED
    BY <1>0, <2>1, <2>2, <2>3 DEF TypeOK, StartedInv
<1> QED
  BY <1>1, <1>2, <1>3

LEMMA MainTypes ==
    ASSUME TInv, CreateSession \/ CreateTask \/ Resume \/ Complete \/ AnswerDelete
    PROVE  TInv'
<1> USE DEF TInv
<1>0. Last' = Last /\ Last \in Nat
  BY AskedFacts DEF CreateSession, CreateTask, Resume, Complete, AnswerDelete, Last
<1>1. CASE CreateSession
  BY <1>0, <1>1 DEF CreateSession, TypeOK, MainStates, StartedInv
<1>2. CASE CreateTask
  <2>1. /\ task' \in [Starts -> TaskStates]
        /\ \A n \in Starts : task'[n] # "none" => task[n] # "none" \/ n = session
    BY <1>2 DEF CreateTask, TypeOK, TaskStates
  <2>2. session \in 0..Last
    BY DEF TypeOK
  <2>3. StartedInv'
    BY <1>0, <1>2, <2>1, <2>2 DEF CreateTask, StartedInv
  <2> QED
    BY <1>0, <1>2, <2>1, <2>2, <2>3 DEF CreateTask, TypeOK, MainStates
<1>3. CASE Resume
  <2>1. /\ task' \in [Starts -> TaskStates]
        /\ \A n \in Starts : task'[n] # "none" => task[n] # "none"
    BY <1>3 DEF Resume, TypeOK, TaskStates
  <2> QED
    BY <1>0, <1>3, <2>1 DEF Resume, TypeOK, MainStates, StartedInv
<1>4. CASE Complete
  <2>1. /\ mainQueue \in Seq([by : Starts, success : BOOLEAN]) /\ mainQueue # <<>>
        /\ mainQueue' = Tail(mainQueue)
    BY <1>4 DEF Complete, TypeOK
  <2>2. /\ mainQueue' \in Seq([by : Starts, success : BOOLEAN])
        /\ 1 \in DOMAIN mainQueue /\ Head(mainQueue) = mainQueue[1]
        /\ \A i \in DOMAIN mainQueue' : /\ i + 1 \in DOMAIN mainQueue
                                       /\ mainQueue'[i] = mainQueue[i + 1]
    BY <2>1
  <2>3. Head(mainQueue).by \in Starts /\ Head(mainQueue).success \in BOOLEAN
    BY <2>2, AnswerFacts
  <2>4. Last \in Starts
    BY <1>0, <2>2, <2>3, AskedFacts DEF StartedInv, Starts
  <2>5. answers' \in Seq([to : Starts, by : Starts, success : BOOLEAN])
    BY <1>4, <2>3, <2>4 DEF Complete, TypeOK
  <2>6. StartedInv'
    BY <1>0, <1>4, <2>2, <2>4 DEF Complete, StartedInv, Starts
  <2> QED
    BY <1>0, <1>4, <2>2, <2>5, <2>6 DEF Complete, TypeOK, MainStates
<1>5. CASE AnswerDelete
  <2>1. files' \in [Names -> Urls \cup {NoFile}]
    BY <1>5 DEF AnswerDelete, TypeOK
  <2> QED
    BY <1>0, <1>5, <2>1 DEF AnswerDelete, TypeOK, StartedInv
<1> QED
  BY <1>1, <1>2, <1>3, <1>4, <1>5

LEMMA NextInListTypes ==
    ASSUME TInv, NextInList
    PROVE  TInv'
<1> USE DEF TInv
<1>1. /\ Last \in 1..Last /\ calls' \in 0..MaxCalls
      /\ files' \in [Names -> Urls \cup {NoFile}]
      /\ UNCHANGED <<session, downloadTask, mainQueue, answers, alert>>
  BY AskedFacts DEF NextInList, StartedInv, TypeOK
<1>2. CASE asked[Last].rest # NoList /\ downloadList(asked[Last].rest)
  <2>1. asked[Last].rest \in Seq(Urls)
    BY <1>1, <1>2, AskedFacts
  <2> QED
    BY <1>1, <1>2, <2>1, ListTypes, TypesFrame
<1>3. CASE main' = "idle" /\ UNCHANGED <<asked, task, replacedLate>>
  <2>1. Last' = Last
    BY <1>3 DEF Last
  <2> QED
    BY <1>1, <1>3, <2>1, AskedFacts, TypesFrame DEF TypeOK
<1> QED
  BY <1>2, <1>3 DEF NextInList

LEMMA TaskTypes ==
    ASSUME TInv, NEW n \in Starts, TaskStep(n)
    PROVE  TInv'
<1> USE DEF TInv
<1>0. /\ task[n] # "none" /\ n \in 1..Last /\ Last' = Last /\ Last \in Nat
  BY AskedFacts DEF TaskStep, TaskEnds, CloseSession, CloseTask, FileContent, MoveFile,
                    Last, StartedInv, Starts
<1>1. CASE TaskEnds(n)
  <2>1. /\ task' \in [Starts -> TaskStates]
        /\ \A k \in Starts : task'[k] # "none" => task[k] # "none"
    BY <1>0, <1>1 DEF TaskEnds, TypeOK, TaskStates, Finishing
  <2> QED
    BY <1>0, <1>1, <2>1 DEF TaskEnds, TypeOK, StartedInv
<1>2. CASE CloseSession(n)
  <2>1. /\ task' \in [Starts -> TaskStates]
        /\ \A k \in Starts : task'[k] # "none" => task[k] # "none"
    BY <1>0, <1>2 DEF CloseSession, TypeOK, TaskStates, Finishing
  <2> QED
    BY <1>0, <1>2, <2>1 DEF CloseSession, TypeOK, StartedInv
<1>3. CASE CloseTask(n)
  <2>1. /\ task' \in [Starts -> TaskStates]
        /\ \A k \in Starts : task'[k] # "none" => task[k] # "none"
    BY <1>0, <1>3, CancelledFacts DEF CloseTask, TaskStates, Finishing
  <2> QED
    <3>1. StartedInv'
      BY <1>0, <1>3, <2>1 DEF CloseTask, StartedInv
    <3>2. /\ UNCHANGED <<asked, session, main, mainQueue, answers, files, alert, calls,
                        replacedLate>>
          /\ downloadTask' = 0
      BY <1>3 DEF CloseTask
    <3> QED
      BY <1>0, <2>1, <3>1, <3>2 DEF TypeOK
<1>4. CASE FileContent(n)
  <2>1. /\ task' \in [Starts -> TaskStates]
        /\ \A k \in Starts : task'[k] # "none" => task[k] # "none"
    BY <1>0, <1>4 DEF FileContent, MoveFile, TypeOK, TaskStates
  <2>2. PICK success \in BOOLEAN :
           /\ files' = IF success THEN [files EXCEPT ![NameOf[downloadUrl]] = asked[n].url]
                                  ELSE files
           /\ mainQueue' = mainQueue \o [i \in 1..1 |-> [by |-> n, success |-> success]]
    BY <1>4 DEF FileContent, MoveFile
  <2>3. files' \in [Names -> Urls \cup {NoFile}]
    <3>1. asked[n].url \in Urls /\ NameOf[downloadUrl] \in Names
      BY <1>0, AskedFacts, DownloadAssumption DEF downloadUrl
    <3> QED
      BY <2>2, <3>1, FileTypes DEF TypeOK
  <2>4. /\ mainQueue' \in Seq([by : Starts, success : BOOLEAN])
        /\ DOMAIN mainQueue' = 1..(Len(mainQueue) + 1)
        /\ \A i \in 1..Len(mainQueue) : mainQueue'[i] = mainQueue[i]
        /\ mainQueue'[Len(mainQueue) + 1].by = n
    BY <2>2, DueAppended DEF TypeOK
  <2>5. StartedInv'
    BY <1>0, <1>4, <2>1, <2>4 DEF FileContent, MoveFile, StartedInv, TypeOK
  <2> QED
    BY <1>0, <1>4, <2>1, <2>3, <2>4, <2>5 DEF FileContent, MoveFile, TypeOK
<1> QED
  BY <1>1, <1>2, <1>3, <1>4 DEF TaskStep

LEMMA NextTypes == TInv /\ [Next]_vars => TInv'
<1> SUFFICES ASSUME TInv, [Next]_vars PROVE TInv'
  OBVIOUS
<1>1. CASE UNCHANGED vars
  BY <1>1 DEF vars, TInv, TypeOK, StartedInv, Last
<1> QED
  BY <1>1, CallTypes, MainTypes, NextInListTypes, TaskTypes DEF Next

LEMMA InitTypes == Init => TInv
<1> SUFFICES ASSUME Init PROVE TInv
  OBVIOUS
<1>1. Last = 0
  BY DEF Init, Last
<1>2. /\ asked \in Seq(Download) /\ mainQueue \in Seq([by : Starts, success : BOOLEAN])
      /\ answers \in Seq([to : Starts, by : Starts, success : BOOLEAN])
  BY DEF Init
<1>3. TypeOK
  <2>1. session \in 0..Last /\ downloadTask \in 0..Last /\ calls \in 0..MaxCalls
    BY <1>1, DownloadAssumption DEF Init
  <2>2. task \in [Starts -> TaskStates] /\ main \in MainStates
    BY DEF Init, TaskStates, MainStates
  <2>3. files \in [Names -> Urls \cup {NoFile}] /\ alert \subseteq Urls /\ replacedLate \in BOOLEAN
    BY DEF Init
  <2> QED
    BY <1>1, <1>2, <2>1, <2>2, <2>3, DownloadAssumption DEF TypeOK
<1> QED
  BY <1>1, <1>3 DEF Init, TInv, StartedInv

\* The variables of the downloads stay in their types, late replacements included.
THEOREM DownloadTypeCorrect == Spec => []TypeOK
<1>1. TInv => TypeOK
  BY DEF TInv
<1> QED
  BY <1>1, InitTypes, NextTypes, PTL DEF Spec
-----------------------------------------------------------------------------
(* The shared fields                                                       *)

Fields == FieldsInv /\ DueInv /\ CalledInv

\* A cancel that is not late leaves no task alive and no completion due.
LEMMA CancelEffect ==
    ASSUME DInv, cancelDownload, ~replacedLate'
    PROVE  /\ ~replacedLate /\ mainQueue = <<>>
           /\ \A n \in Starts : /\ ~Alive(n)'
                                /\ task[n] = "none" => task'[n] = "none"
                                /\ task[n] = "over" => task'[n] = "over"
<1>1. /\ ~replacedLate /\ mainQueue = <<>>
      /\ \A n \in Starts : task[n] \notin Finishing
      /\ task' = Cancelled({downloadTask, session})
  BY DEF cancelDownload, Late
<1>2. FieldsInv /\ TypeOK
  BY <1>1 DEF DInv, TInv
<1>3. ASSUME NEW n \in Starts
      PROVE  /\ ~Alive(n)'
             /\ task[n] = "none" => task'[n] = "none"
             /\ task[n] = "over" => task'[n] = "over"
  BY <1>1, <1>2, CancelledFacts DEF FieldsInv, Alive, Finishing
<1> QED
  BY <1>1, <1>3

\* A new download begins with the fields to itself ...
LEMMA StartKeeps ==
    ASSUME DInv, NEW u \in Urls, NEW rest \in Seq(Urls) \cup {NoList}, Start(u, rest),
           UNCHANGED <<session, downloadTask, mainQueue, answers>>, ~replacedLate'
    PROVE  Fields'
<1>1. /\ Last' = Last + 1 /\ Last \in Nat /\ Last + 1 \in Starts /\ main' = "session"
  BY StartTypes, AskedFacts, DownloadAssumption DEF DInv, TInv, Starts
<1>2. /\ ~replacedLate /\ mainQueue = <<>>
      /\ \A n \in Starts : /\ ~Alive(n)'
                           /\ task[n] = "none" => task'[n] = "none"
  BY CancelEffect DEF Start
<1>3. task'[Last + 1] = "none"
  BY <1>1, <1>2 DEF DInv, TInv, StartedInv
<1>4. FieldsInv'
  BY <1>1, <1>2, <1>3 DEF FieldsInv, Alive, Starting
<1>5. DueInv'
  BY <1>2 DEF DueInv
<1>6. CalledInv'
  <2>1. CalledInv /\ \A i \in DOMAIN answers : answers[i].to \in Nat
    BY <1>2, AnswerFacts DEF DInv, TInv, Starts
  <2> QED
    BY <1>1, <2>1 DEF CalledInv
<1> QED
  BY <1>4, <1>5, <1>6 DEF Fields

\* ... and a cancel without one leaves them to the last, which is over.
LEMMA CancelKeeps ==
    ASSUME DInv, cancelDownload, main' = "idle", ~replacedLate',
           UNCHANGED <<asked, session, downloadTask, mainQueue, answers>>
    PROVE  Fields'
<1>1. /\ ~replacedLate /\ mainQueue = <<>>
      /\ \A n \in Starts : /\ ~Alive(n)'
                           /\ task[n] = "over" => task'[n] = "over"
  BY CancelEffect
<1>2. Last' = Last
  BY DEF Last
<1>3. FieldsInv'
  BY <1>1 DEF FieldsInv, Alive, Starting
<1>4. DueInv'
  BY <1>1 DEF DueInv
<1>5. CalledInv'
  <2>1. CalledInv /\ \A i \in DOMAIN answers : answers[i].to \in Starts
    BY <1>1, AnswerFacts DEF DInv, TInv
  <2> QED
    BY <1>1, <1>2, <2>1 DEF CalledInv
<1> QED
  BY <1>3, <1>4, <1>5 DEF Fields

LEMMA ListKeeps ==
    ASSUME DInv, NEW urls \in Seq(Urls), downloadList(urls), ~replacedLate',
           UNCHANGED <<session, downloadTask, mainQueue, answers>>
    PROVE  Fields'
<1>1. ASSUME NEW i \in DOMAIN urls, Start(urls[i], SubSeq(urls, i + 1, Len(urls)))
      PROVE  Fields'
  <2>1. urls[i] \in Urls /\ SubSeq(urls, i + 1, Len(urls)) \in Seq(Urls)
    OBVIOUS
  <2> QED
    BY <1>1, <2>1, StartKeeps
<1> QED
  BY <1>1, CancelKeeps DEF downloadList

\* A step that touches neither the fields nor the tasks.
LEMMA FieldsFrame ==
    ASSUME DInv, ~replacedLate,
           UNCHANGED <<asked, session, downloadTask, task, mainQueue, answers>>,
           main' = main \/ main' = "idle"
    PROVE  Fields'
<1>1. Last' = Last
  BY DEF Last
<1> QED
  BY <1>1 DEF DInv, Fields, FieldsInv, DueInv, CalledInv, Alive, Starting

\* What the application asks for.
LEMMA CallFields ==
    ASSUME DInv, ~replacedLate',
           \/ \E urls \in Lists : DownloadList(urls)
           \/ \E u \in Urls : DownloadForced(u)
           \/ \E urls \in SUBSET Urls : AskDelete(urls)
    PROVE  Fields'
<1>1. ASSUME NEW urls \in Lists, DownloadList(urls) PROVE Fields'
  BY <1>1, ListKeeps, DownloadAssumption DEF DownloadList
<1>2. ASSUME NEW u \in Urls, DownloadForced(u) PROVE Fields'
  <2>1. UNCHANGED <<session, downloadTask, mainQueue, answers>>
    BY <1>2 DEF DownloadForced
  <2>2. CASE Start(u, NoList)
    BY <2>1, <2>2, StartKeeps
  <2>3. CASE UNCHANGED <<asked, task, main, files, replacedLate>>
    BY <2>1, <2>3, FieldsFrame
  <2> QED
    BY <1>2, <2>2, <2>3 DEF DownloadForced
<1>3. ASSUME NEW urls \in SUBSET Urls, AskDelete(urls) PROVE Fields'
  BY <1>3, CancelKeeps DEF AskDelete, Call
<1> QED
  BY <1>1, <1>2, <1>3

\* The completion that is due is called for the last download, which none was before.
LEMMA CompleteFields ==
    ASSUME DInv, ~replacedLate, Complete
    PROVE  Fields'
<1>1. /\ FieldsInv /\ DueInv /\ CalledInv /\ TypeOK /\ Last' = Last /\ Last \in Nat
      /\ \A i \in DOMAIN answers : answers[i].to \in Starts
  BY AnswerFacts, AskedFacts DEF DInv, TInv, Complete, Last
<1>2. /\ mainQueue # <<>> /\ Len(mainQueue) = 1 /\ Head(mainQueue).by = Last
      /\ Last > 0 /\ task[Last] = "over" /\ mainQueue' = Tail(mainQueue)
  BY <1>1 DEF Complete, DueInv
<1>3. mainQueue' = <<>>
  BY <1>1, <1>2 DEF TypeOK
<1>4. Last \in Starts /\ Head(mainQueue).success \in BOOLEAN
  <2>1. Head(mainQueue) = mainQueue[1] /\ 1 \in DOMAIN mainQueue
    BY <1>1, <1>2 DEF TypeOK
  <2> QED
    BY <1>1, <1>2, <2>1, AnswerFacts, AskedFacts DEF Starts
<1>5. /\ FieldsInv'
      /\ DueInv'
  BY <1>1, <1>2, <1>3 DEF Complete, FieldsInv, DueInv, Alive, Starting
<1>6. CalledInv'
  <2> DEFINE Called == [to : Starts, by : Starts, success : BOOLEAN]
             reply == [to |-> Last, by |-> Head(mainQueue).by,
                       success |-> Head(mainQueue).success]
  <2>1. answers \in Seq(Called) /\ reply \in Called /\ answers' = Append(answers, reply)
    BY <1>1, <1>2, <1>4 DEF TypeOK, Complete
  <2>2. reply.to = Last /\ reply.by = Last
    BY <1>2
  <2> HIDE DEF Called, reply
  <2>3. /\ DOMAIN answers = 1..Len(answers) /\ Len(answers) \in Nat
        /\ DOMAIN answers' = 1..(Len(answers) + 1)
        /\ \A i \in 1..Len(answers) : answers'[i] = answers[i]
        /\ answers'[Len(answers) + 1] = reply
    BY <2>1
  <2>4. \A i \in DOMAIN answers : answers[i].to < Last
    BY <1>1, <1>2 DEF CalledInv, Starts
  <2>5. task' = task
    BY DEF Complete
  <2>6. \A i \in DOMAIN answers' :
           /\ answers'[i].by = answers'[i].to /\ answers'[i].to <= Last
           /\ i = Len(answers) + 1 \/ i \in DOMAIN answers
    BY <1>1, <2>2, <2>3 DEF CalledInv
  <2>7. ASSUME NEW i \in DOMAIN answers', NEW k \in DOMAIN answers', i < k
        PROVE  answers'[i].to < answers'[k].to
    <3>1. i \in DOMAIN answers /\ answers'[i] = answers[i]
      BY <2>3, <2>7
    <3>2. CASE k \in DOMAIN answers
      BY <1>1, <2>3, <2>7, <3>1, <3>2 DEF CalledInv
    <3>3. CASE k = Len(answers) + 1
      BY <2>2, <2>3, <2>4, <3>1, <3>3
    <3> QED
      BY <2>6, <2>7, <3>2, <3>3
  <2>8. Last' = Last /\ task'[Last] = "over" /\ mainQueue' = <<>>
    BY <1>1, <1>2, <1>3, <2>5
  <2> QED
    BY <2>6, <2>7, <2>8 DEF CalledInv
<1> QED
  BY <1>5, <1>6 DEF Fields

\* What the main thread goes on with: the session, the task and its start are those of
\* the last download, and its completion is called once.
LEMMA MainFields ==
    ASSUME DInv, ~replacedLate',
           CreateSession \/ CreateTask \/ Resume \/ Complete \/ AnswerDelete
    PROVE  Fields'
<1>0. /\ ~replacedLate /\ Last' = Last /\ Last \in Nat
  BY AskedFacts DEF DInv, TInv, CreateSession, CreateTask, Resume, Complete, AnswerDelete, Last
<1>1. /\ FieldsInv /\ DueInv /\ CalledInv /\ TypeOK /\ StartedInv
      /\ \A i \in DOMAIN answers : answers[i].to \in Starts
  BY <1>0, AnswerFacts DEF DInv, TInv
<1>2. main # "idle" => Last \in Starts
  BY <1>0, <1>1, AskedFacts DEF StartedInv, Starts
<1>3. CASE CreateSession
  <2>1. FieldsInv'
    BY <1>0, <1>1, <1>3 DEF CreateSession, FieldsInv, Alive, Starting
  <2> QED
    BY <1>0, <1>1, <1>3, <2>1 DEF CreateSession, DueInv, CalledInv, Fields
<1>4. CASE CreateTask
  <2>1. /\ session = Last /\ task[Last] = "none" /\ mainQueue = <<>> /\ Last \in Starts
        /\ \A n \in Starts : ~Alive(n)
    BY <1>1, <1>2, <1>4 DEF CreateTask, FieldsInv, Starting, Alive, Finishing
  <2>2. task' = [task EXCEPT ![Last] = "suspended"] /\ downloadTask' = Last
    BY <1>0, <1>4, <2>1 DEF CreateTask, Starts
  <2>3. FieldsInv'
    BY <1>0, <1>1, <1>4, <2>1, <2>2 DEF CreateTask, FieldsInv, Alive, Starting, TypeOK
  <2>4. DueInv'
    BY <1>4, <2>1 DEF CreateTask, DueInv
  <2>5. CalledInv'
    BY <1>0, <1>1, <1>4, <2>1, <2>2 DEF CreateTask, CalledInv
  <2> QED
    BY <2>3, <2>4, <2>5 DEF Fields
<1>5. CASE Resume
  <2>1. task[Last] = "suspended" /\ downloadTask = Last /\ mainQueue = <<>> /\ Last \in Starts
    BY <1>1, <1>2, <1>5 DEF Resume, FieldsInv, Starting
  <2>2. \A n \in Starts : task'[n] = IF n = Last THEN "running" ELSE task[n]
    BY <2>1, <1>5 DEF Resume
  <2>3. FieldsInv'
    BY <1>0, <1>1, <1>5, <2>1, <2>2 DEF Resume, FieldsInv, Alive, Starting
  <2>4. DueInv'
    BY <1>5, <2>1 DEF Resume, DueInv
  <2>5. CalledInv'
    BY <1>0, <1>1, <1>5, <2>1, <2>2 DEF Resume, CalledInv
  <2> QED
    BY <2>3, <2>4, <2>5 DEF Fields
<1>6. CASE Complete
  BY <1>6, <1>0, CompleteFields
<1>7. CASE AnswerDelete
  BY <1>0, <1>7, FieldsFrame DEF AnswerDelete
<1> QED
  BY <1>3, <1>4, <1>5, <1>6, <1>7

LEMMA NextInListFields ==
    ASSUME DInv, ~replacedLate', NextInList
    PROVE  Fields'
<1>1. UNCHANGED <<session, downloadTask, mainQueue, answers>>
  BY DEF NextInList
<1>2. CASE asked[Last].rest # NoList /\ downloadList(asked[Last].rest)
  <2>1. Last \in 1..Last
    BY AskedFacts DEF NextInList, DInv, TInv, StartedInv
  <2>2. asked[Last].rest \in Seq(Urls)
    BY <1>2, <2>1, AskedFacts DEF DInv, TInv
  <2> QED
    BY <1>1, <1>2, <2>2, ListKeeps
<1>3. CASE main' = "idle" /\ UNCHANGED <<asked, task, replacedLate>>
  BY <1>1, <1>3, FieldsFrame
<1> QED
  BY <1>2, <1>3 DEF NextInList

\* A task that ends is the last one's; its delegate clears the fields that are its own.
LEMMA TaskFields ==
    ASSUME DInv, ~replacedLate', NEW n \in Starts, TaskStep(n)
    PROVE  Fields'
<1>0. /\ ~replacedLate /\ Last' = Last /\ Last \in Nat /\ main' = main /\ answers' = answers
  BY AskedFacts DEF DInv, TInv, TaskStep, TaskEnds, CloseSession, CloseTask, FileContent,
                    MoveFile, Last
<1>1. /\ FieldsInv /\ DueInv /\ CalledInv /\ TypeOK
      /\ \A i \in DOMAIN answers : answers[i].to \in Starts
  BY <1>0, AnswerFacts DEF DInv, TInv
<1>2. task[n] \in {"running"} \cup Finishing
  BY DEF TaskStep, TaskEnds, CloseSession, CloseTask, FileContent, MoveFile, Finishing
<1>3. /\ n = Last /\ main \notin Starting /\ mainQueue = <<>>
      /\ \A i \in DOMAIN answers : answers[i].to # Last
      /\ \A k \in Starts : k # n => ~Alive(k)
  BY <1>0, <1>1, <1>2 DEF FieldsInv, DueInv, CalledInv, Alive, Starting, Finishing
<1>4. \A k \in Starts : k # n => task'[k] = task[k]
  <2>1. CASE CloseTask(n)
    BY <1>1, <1>3, <2>1, CancelledFacts DEF CloseTask, Alive
  <2>2. CASE TaskEnds(n) \/ CloseSession(n) \/ FileContent(n)
    BY <2>2, <1>1 DEF TypeOK, TaskEnds, CloseSession, FileContent, MoveFile
  <2> QED
    BY <2>1, <2>2 DEF TaskStep
<1>5. /\ task'[n] \in {"fetched", "failed", "closing", "filing", "over"}
      /\ \/ mainQueue' = mainQueue
         \/ /\ Len(mainQueue') = 1 /\ Head(mainQueue').by = n
            /\ task'[n] = "over"
  <2>1. CASE FileContent(n)
    <3>1. PICK success \in BOOLEAN :
             mainQueue' = mainQueue \o [i \in 1..1 |-> [by |-> n, success |-> success]]
      BY <2>1 DEF FileContent, MoveFile
    <3>2. /\ mainQueue' \in Seq([by : Starts, success : BOOLEAN])
          /\ Len(mainQueue') = Len(mainQueue) + 1
          /\ mainQueue'[Len(mainQueue) + 1] = [by |-> n, success |-> success]
      BY <1>1, <3>1, DueAppended DEF TypeOK
    <3>3. Len(mainQueue') = 1 /\ mainQueue'[1].by = n
      BY <1>3, <3>2
    <3> QED
      BY <1>1, <2>1, <3>2, <3>3 DEF TypeOK, FileContent, MoveFile
  <2>2. CASE CloseTask(n)
    BY <2>2, <1>1, CancelledFacts DEF CloseTask
  <2>3. CASE TaskEnds(n) \/ CloseSession(n)
    BY <2>3, <1>1 DEF TypeOK, TaskEnds, CloseSession
  <2> QED
    BY <2>1, <2>2, <2>3 DEF TaskStep
<1>6. FieldsInv'
  BY <1>0, <1>3, <1>4, <1>5 DEF FieldsInv, Alive, Starting
<1>7. DueInv'
  BY <1>0, <1>3, <1>5 DEF DueInv, Starts
<1>8. CalledInv'
  BY <1>0, <1>1, <1>3 DEF CalledInv
<1> QED
  BY <1>6, <1>7, <1>8 DEF Fields
-----------------------------------------------------------------------------
(* The files                                                               *)

\* Once a replacement was late, that is not forgotten.
LEMMA LateStays == [Next]_vars /\ replacedLate => replacedLate'
<1> SUFFICES ASSUME [Next]_vars, replacedLate PROVE replacedLate'
  OBVIOUS
<1>1. ASSUME NEW urls, downloadList(urls) PROVE replacedLate'
  BY <1>1 DEF downloadList, Start, cancelDownload
<1>2. ASSUME NEW u, DownloadForced(u) PROVE replacedLate'
  BY <1>2 DEF DownloadForced, Start, cancelDownload
<1>3. ASSUME NEW urls, AskDelete(urls) PROVE replacedLate'
  BY <1>3 DEF AskDelete, cancelDownload
<1>4. CASE NextInList
  BY <1>1, <1>4 DEF NextInList
<1>5. CASE replacedLate' = replacedLate
  BY <1>5
<1> QED
  BY <1>1, <1>2, <1>3, <1>4, <1>5
     DEF Next, vars, DownloadList, CreateSession, CreateTask, Resume, Complete,
         AnswerDelete, TaskStep, TaskEnds, CloseSession, CloseTask, FileContent, MoveFile

\* A file that is filled, by the task of the last download, is filled with its content.
LEMMA NextFiles ==
    ASSUME DInv, ~replacedLate', [Next]_vars
    PROVE  OwnFiles'
<1>0. ~replacedLate /\ OwnFiles /\ FieldsInv /\ TypeOK
  BY LateStays DEF DInv, TInv
<1>1. ASSUME NEW u \in Urls, DownloadForced(u) PROVE OwnFiles'
  BY <1>0, <1>1, DownloadAssumption DEF DownloadForced, OwnFiles, TypeOK
<1>2. CASE AnswerDelete
  BY <1>0, <1>2 DEF AnswerDelete, OwnFiles
<1>3. ASSUME NEW n \in Starts, FileContent(n) PROVE OwnFiles'
  <2>1. n = Last
    BY <1>0, <1>3 DEF FieldsInv, Alive, Finishing, FileContent, MoveFile
  <2>2. \/ files' = [files EXCEPT ![NameOf[asked[n].url]] = asked[n].url]
        \/ files' = files
    BY <1>3, <2>1 DEF FileContent, MoveFile, downloadUrl
  <2> QED
    BY <1>0, <2>2 DEF OwnFiles, TypeOK
<1>4. CASE files' = files
  BY <1>0, <1>4 DEF OwnFiles
<1> QED
  BY <1>1, <1>2, <1>3, <1>4
     DEF Next, vars, DownloadList, AskDelete, CreateSession, CreateTask, Resume, Complete,
         NextInList, TaskStep, TaskEnds, CloseSession, CloseTask
-----------------------------------------------------------------------------
LEMMA NextDownload == DInv /\ [Next]_vars => DInv'
<1> SUFFICES ASSUME DInv, [Next]_vars PROVE DInv'
  OBVIOUS
<1>1. TInv'
  BY NextTypes DEF DInv
<1>2. ~replacedLate' => ~replacedLate
  BY LateStays
<1>3. ASSUME ~replacedLate' PROVE Fields'
  <2>1. CASE UNCHANGED vars
    BY <1>2, <1>3, <2>1, FieldsFrame DEF vars
  <2>2. CASE Next
    BY <1>3, <2>2, CallFields, MainFields, NextInListFields, TaskFields DEF Next
  <2> QED
    BY <2>1, <2>2
<1>4. ASSUME ~replacedLate' PROVE OwnFiles'
  BY <1>4, NextFiles
<1> QED
  BY <1>1, <1>3, <1>4 DEF DInv, Fields

LEMMA InitDownload == Init => DInv
<1> SUFFICES ASSUME Init PROVE DInv
  OBVIOUS
<1>1. Fields
  BY DEF Init, Fields, FieldsInv, DueInv, CalledInv, Alive, Finishing, Starting
<1>2. OwnFiles
  BY DEF Init, OwnFiles
<1> QED
  BY <1>1, <1>2, InitTypes DEF DInv, Fields

\* The inductive invariant: whose the shared fields are, until a late replacement.
THEOREM DownloadInvariance == Spec => []DInv
BY InitDownload, NextDownload, PTL DEF Spec

\* Until a download is replaced or cancelled while it is finishing, a file holds the
\* content of a URL of its own name.
THEOREM FilesAreOwn == Spec => []FilesOwn
<1>1. DInv => FilesOwn
  BY DEF DInv, OwnFiles, FilesOwn
<1> QED
  BY <1>1, DownloadInvariance, PTL

\* ... each completion answers its own download, once, in the order of the starts.
THEOREM AnswersAreOwn == Spec => []AnswersOwn
<1>1. DInv => AnswersOwn
  BY DEF DInv, CalledInv, AnswersOwn
<1> QED
  BY <1>1, DownloadInvariance, PTL

\* ... and the only task alive is the last one, which a cancel reaches.
THEOREM OneTaskAlive == Spec => []OneAlive
<1>1. DInv => OneAlive
  BY DEF DInv, FieldsInv, OneAlive
<1> QED
  BY <1>1, DownloadInvariance, PTL
-----------------------------------------------------------------------------
(* None is lost                                                            *)

Kept == \A n \in 1..Last : Settled(n) \/ OnItsWay(n)

\* A download is settled once and for all when neither its answers nor its end are undone.
LEMMA SettledStays ==
    ASSUME NEW n, Settled(n),
           answers' = answers \/ \E a : answers \in Seq(a) /\ \E x \in a : answers' = Append(answers, x),
           task[n] \in {"cancelled", "failed"} => task'[n] = task[n]
    PROVE  Settled(n)'
<1>1. ASSUME NEW a, answers \in Seq(a), NEW x \in a, answers' = Append(answers, x)
      PROVE  \A i \in DOMAIN answers : i \in DOMAIN answers' /\ answers'[i] = answers[i]
  BY <1>1
<1>2. \A i \in DOMAIN answers : i \in DOMAIN answers' /\ answers'[i] = answers[i]
  BY <1>1
<1> QED
  BY <1>2 DEF Settled

\* A cancel that is not late settles what was under way: it is the task in the field.
LEMMA CancelSettles ==
    ASSUME DInv, Kept, main \notin Starting, cancelDownload, ~replacedLate',
           answers' = answers
    PROVE  \A n \in 1..Last : Settled(n)'
<1>1. /\ ~replacedLate /\ mainQueue = <<>>
      /\ \A n \in Starts : task[n] \notin Finishing
      /\ task' = Cancelled({downloadTask, session})
  BY DEF cancelDownload, Late
<1>2. FieldsInv /\ TypeOK
  BY <1>1 DEF DInv, TInv
<1> SUFFICES ASSUME NEW n \in 1..Last PROVE Settled(n)'
  OBVIOUS
<1>3. n \in Starts
  BY <1>2, AskedFacts
<1>4. CASE Settled(n)
  <2>1. task[n] \in {"cancelled", "failed"} => task'[n] = task[n]
    BY <1>1, <1>2, <1>3, CancelledFacts
  <2> QED
    BY <1>4, <2>1, SettledStays
<1>5. CASE OnItsWay(n)
  <2>1. task[n] = "running"
    BY <1>1, <1>3, <1>5 DEF OnItsWay, Starting
  <2>2. downloadTask = n
    BY <1>2, <1>3, <2>1 DEF FieldsInv
  <2>3. task'[n] = "cancelled"
    BY <1>1, <1>3, <2>1, <2>2 DEF Cancelled
  <2> QED
    BY <2>3 DEF Settled
<1> QED
  BY <1>4, <1>5 DEF Kept

\* A start settles the downloads before it, and has the main thread go on with its own.
LEMMA StartKept ==
    ASSUME DInv, Kept, main \notin Starting, ~replacedLate', answers' = answers,
           NEW u \in Urls, NEW rest \in Seq(Urls) \cup {NoList}, Start(u, rest)
    PROVE  Kept'
<1>1. /\ \A n \in 1..Last : Settled(n)'
      /\ Last' = Last + 1 /\ Last \in Nat /\ main' = "session"
  BY CancelSettles, StartTypes, AskedFacts DEF Start, DInv, TInv
<1>2. ASSUME NEW n, n = Last + 1 PROVE OnItsWay(n)'
  BY <1>1, <1>2 DEF OnItsWay
<1>3. \A n \in 1..Last' : Settled(n)' \/ OnItsWay(n)'
  BY <1>1, <1>2
<1> QED
  BY <1>3 DEF Kept

LEMMA ListKept ==
    ASSUME DInv, Kept, main \notin Starting, ~replacedLate', answers' = answers,
           NEW urls \in Seq(Urls), downloadList(urls)
    PROVE  Kept'
<1>1. ASSUME NEW i \in DOMAIN urls, Start(urls[i], SubSeq(urls, i + 1, Len(urls)))
      PROVE  Kept'
  <2>1. urls[i] \in Urls /\ SubSeq(urls, i + 1, Len(urls)) \in Seq(Urls)
    OBVIOUS
  <2> QED
    BY <1>1, <2>1, StartKept
<1>2. ASSUME cancelDownload, UNCHANGED asked PROVE Kept'
  <2>1. Last' = Last
    BY <1>2 DEF Last
  <2> QED
    BY <1>2, <2>1, CancelSettles DEF Kept
<1> QED
  BY <1>1, <1>2 DEF downloadList

\* A step that leaves the tasks, what is due and what was answered.
LEMMA KeptFrame ==
    ASSUME Kept, UNCHANGED <<asked, task, mainQueue, answers>>,
           main \in Starting => main' \in Starting
    PROVE  Kept'
<1>1. Last' = Last
  BY DEF Last
<1> QED
  BY <1>1 DEF Kept, Settled, OnItsWay, Starting

LEMMA CallKept ==
    ASSUME DInv, Kept, ~replacedLate',
           \/ \E urls \in Lists : DownloadList(urls)
           \/ \E u \in Urls : DownloadForced(u)
           \/ \E urls \in SUBSET Urls : AskDelete(urls)
    PROVE  Kept'
<1>1. main = "idle" /\ main \notin Starting
  BY DEF DownloadList, DownloadForced, AskDelete, Call, Starting
<1>2. ASSUME NEW urls \in Lists, DownloadList(urls) PROVE Kept'
  BY <1>1, <1>2, ListKept, DownloadAssumption DEF DownloadList
<1>3. ASSUME NEW u \in Urls, DownloadForced(u) PROVE Kept'
  BY <1>1, <1>3, StartKept, KeptFrame DEF DownloadForced
<1>4. ASSUME NEW urls \in SUBSET Urls, AskDelete(urls) PROVE Kept'
  <2>1. Last' = Last
    BY <1>4 DEF AskDelete, Last
  <2> QED
    BY <1>1, <1>4, <2>1, CancelSettles DEF AskDelete, Kept
<1> QED
  BY <1>2, <1>3, <1>4

\* The main thread: the start ends with a task that runs, the completion with an answer.
LEMMA MainKept ==
    ASSUME DInv, Kept, ~replacedLate',
           CreateSession \/ CreateTask \/ Resume \/ Complete \/ AnswerDelete
    PROVE  Kept'
<1>0. /\ ~replacedLate /\ Last' = Last /\ Last \in Nat
  BY AskedFacts DEF DInv, TInv, CreateSession, CreateTask, Resume, Complete, AnswerDelete, Last
<1>1. FieldsInv /\ DueInv /\ TypeOK /\ StartedInv
  BY <1>0 DEF DInv, TInv
<1>2. \A n \in 1..Last : n \in Starts
  BY <1>1, AskedFacts
<1>3. CASE CreateSession
  BY <1>3, KeptFrame DEF CreateSession, Starting
<1>4. CASE AnswerDelete
  BY <1>4, KeptFrame DEF AnswerDelete
<1>5. CASE CreateTask
  <2>1. /\ session = Last /\ task[Last] = "none" /\ main' = "resume"
        /\ \A n \in Starts : n # Last => task'[n] = task[n]
        /\ UNCHANGED <<mainQueue, answers>>
    BY <1>1, <1>5 DEF CreateTask, FieldsInv, TypeOK
  <2>2. OnItsWay(Last)'
    BY <1>0, <2>1 DEF OnItsWay
  <2>3. ASSUME NEW n \in 1..Last, n # Last PROVE (Settled(n) \/ OnItsWay(n))'
    BY <1>0, <1>2, <2>1, <2>3 DEF Kept, Settled, OnItsWay
  <2> QED
    BY <1>0, <2>2, <2>3 DEF Kept
<1>6. CASE Resume
  <2>1. /\ task[Last] = "suspended" /\ downloadTask = Last
        /\ \A n \in Starts : task'[n] = IF n = Last THEN "running" ELSE task[n]
        /\ UNCHANGED <<mainQueue, answers>>
    BY <1>1, <1>6 DEF Resume, FieldsInv
  <2> QED
    BY <1>0, <1>2, <2>1 DEF Kept, Settled, OnItsWay
<1>7. CASE Complete
  <2> DEFINE Called == [to : Starts, by : Starts, success : BOOLEAN]
             reply == [to |-> Last, by |-> Head(mainQueue).by,
                       success |-> Head(mainQueue).success]
  <2>1. /\ mainQueue # <<>> /\ Len(mainQueue) = 1 /\ Head(mainQueue).by = Last
        /\ mainQueue[1] = Head(mainQueue) /\ 1 \in DOMAIN mainQueue
        /\ Last > 0 /\ main \notin Starting /\ UNCHANGED task
    BY <1>1, <1>7 DEF Complete, DueInv, TypeOK, Starting
  <2>2. Last \in 1..Last /\ Last \in Starts
    BY <1>0, <1>2, <2>1
  <2>3. reply \in Called /\ answers \in Seq(Called) /\ answers' = Append(answers, reply)
    BY <1>1, <1>7, <2>1, <2>2, AnswerFacts DEF Complete, TypeOK
  <2>4. Settled(Last)'
    <3>1. reply.to = Last
      OBVIOUS
    <3> HIDE DEF reply, Called
    <3>2. /\ Len(answers) + 1 \in DOMAIN answers'
          /\ answers'[Len(answers) + 1] = reply
      BY <2>3
    <3> QED
      BY <1>0, <3>1, <3>2 DEF Settled
  <2>5. ASSUME NEW n \in 1..Last, n # Last PROVE Settled(n)' \/ OnItsWay(n)'
    <3>1. CASE Settled(n)
      BY <2>1, <2>3, <3>1, SettledStays
    <3>2. CASE OnItsWay(n)
      <4>1. \A i \in DOMAIN mainQueue : i = 1
        BY <1>1, <2>1 DEF TypeOK
      <4>2. task[n] \in {"running"} \cup Finishing
        BY <2>1, <2>5, <3>2, <4>1 DEF OnItsWay, Starting
      <4> QED
        BY <2>1, <4>2 DEF OnItsWay
    <3> QED
      BY <3>1, <3>2 DEF Kept
  <2> QED
    BY <1>0, <2>4, <2>5 DEF Kept
<1> QED
  BY <1>3, <1>4, <1>5, <1>6, <1>7

LEMMA NextInListKept ==
    ASSUME DInv, Kept, ~replacedLate', NextInList
    PROVE  Kept'
<1>1. answers' = answers /\ mainQueue' = mainQueue /\ main \notin Starting
  BY DEF NextInList, Starting
<1>2. CASE asked[Last].rest # NoList /\ downloadList(asked[Last].rest)
  <2>1. Last \in 1..Last
    BY AskedFacts DEF NextInList, DInv, TInv, StartedInv
  <2>2. asked[Last].rest \in Seq(Urls)
    BY <1>2, <2>1, AskedFacts DEF DInv, TInv
  <2> QED
    BY <1>1, <1>2, <2>2, ListKept
<1>3. CASE UNCHANGED <<asked, task>>
  BY <1>1, <1>3, KeptFrame
<1> QED
  BY <1>2, <1>3 DEF NextInList

\* A task is filed, and the completion is then due, or it has failed.
LEMMA TaskKept ==
    ASSUME DInv, Kept, ~replacedLate', NEW n \in Starts, TaskStep(n)
    PROVE  Kept'
<1>0. /\ ~replacedLate /\ Last' = Last /\ Last \in Nat /\ main' = main /\ answers' = answers
  BY AskedFacts DEF DInv, TInv, TaskStep, TaskEnds, CloseSession, CloseTask, FileContent,
                    MoveFile, Last
<1>1. FieldsInv /\ TypeOK
  BY <1>0 DEF DInv, TInv
<1>2. \A k \in 1..Last : k \in Starts
  BY <1>1, AskedFacts
<1>3. ASSUME NEW k \in 1..Last, TaskEnds(n) \/ CloseSession(n) PROVE Settled(k)' \/ OnItsWay(k)'
  <2>1. /\ task' \in [Starts -> TaskStates] /\ mainQueue' = mainQueue
        /\ task'[n] \in Finishing \cup {"failed"} /\ \A j \in Starts : j # n => task'[j] = task[j]
    BY <1>1, <1>3 DEF TaskEnds, CloseSession, TypeOK, TaskStates, Finishing
  <2> QED
    BY <1>0, <1>2, <1>3, <2>1 DEF Kept, Settled, OnItsWay
<1>4. ASSUME NEW k \in 1..Last, CloseTask(n) PROVE Settled(k)' \/ OnItsWay(k)'
  <2>1. /\ task[n] = "closing" /\ mainQueue' = mainQueue
        /\ task' = [Cancelled({downloadTask}) EXCEPT ![n] = "filing"]
        /\ Cancelled({downloadTask}) \in [Starts -> TaskStates]
    BY <1>1, <1>4, CancelledFacts DEF CloseTask
  <2>2. n = Last /\ \A j \in Starts : j # n => ~Alive(j)
    BY <1>1, <2>1 DEF FieldsInv, Alive, Finishing
  <2>3. task'[n] \in Finishing /\ \A j \in Starts : j # n => task'[j] = task[j]
    BY <1>1, <2>1, <2>2, CancelledFacts DEF Alive, Finishing
  <2> QED
    BY <1>0, <1>2, <2>1, <2>3 DEF Kept, Settled, OnItsWay
<1>5. ASSUME NEW k \in 1..Last, FileContent(n) PROVE Settled(k)' \/ OnItsWay(k)'
  <2>1. PICK success \in BOOLEAN :
           mainQueue' = mainQueue \o [i \in 1..1 |-> [by |-> n, success |-> success]]
    BY <1>5 DEF FileContent, MoveFile
  <2>2. /\ DOMAIN mainQueue = 1..Len(mainQueue) /\ Len(mainQueue) \in Nat
        /\ DOMAIN mainQueue' = 1..(Len(mainQueue) + 1)
        /\ \A i \in 1..Len(mainQueue) : mainQueue'[i] = mainQueue[i]
        /\ mainQueue'[Len(mainQueue) + 1].by = n
    BY <1>1, <2>1, DueAppended DEF TypeOK
  <2>3. \A j \in Starts : j # n => task'[j] = task[j]
    BY <1>1, <1>5 DEF FileContent, MoveFile, TypeOK
  <2>4. CASE k = n
    BY <2>2, <2>4 DEF OnItsWay
  <2>5. CASE k # n
    BY <1>0, <1>2, <2>2, <2>3, <2>5 DEF Kept, Settled, OnItsWay
  <2> QED
    BY <2>4, <2>5
<1> QED
  BY <1>0, <1>3, <1>4, <1>5 DEF Kept, TaskStep

LInv == DInv /\ (~replacedLate => Kept)

LEMMA NextKept == LInv /\ [Next]_vars => LInv'
<1> SUFFICES ASSUME LInv, [Next]_vars PROVE LInv'
  OBVIOUS
<1>1. DInv' /\ (~replacedLate' => ~replacedLate)
  BY NextDownload, LateStays DEF LInv
<1>2. ASSUME ~replacedLate' PROVE Kept'
  <2>1. DInv /\ Kept
    BY <1>1, <1>2 DEF LInv
  <2>2. CASE UNCHANGED vars
    BY <2>1, <2>2, KeptFrame DEF vars
  <2>3. CASE Next
    BY <1>2, <2>1, <2>3, CallKept, MainKept, NextInListKept, TaskKept DEF Next
  <2> QED
    BY <2>2, <2>3
<1> QED
  BY <1>1, <1>2 DEF LInv

\* ... and no download is lost: each is answered, cancelled or failed, or what makes it so
\* is on its way.
THEOREM NoDownloadLost == Spec => []NoneLost
<1>1. Init => LInv
  <2>1. Init => Kept
    BY DEF Init, Kept, Last
  <2> QED
    BY <2>1, InitDownload DEF LInv
<1>2. LInv => NoneLost
  BY DEF LInv, Kept, NoneLost
<1> QED
  BY <1>1, <1>2, NextKept, PTL DEF Spec
=============================================================================
