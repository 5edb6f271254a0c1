-------------------------- MODULE CasePage_proofs --------------------------
(***************************************************************************)
(* Theorems about the case page and the Flask service, for every number of *)
(* tabs, uploads and files.  The properties of the service are proved for  *)
(* ServiceNext, its own next-state relation, of which every step of the    *)
(* pages is a step or a stutter (NextIsService).                           *)
(***************************************************************************)
EXTENDS CasePage, TLAPS

ServiceNext ==
  \/ \E u \in Uploads : Handle(u) \/ \E n \in 0 .. MaxFiles : Accept(u, n)
  \/ Restart

(***************************************************************************)
(* What is true of the local variables of upload_documents at each point,  *)
(* and of the list.                                                        *)
(***************************************************************************)
LocalsOK ==
  \A u \in Uploads :
    /\ At(u, "unsent") => upload[u].found = {}
    /\ At(u, "events") => <<u, upload[u].done>> \in documents
    /\ ~At(u, "answered") => upload[u].found \subseteq documents /\ upload[u].reply = "none"
    /\ At(u, "extended") \/ At(u, "sorting") => upload[u].done = upload[u].files
    /\ ~At(u, "sorting") => saved[u].held = {}

ListOK ==
  /\ timeline.held = {} => timeline.sorted
  /\ ~timeline.array => timeline.held = {}
  /\ \A u \in Uploads : ~saved[u].array => saved[u].held = {}

(* EventsHaveDocuments is inductive with these, and with it the types: the *)
(* events that are found are those of a listed document.                   *)
ServiceOK ==
  BackendTypeOK /\ LocalsOK /\ ListOK /\ EventsHaveDocuments /\ TimelineSorted

-----------------------------------------------------------------------------
LEMMA InStored ==
  /\ \A d : d \in Stored <=> d \in timeline.held \/ \E v \in Uploads : d \in saved[v].held
  /\ \A d : d \in Stored' <=> d \in timeline'.held \/ \E v \in Uploads : d \in saved'[v].held
BY DEF Stored

(* What the parts of the service's state have for types. *)
LEMMA TypesOf ==
  ASSUME BackendTypeOK, NEW u \in Uploads
  PROVE  /\ upload[u] \in Uploading /\ saved[u] \in Lists /\ timeline \in Lists
         /\ upload[u].done \in 0 .. MaxFiles /\ upload[u].files \in 0 .. MaxFiles
         /\ upload[u].found \subseteq Documents
BY DEF BackendTypeOK, Uploading

LEMMA ServiceInit == BackendInit => ServiceOK
<1> SUFFICES ASSUME BackendInit PROVE ServiceOK
  OBVIOUS
<1>1. Unsent \in Uploading /\ EmptyList \in Lists /\ Emptied \in Lists
  BY UploadAssumption DEF Unsent, Uploading, EmptyList, Emptied, Lists
<1>2. BackendTypeOK
  BY <1>1 DEF BackendInit, BackendTypeOK
<1>3. LocalsOK /\ ListOK /\ TimelineSorted
  BY DEF BackendInit, LocalsOK, ListOK, TimelineSorted, At, Unsent, EmptyList, Emptied
<1>4. EventsHaveDocuments
  BY InStored DEF BackendInit, EventsHaveDocuments, EmptyList, Emptied
<1> QED
  BY <1>2, <1>3, <1>4 DEF ServiceOK

LEMMA AnswerType ==
  ASSUME BackendTypeOK, NEW u \in Uploads,
         NEW reply \in {"ok", "refused", "failed", "lost"}, Answer(u, reply)
  PROVE  upload' \in [Uploads -> Uploading]
<1>1. upload[u] \in Uploading
  BY DEF BackendTypeOK
<1>2. [upload[u] EXCEPT !.at = "answered", !.reply = reply] \in Uploading
  BY <1>1 DEF Uploading
<1> QED
  BY <1>1, <1>2 DEF BackendTypeOK, Answer

LEMMA AcceptType ==
  ASSUME BackendTypeOK, NEW u \in Uploads, NEW n \in 0 .. MaxFiles, Accept(u, n)
  PROVE  BackendTypeOK'
<1>1. upload[u] \in Uploading
  BY DEF BackendTypeOK
<1>2. [upload[u] EXCEPT !.at = "text", !.files = n] \in Uploading
  BY <1>1 DEF Uploading
<1> QED
  BY <1>1, <1>2 DEF BackendTypeOK, Accept

LEMMA HandleType ==
  ASSUME BackendTypeOK, LocalsOK, NEW u \in Uploads, Handle(u)
  PROVE  BackendTypeOK'
<1> USE DEF BackendTypeOK
<1>0. upload[u] \in Uploading /\ saved[u] \in Lists /\ timeline \in Lists
  OBVIOUS
<1>1. CASE TextExtracted(u)
  <2>1. upload[u].done + 1 \in 1 .. MaxFiles /\ upload[u].done + 1 \in 0 .. MaxFiles
    BY <1>0, <1>1, UploadAssumption DEF TextExtracted, HasNextFile, Uploading
  <2>2. [upload[u] EXCEPT !.at = "events", !.done = @ + 1] \in Uploading
    BY <1>0, <2>1 DEF Uploading
  <2>3. upload' \in [Uploads -> Uploading]
    BY <1>1, <2>2 DEF TextExtracted
  <2>4. documents' \subseteq Documents
    BY <1>1, <2>1 DEF TextExtracted, Documents
  <2> QED
    BY <1>1, <2>3, <2>4 DEF TextExtracted
<1>2. CASE NoText(u)
  BY <1>2, AnswerType DEF NoText
<1>3. CASE TextFails(u)
  BY <1>3, AnswerType DEF TextFails
<1>4. CASE EventsExtracted(u)
  <2>1. PICK new \in {{}, {<<u, upload[u].done>>}} :
          upload' = [upload EXCEPT ![u].at = "text", ![u].found = @ \cup new]
    BY <1>4 DEF EventsExtracted
  <2>2. new \subseteq Documents
    BY <1>4, <2>1 DEF EventsExtracted, LocalsOK
  <2>3. [upload[u] EXCEPT !.at = "text", !.found = @ \cup new] \in Uploading
    BY <1>0, <2>2 DEF Uploading
  <2> QED
    BY <1>4, <2>1, <2>3 DEF EventsExtracted
<1>5. CASE Extend(u)
  <2>1. Extended(timeline, upload[u].found) \in Lists
    BY <1>0 DEF Extended, Lists, Uploading
  <2>2. upload' \in [Uploads -> Uploading]
    BY <1>0, <1>5 DEF Extend, Uploading
  <2> QED
    BY <1>5, <2>1, <2>2 DEF Extend
<1>6. CASE SortNothing(u)
  BY <1>6, AnswerType DEF SortNothing
<1>7. CASE SortBegins(u)
  <2>1. Emptied \in Lists
    BY DEF Emptied, Lists
  <2>2. upload' \in [Uploads -> Uploading]
    BY <1>0, <1>7 DEF SortBegins, Uploading
  <2> QED
    BY <1>0, <1>7, <2>1, <2>2 DEF SortBegins
<1>8. CASE SortEnds(u)
  <2>1. Emptied \in Lists /\ [saved[u] EXCEPT !.sorted = TRUE] \in Lists
    BY <1>0 DEF Emptied, Lists
  <2>2. upload' \in [Uploads -> Uploading]
    BY <1>8, AnswerType DEF SortEnds
  <2> QED
    BY <1>8, <2>1, <2>2 DEF SortEnds
<1> QED
  BY <1>1, <1>2, <1>3, <1>4, <1>5, <1>6, <1>7, <1>8 DEF Handle

LEMMA RestartType ==
  ASSUME BackendTypeOK, Restart
  PROVE  BackendTypeOK'
<1>1. EmptyList \in Lists /\ Emptied \in Lists
  BY DEF EmptyList, Emptied, Lists
<1>2. ASSUME NEW u \in Uploads
      PROVE  upload'[u] \in Uploading
  BY <1>2 DEF Restart, BackendTypeOK, Uploading
<1>3. upload' \in [Uploads -> Uploading]
  BY <1>2 DEF Restart
<1> QED
  BY <1>1, <1>3 DEF Restart, BackendTypeOK

-----------------------------------------------------------------------------
(* A step of an upload touches no other, and unlists no document. *)
LEMMA HandleIsLocal ==
  ASSUME BackendTypeOK, NEW u \in Uploads, Handle(u)
  PROVE  /\ \A v \in Uploads \ {u} : upload'[v] = upload[v] /\ saved'[v] = saved[v]
         /\ documents \subseteq documents'
         /\ restarted' = restarted
BY DEF BackendTypeOK, Handle, TextExtracted, NoText, TextFails, EventsExtracted, Extend,
       SortNothing, SortBegins, SortEnds, Answer

LEMMA HandleLocals ==
  ASSUME BackendTypeOK, LocalsOK, NEW u \in Uploads, Handle(u)
  PROVE  LocalsOK'
<1>0. upload[u] \in Uploading /\ saved[u] \in Lists /\ upload \in [Uploads -> Uploading]
      /\ saved \in [Uploads -> Lists]
  BY DEF BackendTypeOK
<1> DEFINE OK(v) ==
      /\ At(v, "unsent") => upload[v].found = {}
      /\ At(v, "events") => <<v, upload[v].done>> \in documents
      /\ ~At(v, "answered") => upload[v].found \subseteq documents /\ upload[v].reply = "none"
      /\ At(v, "extended") \/ At(v, "sorting") => upload[v].done = upload[v].files
      /\ ~At(v, "sorting") => saved[v].held = {}
<1>1. ASSUME NEW v \in Uploads \ {u} PROVE OK(v)'
  BY HandleIsLocal DEF LocalsOK, At
<1>2. OK(u)
  BY DEF LocalsOK
<1>3. OK(u)'
  <2>1. CASE TextExtracted(u)
    <3>1. upload'[u] = [upload[u] EXCEPT !.at = "events", !.done = @ + 1]
      BY <1>0, <2>1 DEF TextExtracted
    <3>2. upload'[u].at = "events" /\ upload'[u].done = upload[u].done + 1
          /\ upload'[u].found = upload[u].found /\ upload'[u].reply = upload[u].reply
      BY <1>0, <3>1 DEF Uploading
    <3>3. <<u, upload'[u].done>> \in documents' /\ documents \subseteq documents'
      BY <2>1, <3>2 DEF TextExtracted
    <3>4. At(u, "text") /\ saved' = saved
      BY <2>1 DEF TextExtracted, HasNextFile
    <3> QED
      BY <1>2, <3>2, <3>3, <3>4 DEF At
  <2>2. CASE NoText(u) \/ TextFails(u) \/ SortNothing(u)
    BY <1>0, <1>2, <2>2 DEF NoText, TextFails, SortNothing, Answer, HasNextFile, At, Uploading
  <2>3. CASE EventsExtracted(u)
    BY <1>0, <1>2, <2>3 DEF EventsExtracted, At, Uploading
  <2>4. CASE Extend(u)
    BY <1>0, <1>2, <2>4 DEF Extend, At, Uploading
  <2>5. CASE SortBegins(u)
    BY <1>0, <1>2, <2>5 DEF SortBegins, At, Uploading
  <2>6. CASE SortEnds(u)
    BY <1>0, <1>2, <2>6 DEF SortEnds, Answer, Emptied, At, Uploading
  <2> QED
    BY <2>1, <2>2, <2>3, <2>4, <2>5, <2>6 DEF Handle
<1> QED
  BY <1>1, <1>3 DEF LocalsOK

LEMMA HandleList ==
  ASSUME BackendTypeOK, ListOK, TimelineSorted, NEW u \in Uploads, Handle(u)
  PROVE  ListOK' /\ TimelineSorted'
<1>0. upload[u] \in Uploading /\ upload \in [Uploads -> Uploading]
      /\ timeline \in Lists /\ saved \in [Uploads -> Lists]
  BY DEF BackendTypeOK
<1>1. \A v \in Uploads \ {u} : upload'[v] = upload[v] /\ saved'[v] = saved[v]
  BY HandleIsLocal
<1>2. CASE TextExtracted(u) \/ NoText(u) \/ TextFails(u) \/ EventsExtracted(u)
  <2>1. timeline' = timeline /\ saved' = saved /\ upload[u].at \notin {"extended", "sorting"}
    BY <1>2 DEF TextExtracted, NoText, TextFails, EventsExtracted, HasNextFile, At
  <2> QED
    BY <1>1, <2>1 DEF ListOK, TimelineSorted
<1>3. CASE Extend(u)
  <2>1. upload'[u].at = "extended"
    BY <1>0, <1>3 DEF Extend, Uploading
  <2> QED
    BY <1>0, <1>3, <2>1 DEF Extend, Extended, ListOK, TimelineSorted, Lists
<1>4. CASE SortNothing(u)
  BY <1>4 DEF SortNothing, ListOK, TimelineSorted
<1>5. CASE SortBegins(u)
  BY <1>0, <1>1, <1>5 DEF SortBegins, Emptied, ListOK, TimelineSorted
<1>6. CASE SortEnds(u)
  BY <1>0, <1>1, <1>6 DEF SortEnds, Emptied, ListOK, TimelineSorted, Lists
<1> QED
  BY <1>2, <1>3, <1>4, <1>5, <1>6 DEF Handle

LEMMA HandleEvents ==
  ASSUME BackendTypeOK, LocalsOK, EventsHaveDocuments, NEW u \in Uploads, Handle(u)
  PROVE  EventsHaveDocuments'
<1>1. SUFFICES ASSUME NEW d \in Stored' PROVE d \in Stored \cup documents
  BY HandleIsLocal DEF EventsHaveDocuments
<1>2. \A v \in Uploads \ {u} : saved'[v] = saved[v]
  BY HandleIsLocal
<1>3. timeline \in Lists /\ saved \in [Uploads -> Lists]
  BY DEF BackendTypeOK
<1>4. CASE UNCHANGED <<timeline, saved>>
  BY <1>4, InStored
<1>5. CASE Extend(u)
  BY <1>3, <1>5, InStored DEF Extend, Extended, LocalsOK, At
<1>6. CASE SortBegins(u)
  BY <1>2, <1>3, <1>6, InStored DEF SortBegins, Emptied
<1>7. CASE SortEnds(u)
  BY <1>2, <1>3, <1>7, InStored DEF SortEnds, Emptied, Lists
<1> QED
  BY <1>4, <1>5, <1>6, <1>7
     DEF Handle, TextExtracted, NoText, TextFails, EventsExtracted, SortNothing

-----------------------------------------------------------------------------
LEMMA AcceptOK ==
  ASSUME ServiceOK, NEW u \in Uploads, NEW n \in 0 .. MaxFiles, Accept(u, n)
  PROVE  ServiceOK'
<1>0. upload[u] \in Uploading /\ upload \in [Uploads -> Uploading]
  BY DEF ServiceOK, BackendTypeOK
<1>1. UNCHANGED <<documents, timeline, saved, restarted>>
      /\ upload'[u] = [upload[u] EXCEPT !.at = "text", !.files = n]
      /\ \A v \in Uploads \ {u} : upload'[v] = upload[v]
  BY <1>0 DEF Accept
<1>2. /\ upload'[u].at = "text" /\ upload[u].at = "unsent"
      /\ upload'[u].found = upload[u].found /\ upload'[u].reply = upload[u].reply
  BY <1>0, <1>1 DEF Accept, At, Uploading
<1>3. BackendTypeOK'
  BY AcceptType DEF ServiceOK
<1>4. LocalsOK'
  <2>1. upload[u].found = {} /\ upload[u].reply = "none" /\ saved[u].held = {}
    BY <1>2 DEF ServiceOK, LocalsOK, At
  <2>2. ASSUME NEW v \in Uploads \ {u} PROVE upload'[v] = upload[v] /\ saved'[v] = saved[v]
    BY <1>1
  <2>3. saved'[u].held = {} /\ documents' = documents
    BY <1>1, <2>1
  <2>4. /\ At(u, "unsent")' => upload'[u].found = {}
        /\ At(u, "events")' => <<u, upload'[u].done>> \in documents'
        /\ ~At(u, "answered")' => upload'[u].found \subseteq documents' /\ upload'[u].reply = "none"
        /\ At(u, "extended")' \/ At(u, "sorting")' => upload'[u].done = upload'[u].files
    BY <1>2, <2>1 DEF At
  <2>5. ASSUME NEW v \in Uploads \ {u}
        PROVE  /\ At(v, "unsent")' => upload'[v].found = {}
               /\ At(v, "events")' => <<v, upload'[v].done>> \in documents'
               /\ ~At(v, "answered")' => upload'[v].found \subseteq documents' /\ upload'[v].reply = "none"
               /\ At(v, "extended")' \/ At(v, "sorting")' => upload'[v].done = upload'[v].files
               /\ ~At(v, "sorting")' => saved'[v].held = {}
    BY <2>2, <2>3 DEF ServiceOK, LocalsOK, At
  <2> QED
    BY <2>3, <2>4, <2>5 DEF LocalsOK
<1>5. ListOK' /\ TimelineSorted'
  BY <1>1, <1>2 DEF ServiceOK, ListOK, TimelineSorted
<1>6. EventsHaveDocuments'
  BY <1>1 DEF ServiceOK, EventsHaveDocuments, Stored
<1> QED
  BY <1>3, <1>4, <1>5, <1>6 DEF ServiceOK

LEMMA RestartOK ==
  ASSUME ServiceOK, Restart
  PROVE  ServiceOK'
<1>0. upload \in [Uploads -> Uploading]
  BY DEF ServiceOK, BackendTypeOK
<1>1. BackendTypeOK'
  BY RestartType DEF ServiceOK
<1>2. ASSUME NEW u \in Uploads
      PROVE  /\ \/ At(u, "unsent") /\ upload'[u] = upload[u]
                \/ At(u, "answered")'
             /\ saved'[u] = Emptied
  BY <1>0 DEF Restart, At, Uploading
<1>3. LocalsOK'
  BY <1>2 DEF ServiceOK, LocalsOK, At, Emptied
<1>4. ListOK' /\ TimelineSorted'
  BY <1>2 DEF Restart, EmptyList, Emptied, ListOK, TimelineSorted
<1>5. EventsHaveDocuments'
  BY <1>2, InStored DEF Restart, EmptyList, Emptied, EventsHaveDocuments
<1> QED
  BY <1>1, <1>3, <1>4, <1>5 DEF ServiceOK

LEMMA ServiceStep == ServiceOK /\ [ServiceNext]_backendVars => ServiceOK'
<1> SUFFICES ASSUME ServiceOK, [ServiceNext]_backendVars PROVE ServiceOK'
  OBVIOUS
<1>1. ASSUME NEW u \in Uploads, Handle(u) PROVE ServiceOK'
  BY <1>1, HandleType, HandleLocals, HandleList, HandleEvents DEF ServiceOK
<1>2. CASE UNCHANGED backendVars
  BY <1>2 DEF backendVars, ServiceOK, BackendTypeOK, LocalsOK, At, ListOK, TimelineSorted,
              EventsHaveDocuments, Stored
<1> QED
  BY <1>1, <1>2, AcceptOK, RestartOK DEF ServiceNext
-----------------------------------------------------------------------------
LEMMA NextIsService == [Next]_vars => [ServiceNext]_backendVars
<1> SUFFICES ASSUME [Next]_vars PROVE [ServiceNext]_backendVars
  OBVIOUS
<1>1. ASSUME NEW t \in Tabs, NEW u \in Uploads, UploadFiles(t, u) PROVE ServiceNext
  <2>1. 1 .. MaxFiles \subseteq 0 .. MaxFiles
    BY UploadAssumption
  <2> QED
    BY <1>1, <2>1 DEF UploadFiles, ServiceNext
<1>2. ASSUME NEW t \in Tabs,
             Open(t) \/ Leave(t) \/ Reply(t)
             \/ SendMessage(t) \/ ReadTimeline(t) \/ ChatAnswered(t)
      PROVE  UNCHANGED backendVars
  BY <1>2 DEF Open, Leave, Reply, UploadSucceeded, UploadFailed,
              SendMessage, ReadTimeline, ChatAnswered
<1>3. CASE UNCHANGED vars
  BY <1>3 DEF vars
<1> QED
  BY <1>1, <1>2, <1>3 DEF Next, HandleUpload, RestartProcess, ServiceNext

LEMMA TypeInit == Init => TypeOK
<1> SUFFICES ASSUME Init PROVE TypeOK
  OBVIOUS
<1>1. Unmounted \in Pages /\ NoChat \in Chats /\ Nothing \in Shown
  BY UploadAssumption DEF Unmounted, Pages, NoChat, Chats, Nothing, Shown
<1> QED
  BY <1>1, ServiceInit DEF Init, TypeOK, ServiceOK

LEMMA ReplyType ==
  ASSUME TypeOK, NEW t \in Tabs, Reply(t)
  PROVE  page' \in [Tabs -> Pages]
<1>0. page[t] \in Pages
  BY DEF TypeOK, Pages
<1>1. ASSUME NEW u \in Uploads, UploadSucceeded(t, u) PROVE page' \in [Tabs -> Pages]
  <2>1. closure[u] \in Shown /\ upload[u].done \in 0 .. MaxFiles
        /\ upload[u].found \subseteq Documents
    BY TypesOf DEF TypeOK
  <2>2. DocsOf(u) \subseteq Documents
    BY <2>1, UploadAssumption DEF DocsOf, Documents
  <2> DEFINE shown == [docs |-> closure[u].docs \cup DocsOf(u),
                       events |-> closure[u].events \cup upload[u].found]
  <2>3. shown \in Shown
    BY <2>1, <2>2 DEF Shown
  <2> HIDE DEF shown
  <2>4. [page[t] EXCEPT !.shown = shown, !.loading = FALSE, !.waiting = @ \ {u}] \in Pages
    BY <1>0, <2>3 DEF Pages
  <2> QED
    BY <1>1, <2>4 DEF UploadSucceeded, TypeOK, shown
<1>2. ASSUME NEW u \in Uploads, UploadFailed(t, u) PROVE page' \in [Tabs -> Pages]
  <2>1. [page[t] EXCEPT !.loading = FALSE, !.waiting = @ \ {u}] \in Pages
    BY <1>0 DEF Pages
  <2> QED
    BY <1>2, <2>1 DEF UploadFailed, TypeOK
<1> QED
  BY <1>1, <1>2 DEF Reply

LEMMA PagesType ==
  ASSUME TypeOK, [Next]_vars
  PROVE  page' \in [Tabs -> Pages] /\ closure' \in [Uploads -> Shown]
<1>0. Unmounted \in Pages /\ page \in [Tabs -> Pages] /\ closure \in [Uploads -> Shown]
  BY UploadAssumption DEF TypeOK, Unmounted, Pages, Nothing, Shown
<1>1. ASSUME NEW t \in Tabs PROVE page[t] \in Pages /\ page[t].shown \in Shown
  BY <1>0 DEF Pages
<1>2. ASSUME NEW u \in Uploads, NEW t \in Tabs, UploadFiles(t, u)
      PROVE  page' \in [Tabs -> Pages] /\ closure' \in [Uploads -> Shown]
  <2>1. [page[t] EXCEPT !.loading = TRUE, !.waiting = @ \cup {u}] \in Pages
    BY <1>1 DEF Pages
  <2> QED
    BY <1>0, <1>1, <1>2, <2>1 DEF UploadFiles
<1>3. ASSUME NEW t \in Tabs, Open(t)
      PROVE  page' \in [Tabs -> Pages] /\ closure' \in [Uploads -> Shown]
  <2>1. [Unmounted EXCEPT !.open = TRUE] \in Pages
    BY <1>0 DEF Pages
  <2> QED
    BY <1>0, <1>3, <2>1 DEF Open
<1>4. ASSUME NEW t \in Tabs, Leave(t)
      PROVE  page' \in [Tabs -> Pages] /\ closure' \in [Uploads -> Shown]
  BY <1>0, <1>4 DEF Leave
<1>5. ASSUME NEW t \in Tabs, Reply(t)
      PROVE  page' \in [Tabs -> Pages] /\ closure' \in [Uploads -> Shown]
  BY <1>0, <1>5, ReplyType DEF Reply, UploadSucceeded, UploadFailed
<1>6. CASE UNCHANGED <<page, closure>>
  BY <1>0, <1>6
<1> QED
  BY <1>2, <1>3, <1>4, <1>5, <1>6
     DEF Next, HandleUpload, RestartProcess, SendMessage, ReadTimeline, ChatAnswered, vars

LEMMA ChatType ==
  ASSUME TypeOK, [Next]_vars
  PROVE  chat' \in [Tabs -> Chats]
<1>0. NoChat \in Chats /\ chat \in [Tabs -> Chats]
  BY DEF TypeOK, NoChat, Chats
<1>1. ASSUME NEW t \in Tabs, SendMessage(t) PROVE chat' \in [Tabs -> Chats]
  <2>1. [chat[t] EXCEPT !.at = "sent"] \in Chats
    BY <1>0 DEF Chats
  <2> QED
    BY <1>0, <1>1, <2>1 DEF SendMessage
<1>2. ASSUME NEW t \in Tabs, ReadTimeline(t) PROVE chat' \in [Tabs -> Chats]
  <2>1. Stored \subseteq Documents
    BY InStored DEF TypeOK, BackendTypeOK, Lists
  <2>2. PICK context \in Readings :
          chat' = [chat EXCEPT ![t] = [at |-> "thinking", context |-> context]]
    BY <1>2 DEF ReadTimeline
  <2>3. context \subseteq Documents
    BY <2>1, <2>2, InStored DEF Readings
  <2>4. [at |-> "thinking", context |-> context] \in Chats
    BY <2>3 DEF Chats
  <2> QED
    BY <1>0, <2>2, <2>4
<1>3. ASSUME NEW t \in Tabs, ChatAnswered(t) \/ Leave(t) PROVE chat' \in [Tabs -> Chats]
  BY <1>0, <1>3 DEF ChatAnswered, Leave
<1>4. CASE RestartProcess
  BY <1>0, <1>4 DEF RestartProcess
<1>5. CASE UNCHANGED chat
  BY <1>0, <1>5
<1> QED
  BY <1>1, <1>2, <1>3, <1>4, <1>5
     DEF Next, HandleUpload, UploadFiles, Open, Reply, UploadSucceeded,
         UploadFailed, vars

LEMMA TypeNext == TypeOK /\ ServiceOK /\ [Next]_vars => TypeOK' /\ ServiceOK'
<1> SUFFICES ASSUME TypeOK, ServiceOK, [Next]_vars PROVE TypeOK' /\ ServiceOK'
  OBVIOUS
<1>1. ServiceOK'
  BY NextIsService, ServiceStep
<1>2. BackendTypeOK'
  BY <1>1 DEF ServiceOK
<1> QED
  BY <1>1, <1>2, PagesType, ChatType DEF TypeOK

LEMMA ServiceAlways == Spec => [](TypeOK /\ ServiceOK)
<1>1. Init => TypeOK /\ ServiceOK
  BY TypeInit, ServiceInit DEF Init
<1> QED
  BY <1>1, TypeNext, PTL DEF Spec

(* Every variable keeps its type: what is found, put aside, shown or given *)
(* to the LLM are always documents of an upload.                           *)
THEOREM TypeCorrect == Spec => []TypeOK
BY ServiceAlways, PTL

(* The events of the timeline belong to listed documents, also while a     *)
(* sort has put them aside and after a restart.                            *)
THEOREM EventsAreListed == Spec => []EventsHaveDocuments
<1>1. ServiceOK => EventsHaveDocuments
  BY DEF ServiceOK
<1> QED
  BY <1>1, ServiceAlways, PTL

(* Whatever sorts overlap and fail, the last to end leaves order. *)
THEOREM TimelineIsSorted == Spec => []TimelineSorted
<1>1. ServiceOK => TimelineSorted
  BY DEF ServiceOK
<1> QED
  BY <1>1, ServiceAlways, PTL
-----------------------------------------------------------------------------
(***************************************************************************)
(* What is in the timeline stays there until a clash or a restart.         *)
(***************************************************************************)
LEMMA StoredKept ==
  ASSUME ServiceOK, [ServiceNext]_backendVars
  PROVE  \/ Stored \subseteq Stored'
         \/ restarted' # restarted
         \/ \E u \in Uploads : ~Clashed(u) /\ Clashed(u)'
<1>0. timeline \in Lists /\ saved \in [Uploads -> Lists] /\ upload \in [Uploads -> Uploading]
  BY DEF ServiceOK, BackendTypeOK
<1>1. CASE UNCHANGED <<timeline, saved>>
  BY <1>1 DEF Stored
<1>2. ASSUME NEW u \in Uploads, Extend(u) PROVE Stored \subseteq Stored'
  BY <1>0, <1>2, InStored DEF Extend, Extended
<1>3. ASSUME NEW u \in Uploads, SortBegins(u) PROVE Stored \subseteq Stored'
  <2>1. saved[u].held = {}
    BY <1>3 DEF SortBegins, ServiceOK, LocalsOK, At
  <2>2. saved'[u].held = timeline.held /\ \A v \in Uploads \ {u} : saved'[v] = saved[v]
    BY <1>0, <1>3 DEF SortBegins
  <2> QED
    BY <2>1, <2>2, InStored
<1>4. ASSUME NEW u \in Uploads, SortEnds(u), timeline.array
      PROVE  ~Clashed(u) /\ Clashed(u)'
  <2>1. upload[u].reply = "none" /\ upload[u].done = upload[u].files
    BY <1>4 DEF SortEnds, ServiceOK, LocalsOK, At
  <2>2. upload'[u] = [upload[u] EXCEPT !.at = "answered", !.reply = "failed"]
    BY <1>0, <1>4 DEF SortEnds, Answer
  <2> QED
    BY <1>0, <2>1, <2>2 DEF Clashed, Uploading
<1>5. ASSUME NEW u \in Uploads, SortEnds(u), ~timeline.array PROVE Stored \subseteq Stored'
  <2>1. timeline.held = {}
    BY <1>5 DEF ServiceOK, ListOK
  <2>2. timeline'.held = saved[u].held /\ \A v \in Uploads \ {u} : saved'[v] = saved[v]
    BY <1>0, <1>5 DEF SortEnds, Lists
  <2> QED
    BY <2>1, <2>2, InStored
<1>6. CASE Restart
  BY <1>6 DEF Restart
<1> QED
  BY <1>1, <1>2, <1>3, <1>4, <1>5, <1>6
     DEF ServiceNext, Handle, TextExtracted, NoText, TextFails, EventsExtracted, SortNothing,
         Accept, backendVars

(* Events are only ever lost in a restart, or by a sort that answers its   *)
(* upload with an error.                                                   *)
THEOREM LossesAreReported == Spec => LossIsReported
<1>1. TypeOK /\ ServiceOK /\ [Next]_vars =>
        [\/ Stored \subseteq Stored'
         \/ restarted' # restarted
         \/ \E u \in Uploads : ~Clashed(u) /\ Clashed(u)']_vars
  BY NextIsService, StoredKept
<1> QED
  BY <1>1, ServiceAlways, PTL DEF Spec, LossIsReported
-----------------------------------------------------------------------------
(***************************************************************************)
(* AllOrNothing for each list by itself, with what makes it inductive: an  *)
(* upload finds only events of its own documents, and no list has any of   *)
(* them before the upload extends the timeline.                            *)
(***************************************************************************)
Extending == {"unsent", "text", "events"}

AllOrNone(found, held) == found \subseteq held \/ found \cap held = {}

WholeOK ==
  \A u \in Uploads :
    /\ \A d \in upload[u].found : d[1] = u
    /\ upload[u].at \in Extending => \A d \in Stored : d[1] # u
    /\ AllOrNone(upload[u].found, timeline.held)
    /\ \A v \in Uploads : AllOrNone(upload[u].found, saved[v].held)

LEMMA WholeIsAllOrNothing == WholeOK => AllOrNothing
<1> SUFFICES ASSUME WholeOK, NEW u \in Uploads
             PROVE  upload[u].found \cap Stored \in {{}, upload[u].found}
  BY DEF AllOrNothing
<1>1. CASE upload[u].found \subseteq timeline.held
  BY <1>1, InStored
<1>2. CASE \E v \in Uploads : upload[u].found \subseteq saved[v].held
  BY <1>2, InStored
<1>3. CASE /\ upload[u].found \cap timeline.held = {}
           /\ \A v \in Uploads : upload[u].found \cap saved[v].held = {}
  BY <1>3, InStored
<1> QED
  BY <1>1, <1>2, <1>3 DEF WholeOK, AllOrNone

LEMMA WholeInit == BackendInit => WholeOK
BY InStored DEF BackendInit, WholeOK, AllOrNone, Unsent, EmptyList, Emptied

(* Steps that change no list: they find events or none. *)
LEMMA WholeFinds ==
  ASSUME BackendTypeOK, WholeOK, NEW u \in Uploads,
         UNCHANGED <<timeline, saved>>,
         \A v \in Uploads \ {u} : upload'[v] = upload[v],
         upload'[u].at \in Extending => upload[u].at \in Extending,
         \/ upload'[u].found = upload[u].found
         \/ /\ upload[u].at \in Extending
            /\ \A d \in upload'[u].found : d[1] = u
  PROVE  WholeOK'
<1>1. Stored' = Stored
  BY DEF Stored
<1>2. ASSUME NEW w \in Uploads
      PROVE  /\ \A d \in upload'[w].found : d[1] = w
             /\ upload'[w].at \in Extending => \A d \in Stored' : d[1] # w
             /\ AllOrNone(upload'[w].found, timeline.held)
             /\ \A v \in Uploads : AllOrNone(upload'[w].found, saved[v].held)
  <2>1. CASE upload'[w].found = upload[w].found
    BY <1>1, <2>1 DEF WholeOK
  <2>2. CASE w = u /\ upload'[u].found # upload[u].found
    <3>1. \A d \in Stored : d[1] # u
      BY <2>2 DEF WholeOK
    <3>2. \A d \in upload'[u].found : d[1] = u
      BY <2>2
    <3> QED
      BY <1>1, <2>2, <3>1, <3>2, InStored DEF AllOrNone
  <2> QED
    BY <2>1, <2>2
<1> QED
  BY <1>2 DEF WholeOK

LEMMA WholeExtend ==
  ASSUME BackendTypeOK, WholeOK, NEW u \in Uploads, Extend(u)
  PROVE  WholeOK'
<1>0. timeline \in Lists /\ upload \in [Uploads -> Uploading]
  BY DEF BackendTypeOK
<1>1. timeline'.held = timeline.held \cup upload[u].found /\ saved' = saved
  BY <1>0 DEF Extend, Extended
<1>2. /\ upload'[u].at = "extended" /\ upload'[u].found = upload[u].found
      /\ \A v \in Uploads \ {u} : upload'[v] = upload[v]
  BY <1>0 DEF Extend, Uploading
<1>3. \A d \in Stored' : d \in Stored \/ d[1] = u
  BY <1>1, InStored DEF WholeOK
<1>4. ASSUME NEW w \in Uploads
      PROVE  /\ upload'[w].found = upload[w].found
             /\ upload'[w].at \in Extending => w # u /\ upload[w].at \in Extending
             /\ AllOrNone(upload[w].found, timeline'.held)
  <2>1. CASE w = u
    BY <1>1, <1>2, <2>1 DEF AllOrNone, Extending
  <2>2. CASE w # u
    <3>1. upload[w].found \cap upload[u].found = {}
      BY <2>2 DEF WholeOK
    <3> QED
      BY <1>1, <1>2, <2>2, <3>1 DEF WholeOK, AllOrNone
  <2> QED
    BY <2>1, <2>2
<1> QED
  BY <1>1, <1>3, <1>4 DEF WholeOK

(* Sorting exchanges what lists hold with what is put aside. *)
LEMMA WholeSort ==
  ASSUME ServiceOK, WholeOK, NEW u \in Uploads, SortBegins(u) \/ SortEnds(u)
  PROVE  WholeOK'
<1>0. /\ timeline \in Lists /\ saved \in [Uploads -> Lists] /\ upload \in [Uploads -> Uploading]
  BY DEF ServiceOK, BackendTypeOK
<1>1. /\ timeline'.held \in {{}, saved[u].held}
      /\ saved'[u].held \in {{}, timeline.held}
      /\ \A v \in Uploads \ {u} : saved'[v] = saved[v]
  BY <1>0 DEF SortBegins, SortEnds, Emptied, Lists
<1>2. Stored' \subseteq Stored
  BY <1>1, InStored
<1>3. ASSUME NEW w \in Uploads
      PROVE  /\ upload'[w].found = upload[w].found
             /\ upload'[w].at \in Extending => upload[w].at \in Extending
  BY <1>0, SMTT(60) DEF SortBegins, SortEnds, Answer, Uploading, Extending
<1>4. ASSUME NEW w \in Uploads, NEW v \in Uploads
      PROVE  /\ AllOrNone(upload[w].found, timeline'.held)
             /\ AllOrNone(upload[w].found, saved'[v].held)
  BY <1>1 DEF WholeOK, AllOrNone
<1> QED
  BY <1>2, <1>3, <1>4 DEF WholeOK

LEMMA WholeStep == ServiceOK /\ WholeOK /\ [ServiceNext]_backendVars => WholeOK'
<1> SUFFICES ASSUME ServiceOK, WholeOK, [ServiceNext]_backendVars PROVE WholeOK'
  OBVIOUS
<1>0. BackendTypeOK /\ upload \in [Uploads -> Uploading]
  BY DEF ServiceOK, BackendTypeOK
<1>1. ASSUME NEW u \in Uploads,
             \/ TextExtracted(u) \/ NoText(u) \/ TextFails(u) \/ SortNothing(u)
             \/ \E n \in 0 .. MaxFiles : Accept(u, n)
      PROVE  WholeOK'
  <2>1. /\ upload'[u].found = upload[u].found
        /\ upload'[u].at \in Extending => upload[u].at \in Extending
        /\ \A v \in Uploads \ {u} : upload'[v] = upload[v]
        /\ UNCHANGED <<timeline, saved>>
    BY <1>0, <1>1 DEF TextExtracted, NoText, TextFails, SortNothing, Accept, HasNextFile, At,
                      Answer, Uploading, Extending
  <2> QED
    BY <1>0, <2>1, WholeFinds
<1>2. ASSUME NEW u \in Uploads, EventsExtracted(u) PROVE WholeOK'
  <2>1. PICK new \in {{}, {<<u, upload[u].done>>}} :
          upload' = [upload EXCEPT ![u].at = "text", ![u].found = @ \cup new]
    BY <1>2 DEF EventsExtracted
  <2>2. upload[u].at \in Extending /\ UNCHANGED <<timeline, saved>>
    BY <1>2 DEF EventsExtracted, At, Extending
  <2>3. upload'[u].found = upload[u].found \cup new
        /\ \A v \in Uploads \ {u} : upload'[v] = upload[v]
    BY <1>0, <2>1 DEF Uploading
  <2>4. \A d \in upload'[u].found : d[1] = u
    BY <2>1, <2>3 DEF WholeOK
  <2> QED
    BY <1>0, <2>2, <2>3, <2>4, WholeFinds
<1>3. ASSUME Restart PROVE WholeOK'
  <2>1. /\ \A u \in Uploads : upload'[u].found = upload[u].found
        /\ timeline'.held = {} /\ \A v \in Uploads : saved'[v].held = {}
    BY <1>0, <1>3 DEF Restart, EmptyList, Emptied, Uploading
  <2> QED
    BY <2>1, InStored DEF WholeOK, AllOrNone
<1>4. CASE UNCHANGED backendVars
  BY <1>4 DEF backendVars, WholeOK, AllOrNone, Stored
<1> QED
  BY <1>0, <1>1, <1>2, <1>3, <1>4, WholeExtend, WholeSort DEF ServiceNext, Handle

(* However uploads clash, no timeline has half of what an upload found. *)
THEOREM UploadsAreAtomic == Spec => []AllOrNothing
<1>1. Init => WholeOK
  BY WholeInit DEF Init
<1>2. TypeOK /\ ServiceOK /\ WholeOK /\ [Next]_vars => WholeOK'
  BY NextIsService, WholeStep
<1> QED
  BY <1>1, <1>2, WholeIsAllOrNothing, ServiceAlways, PTL DEF Spec
-----------------------------------------------------------------------------
(***************************************************************************)
(* The pages.  An upload that a page waits for is its only one, and its    *)
(* closure has what the page still shows.                                  *)
(***************************************************************************)
PagesOK ==
  \A t \in Tabs :
    /\ ~page[t].loading => page[t].waiting = {}
    /\ \A u, v \in page[t].waiting : u = v
    /\ \A u \in page[t].waiting : closure[u] = page[t].shown /\ ~At(u, "unsent")

(* What service and pages may hold of an upload: it is never sent again,   *)
(* and an answer is final.                                                 *)
LEMMA UploadsAdvance ==
  ASSUME BackendTypeOK, [ServiceNext]_backendVars, NEW u \in Uploads
  PROVE  /\ ~At(u, "unsent") => ~At(u, "unsent")'
         /\ At(u, "answered") => upload'[u] = upload[u]
<1>0. upload \in [Uploads -> Uploading] /\ upload[u] \in Uploading
  BY DEF BackendTypeOK
<1>1. ASSUME NEW v \in Uploads, Handle(v)
      PROVE  /\ ~At(u, "unsent") => ~At(u, "unsent")'
             /\ At(u, "answered") => upload'[u] = upload[u]
  BY <1>0, <1>1 DEF Handle, TextExtracted, NoText, TextFails, EventsExtracted, Extend,
                    SortNothing, SortBegins, SortEnds, HasNextFile, Answer, At, Uploading
<1>2. ASSUME NEW v \in Uploads, NEW n \in 0 .. MaxFiles, Accept(v, n)
      PROVE  /\ ~At(u, "unsent") => ~At(u, "unsent")'
             /\ At(u, "answered") => upload'[u] = upload[u]
  BY <1>0, <1>2 DEF Accept, At, Uploading
<1>3. CASE Restart
  BY <1>0, <1>3 DEF Restart, At, Uploading
<1>4. CASE UNCHANGED backendVars
  BY <1>4 DEF backendVars, At
<1> QED
  BY <1>1, <1>2, <1>3, <1>4 DEF ServiceNext

LEMMA PagesInit == Init => PagesOK
BY DEF Init, PagesOK, Unmounted

(* How one step changes the page of a tab. *)
LEMMA PageChanges ==
  ASSUME TypeOK, PagesOK, [Next]_vars, NEW t \in Tabs
  PROVE  \/ /\ page'[t].shown = page[t].shown
            /\ page'[t].loading = page[t].loading /\ page'[t].waiting = page[t].waiting
         \/ page'[t] \in {Unmounted, [Unmounted EXCEPT !.open = TRUE]}
            /\ (page[t].open => ~page'[t].open)
         \/ \E u \in Uploads :
              /\ UploadFiles(t, u)
              /\ ~page[t].loading
              /\ page'[t].shown = page[t].shown /\ page'[t].loading
              /\ page'[t].waiting = page[t].waiting \cup {u}
         \/ \E u \in page[t].waiting :
              /\ \/ page'[t].shown = page[t].shown
                 \/ UploadSucceeded(t, u)
                    /\ page'[t].shown = [docs |-> page[t].shown.docs \cup DocsOf(u),
                                         events |-> page[t].shown.events \cup upload[u].found]
              /\ ~page'[t].loading /\ page'[t].waiting = page[t].waiting \ {u}
<1>0. page \in [Tabs -> Pages] /\ page[t] \in Pages
  BY DEF TypeOK
<1>1. ASSUME NEW s \in Tabs, NEW u \in Uploads, UploadSucceeded(s, u) PROVE
        \/ page'[t] = page[t]
        \/ /\ s = t /\ u \in page[t].waiting
           /\ page'[t].shown = [docs |-> closure[u].docs \cup DocsOf(u),
                                events |-> closure[u].events \cup upload[u].found]
           /\ ~page'[t].loading /\ page'[t].waiting = page[t].waiting \ {u}
  BY <1>0, <1>1 DEF UploadSucceeded, Replied, Pages
<1>2. ASSUME NEW s \in Tabs, NEW u \in Uploads, UploadFailed(s, u) PROVE
        \/ page'[t] = page[t]
        \/ /\ u \in page[t].waiting /\ page'[t].shown = page[t].shown
           /\ ~page'[t].loading /\ page'[t].waiting = page[t].waiting \ {u}
  BY <1>0, <1>2 DEF UploadFailed, Replied, Pages
<1>3. ASSUME NEW s \in Tabs, NEW u \in Uploads, UploadFiles(s, u) PROVE
        \/ page'[t] = page[t]
        \/ /\ s = t /\ ~page[t].loading
           /\ page'[t].shown = page[t].shown /\ page'[t].loading
           /\ page'[t].waiting = page[t].waiting \cup {u}
  BY <1>0, <1>3 DEF UploadFiles, Usable, Pages
<1>4. ASSUME NEW s \in Tabs, Open(s) \/ Leave(s) PROVE
        \/ page'[t] = page[t]
        \/ page'[t] \in {Unmounted, [Unmounted EXCEPT !.open = TRUE]}
           /\ (page[t].open => ~page'[t].open)
  <2>1. CASE Open(s)
    BY <1>0, <2>1 DEF Open
  <2>2. CASE Leave(s)
    <3>1. Unmounted.open = FALSE
      BY DEF Unmounted
    <3> QED
      BY <1>0, <2>2, <3>1 DEF Leave
  <2> QED
    BY <1>4, <2>1, <2>2
<1>5. CASE UNCHANGED page
  BY <1>5
<1>6. \A u \in page[t].waiting : u \in Uploads /\ closure[u] = page[t].shown
  BY <1>0 DEF PagesOK, Pages
<1> QED
  BY <1>1, <1>2, <1>3, <1>4, <1>5, <1>6
     DEF Next, Reply, HandleUpload, RestartProcess, SendMessage, ReadTimeline, ChatAnswered, vars

LEMMA PagesStep == TypeOK /\ PagesOK /\ [Next]_vars => PagesOK'
<1> SUFFICES ASSUME TypeOK, PagesOK, [Next]_vars, NEW t \in Tabs
             PROVE  /\ ~page'[t].loading => page'[t].waiting = {}
                    /\ \A u, v \in page'[t].waiting : u = v
                    /\ \A u \in page'[t].waiting :
                         closure'[u] = page'[t].shown /\ ~At(u, "unsent")'
  BY DEF PagesOK
<1>0. page[t].waiting \subseteq Uploads /\ BackendTypeOK /\ closure \in [Uploads -> Shown]
      /\ upload \in [Uploads -> Uploading]
  BY DEF TypeOK, Pages, BackendTypeOK
<1>1. \A u \in page[t].waiting : closure'[u] = closure[u] /\ ~At(u, "unsent")'
  <2>1. ASSUME NEW u \in page[t].waiting PROVE ~At(u, "unsent") /\ ~At(u, "unsent")'
    BY <1>0, NextIsService, UploadsAdvance DEF PagesOK
  <2>2. ASSUME NEW u \in page[t].waiting, NEW s \in Tabs, NEW v \in Uploads, UploadFiles(s, v)
        PROVE  closure'[u] = closure[u]
    BY <1>0, <2>1, <2>2 DEF UploadFiles, Accept
  <2>3. (\E s \in Tabs, v \in Uploads : UploadFiles(s, v)) \/ closure' = closure
    BY DEF Next, HandleUpload, Open, Leave, Reply, UploadSucceeded, UploadFailed,
           SendMessage, ReadTimeline, ChatAnswered, RestartProcess, vars
  <2> QED
    BY <2>1, <2>2, <2>3
<1>2. CASE page'[t].shown = page[t].shown
           /\ page'[t].loading = page[t].loading /\ page'[t].waiting = page[t].waiting
  BY <1>1, <1>2 DEF PagesOK
<1>3. CASE page'[t] \in {Unmounted, [Unmounted EXCEPT !.open = TRUE]}
  BY <1>3 DEF Unmounted
<1>4. ASSUME NEW u \in Uploads, UploadFiles(t, u), ~page[t].loading,
             page'[t].shown = page[t].shown, page'[t].loading,
             page'[t].waiting = page[t].waiting \cup {u}
      PROVE  /\ ~page'[t].loading => page'[t].waiting = {}
             /\ \A v, w \in page'[t].waiting : v = w
             /\ \A v \in page'[t].waiting :
                  closure'[v] = page'[t].shown /\ ~At(v, "unsent")'
  <2>1. page'[t].waiting = {u}
    BY <1>4 DEF PagesOK
  <2>2. closure'[u] = page[t].shown
    BY <1>0, <1>4 DEF UploadFiles
  <2>3. ~At(u, "unsent")'
    BY <1>0, <1>4 DEF UploadFiles, Accept, At, Uploading
  <2> QED
    BY <1>4, <2>1, <2>2, <2>3
<1>5. CASE \E u \in page[t].waiting :
             ~page'[t].loading /\ page'[t].waiting = page[t].waiting \ {u}
  BY <1>5 DEF PagesOK
<1> QED
  BY <1>2, <1>3, <1>4, <1>5, PageChanges

(* A reply that replaces what a page shows never takes anything away.      *)
THEOREM ShownOnlyGrows == Spec => ShownGrows
<1>1. ASSUME TypeOK, PagesOK, [Next]_vars, NEW t \in Tabs, page[t].open, page'[t].open
      PROVE  /\ page[t].shown.docs \subseteq page'[t].shown.docs
             /\ page[t].shown.events \subseteq page'[t].shown.events
  <2>1. ASSUME NEW u, page'[t].shown = [docs |-> page[t].shown.docs \cup DocsOf(u),
                                        events |-> page[t].shown.events \cup upload[u].found]
        PROVE  /\ page[t].shown.docs \subseteq page'[t].shown.docs
               /\ page[t].shown.events \subseteq page'[t].shown.events
    BY <2>1
  <2>2. page'[t].shown = page[t].shown
        \/ \E u : page'[t].shown = [docs |-> page[t].shown.docs \cup DocsOf(u),
                                    events |-> page[t].shown.events \cup upload[u].found]
    BY <1>1, PageChanges
  <2> QED
    BY <2>1, <2>2
<1>2. TypeOK /\ PagesOK /\ [Next]_vars =>
        [\A t \in Tabs : page[t].open /\ page'[t].open =>
           /\ page[t].shown.docs \subseteq page'[t].shown.docs
           /\ page[t].shown.events \subseteq page'[t].shown.events]_vars
  BY <1>1
<1> QED
  BY <1>2, PagesInit, PagesStep, ServiceAlways, PTL DEF Spec, ShownGrows
-----------------------------------------------------------------------------
(***************************************************************************)
(* As long as no sort has failed and the process lives, whatever a page    *)
(* may show is stored, from the extend of its upload on.                   *)
(***************************************************************************)
NoLoss == ~restarted /\ \A u \in Uploads : ~Clashed(u)

KeptOK ==
  NoLoss =>
    /\ \A u \in Uploads : closure[u].events \subseteq Stored
    /\ \A u \in Uploads :
         At(u, "extended") \/ At(u, "sorting") \/ upload[u].reply = "ok" =>
           upload[u].found \subseteq Stored
    /\ \A t \in Tabs : page[t].shown.events \subseteq Stored

LEMMA NoLossBefore ==
  ASSUME ServiceOK, [ServiceNext]_backendVars, NoLoss'
  PROVE  NoLoss /\ Stored \subseteq Stored'
<1>1. ~restarted /\ restarted' = restarted
  <2>1. ~restarted' /\ BackendTypeOK
    BY DEF NoLoss, ServiceOK
  <2>2. ASSUME NEW u \in Uploads, Handle(u) PROVE restarted' = restarted
    BY <2>1, <2>2, HandleIsLocal
  <2>3. (\E u \in Uploads : \E n \in 0 .. MaxFiles : Accept(u, n)) => restarted' = restarted
    BY DEF Accept
  <2>4. ~Restart
    BY <2>1 DEF Restart
  <2>5. restarted' = restarted
    BY <2>2, <2>3, <2>4 DEF ServiceNext, backendVars
  <2> QED
    BY <2>1, <2>5
<1>2. ASSUME NEW u \in Uploads, Clashed(u) PROVE FALSE
  <2>1. upload'[u] = upload[u]
    BY <1>2, UploadsAdvance DEF ServiceOK, LocalsOK, Clashed
  <2> QED
    BY <1>2, <2>1 DEF NoLoss, Clashed
<1>3. \A u \in Uploads : ~Clashed(u)'
  BY DEF NoLoss
<1> QED
  BY <1>1, <1>2, <1>3, StoredKept DEF NoLoss

(* Where the events of an upload that is done are. *)
LEMMA FoundStored ==
  ASSUME ServiceOK, [ServiceNext]_backendVars, NoLoss', KeptOK, NEW u \in Uploads,
         \/ At(u, "extended")' \/ At(u, "sorting")' \/ upload'[u].reply = "ok"
  PROVE  upload'[u].found \subseteq Stored'
<1>0. /\ upload \in [Uploads -> Uploading] /\ upload[u] \in Uploading /\ timeline \in Lists
      /\ NoLoss /\ Stored \subseteq Stored'
      /\ BackendTypeOK
  BY NoLossBefore DEF ServiceOK, BackendTypeOK
<1>1. CASE Extend(u)
  <2>1. upload'[u].found = upload[u].found /\ upload[u].found \subseteq timeline'.held
    BY <1>0, <1>1 DEF Extend, Extended, Uploading
  <2> QED
    BY <2>1, InStored
<1>2. CASE \/ SortNothing(u) \/ SortBegins(u) \/ SortEnds(u)
  <2>1. upload'[u].found = upload[u].found /\ (At(u, "extended") \/ At(u, "sorting"))
    BY <1>0, <1>2 DEF SortNothing, SortBegins, SortEnds, Answer, Uploading
  <2> QED
    BY <1>0, <2>1 DEF KeptOK
<1>3. CASE upload'[u] = upload[u]
  BY <1>0, <1>3 DEF KeptOK, At
<1>4. ASSUME \/ TextExtracted(u) \/ NoText(u) \/ TextFails(u) \/ EventsExtracted(u)
             \/ \E n \in 0 .. MaxFiles : Accept(u, n)
      PROVE  FALSE
  <2>1. upload[u].reply = "none"
    BY <1>4 DEF TextExtracted, NoText, TextFails, EventsExtracted, Accept, HasNextFile,
                At, ServiceOK, LocalsOK
  <2>2. CASE TextExtracted(u) \/ EventsExtracted(u) \/ \E n \in 0 .. MaxFiles : Accept(u, n)
    <3>1. upload'[u].at \in {"text", "events"} /\ upload'[u].reply = "none"
      BY <1>0, <2>1, <2>2 DEF TextExtracted, EventsExtracted, Accept, Uploading
    <3> QED
      BY <3>1 DEF At
  <2>3. CASE NoText(u) \/ TextFails(u)
    <3>1. upload'[u].at = "answered" /\ upload'[u].reply \in {"refused", "failed"}
      BY <1>0, <2>3 DEF NoText, TextFails, Answer, Uploading
    <3> QED
      BY <3>1 DEF At
  <2> QED
    BY <1>4, <2>2, <2>3
<1>5. ~Restart
  BY DEF Restart, NoLoss
<1>6. ASSUME NEW v \in Uploads \ {u}, Handle(v) \/ \E n \in 0 .. MaxFiles : Accept(v, n)
      PROVE  upload'[u] = upload[u]
  BY <1>0, <1>6, HandleIsLocal DEF Accept
<1>7. Handle(u) => \/ Extend(u) \/ SortNothing(u) \/ SortBegins(u) \/ SortEnds(u)
                   \/ TextExtracted(u) \/ NoText(u) \/ TextFails(u) \/ EventsExtracted(u)
  BY DEF Handle
<1> QED
  BY <1>1, <1>2, <1>3, <1>4, <1>5, <1>6, <1>7 DEF ServiceNext, backendVars

LEMMA KeptStep ==
  TypeOK /\ ServiceOK /\ PagesOK /\ KeptOK /\ [Next]_vars => KeptOK'
<1> SUFFICES ASSUME TypeOK, ServiceOK, PagesOK, KeptOK, [Next]_vars, NoLoss'
             PROVE  /\ \A u \in Uploads : closure'[u].events \subseteq Stored'
                    /\ \A u \in Uploads :
                         At(u, "extended")' \/ At(u, "sorting")' \/ upload'[u].reply = "ok" =>
                           upload'[u].found \subseteq Stored'
                    /\ \A t \in Tabs : page'[t].shown.events \subseteq Stored'
  BY DEF KeptOK
<1>1. [ServiceNext]_backendVars /\ NoLoss /\ Stored \subseteq Stored'
  BY NextIsService, NoLossBefore
<1>2. closure \in [Uploads -> Shown]
  BY DEF TypeOK
<1>3. ASSUME NEW u \in Uploads PROVE closure'[u].events \subseteq Stored'
  <2>1. ASSUME NEW s \in Tabs, NEW v \in Uploads, UploadFiles(s, v)
        PROVE  closure'[u] \in {closure[u], page[s].shown}
    BY <1>2, <2>1 DEF UploadFiles
  <2>2. (\E s \in Tabs, v \in Uploads : UploadFiles(s, v)) \/ closure' = closure
    BY DEF Next, HandleUpload, Open, Leave, Reply, UploadSucceeded, UploadFailed,
           SendMessage, ReadTimeline, ChatAnswered, RestartProcess, vars
  <2> QED
    BY <1>1, <2>1, <2>2 DEF KeptOK
<1>4. ASSUME NEW t \in Tabs PROVE page'[t].shown.events \subseteq Stored'
  <2>1. ASSUME NEW u \in page[t].waiting, UploadSucceeded(t, u),
               page'[t].shown = [docs |-> page[t].shown.docs \cup DocsOf(u),
                                 events |-> page[t].shown.events \cup upload[u].found]
        PROVE  page'[t].shown.events \subseteq Stored
    <3>1. u \in Uploads /\ upload[u].reply = "ok"
      BY <2>1 DEF UploadSucceeded, Replied, TypeOK, Pages
    <3> QED
      BY <1>1, <2>1, <3>1 DEF KeptOK
  <2>2. CASE page'[t].shown = page[t].shown
    BY <1>1, <2>2 DEF KeptOK
  <2>3. CASE page'[t] \in {Unmounted, [Unmounted EXCEPT !.open = TRUE]}
    <3>1. page'[t].shown.events = {}
      BY <2>3 DEF Unmounted, Nothing
    <3> QED
      BY <3>1
  <2> QED
    BY <1>1, <2>1, <2>2, <2>3, PageChanges
<1> QED
  BY <1>1, <1>3, <1>4, FoundStored

LEMMA KeptAlways == Spec => [](ServiceOK /\ KeptOK)
<1>1. Init => KeptOK
  BY DEF Init, BackendInit, KeptOK, Unsent, Unmounted, Nothing, At
<1> QED
  BY <1>1, PagesInit, PagesStep, KeptStep, ServiceAlways, PTL DEF Spec

(* While no sort has failed and the process lives, the events a page shows *)
(* are in the server's timeline, or put aside by a sort that returns them. *)
THEOREM ShownStaysStored == Spec => []ShownIsStored
<1>1. KeptOK => ShownIsStored
  BY DEF KeptOK, NoLoss, ShownIsStored
<1> QED
  BY <1>1, KeptAlways, PTL

(* A question about a page's events is asked with these events, unless an  *)
(* upload extends or sorts the timeline meanwhile, a sort has failed, or   *)
(* the process was restarted.                                              *)
THEOREM ChatIsInformed == Spec => ChatSeesShown
<1>1. ASSUME TypeOK, ServiceOK, KeptOK, [Next]_vars, NEW t \in Tabs,
             chat[t].at = "sent", chat'[t].at = "thinking",
             NoLoss, \A u \in Uploads : ~At(u, "extended") /\ ~At(u, "sorting")
      PROVE  page[t].shown.events \subseteq chat'[t].context
  <2>0. chat \in [Tabs -> Chats]
    BY <1>1 DEF TypeOK
  <2>1. Stored = timeline.held
    BY <1>1, InStored DEF ServiceOK, LocalsOK
  <2>2. ASSUME NEW s \in Tabs, SendMessage(s) \/ ChatAnswered(s) \/ Leave(s) PROVE FALSE
    BY <1>1, <2>0, <2>2 DEF SendMessage, ChatAnswered, Leave, NoChat, Chats
  <2>3. ASSUME NEW s \in Tabs, s # t, ReadTimeline(s) PROVE FALSE
    BY <1>1, <2>0, <2>3 DEF ReadTimeline
  <2>4. ~RestartProcess
    BY <1>1 DEF RestartProcess, NoChat
  <2>5. chat' # chat
    BY <1>1
  <2>6. ReadTimeline(t)
    BY <1>1, <2>2, <2>3, <2>4, <2>5
       DEF Next, HandleUpload, UploadFiles, Open, Reply, UploadSucceeded,
           UploadFailed, vars
  <2>7. chat'[t].context = timeline.held
    BY <1>1, <2>0, <2>6 DEF ReadTimeline, Readings
  <2> QED
    BY <1>1, <2>1, <2>7 DEF KeptOK
<1>2. TypeOK /\ ServiceOK /\ KeptOK /\ [Next]_vars =>
        [\A t \in Tabs : chat[t].at = "sent" /\ chat'[t].at = "thinking" =>
          \/ page[t].shown.events \subseteq chat'[t].context
          \/ restarted
          \/ \E u \in Uploads : At(u, "extended") \/ At(u, "sorting") \/ Clashed(u)]_vars
  BY <1>1 DEF NoLoss
<1> QED
  BY <1>2, KeptAlways, ServiceAlways, PTL DEF Spec, ChatSeesShown
=============================================================================
