----------------------------- MODULE CasePage ------------------------------
(***************************************************************************)
(* The case page of the front end (frontend-service/src: App.js, Case.js,  *)
(* DocumentUpload.js, Chat.js) in several browser tabs, on top of the      *)
(* Flask service, and the chat handler of that service.  A page keeps what *)
(* it shows in React state of its own: it is filled by the replies to the  *)
(* page's own uploads, never read from the server, and forgotten when the  *)
(* page is left.  The server does not know cases.                          *)
(*                                                                         *)
(* A request that was answered reaches the page some time later; the page  *)
(* it was sent from may be gone by then.  No request has a timeout.        *)
(***************************************************************************)
EXTENDS Backend

CONSTANTS
  Tabs  (* browser tabs *)

VARIABLES
  page,    (* the mounted Case component of a tab                          *)
  closure, (* what handleDocumentsProcessed saw when the upload was sent   *)
  chat     (* the chat request of a tab                                    *)

vars == <<backendVars, page, closure, chat>>

Shown == [docs: SUBSET Documents, events: SUBSET Documents]

Nothing == [docs |-> {}, events |-> {}]

Pages == [open: BOOLEAN,            (* the route is /case                  *)
          shown: Shown,             (* documents, timelineEvents           *)
          loading: BOOLEAN,         (* isLoading: the modal is open        *)
          waiting: SUBSET Uploads]  (* its uploads that have no reply yet  *)

Unmounted ==
  [open |-> FALSE, shown |-> Nothing, loading |-> FALSE, waiting |-> {}]

Chats == [at: {"idle", "sent", "thinking"}, context: SUBSET Documents]

NoChat == [at |-> "idle", context |-> {}]

TypeOK ==
  /\ BackendTypeOK
  /\ page \in [Tabs -> Pages]
  /\ closure \in [Uploads -> Shown]
  /\ chat \in [Tabs -> Chats]

Init ==
  /\ BackendInit
  /\ page = [t \in Tabs |-> Unmounted]
  /\ closure = [u \in Uploads |-> Nothing]
  /\ chat = [t \in Tabs |-> NoChat]

(* Everything in the timeline, or put aside by a sort that will put it     *)
(* back.                                                                   *)
Stored == timeline.held \cup UNION {saved[u].held : u \in Uploads}

-----------------------------------------------------------------------------
(* Nothing behind the modal can be clicked. *)
Usable(t) == page[t].open /\ ~page[t].loading

(* A case is selected: Case is mounted with empty state. *)
Open(t) ==
  /\ ~page[t].open
  /\ page' = [page EXCEPT ![t] = [Unmounted EXCEPT !.open = TRUE]]
  /\ UNCHANGED <<backendVars, closure, chat>>

(* Back to the cases, by the button or the browser's, or a reload; the     *)
(* server goes on with the requests that were sent.                        *)
Leave(t) ==
  /\ page[t].open
  /\ page' = [page EXCEPT ![t] = Unmounted]
  /\ chat' = [chat EXCEPT ![t] = NoChat]
  /\ UNCHANGED <<backendVars, closure>>

(* Fault: the modal lets a second upload through. *)
UploadAnyway(t, u) ==
  /\ page[t].open
  /\ \E n \in 1 .. MaxFiles : Accept(u, n)
  /\ page' = [page EXCEPT ![t].loading = TRUE, ![t].waiting = @ \cup {u}]
  /\ closure' = [closure EXCEPT ![u] = page[t].shown]
  /\ UNCHANGED chat

(* uploadFiles, of one or more selected files: the reply will be handled   *)
(* by the handleDocumentsProcessed of this rendering, which has the        *)
(* present documents and timelineEvents.                                   *)
UploadFiles(t, u) ==
  /\ Usable(t)
  /\ \E n \in 1 .. MaxFiles : Accept(u, n)
  /\ page' = [page EXCEPT ![t].loading = TRUE, ![t].waiting = @ \cup {u}]
  /\ closure' = [closure EXCEPT ![u] = page[t].shown]
  /\ UNCHANGED chat

Replied(t, u, replies) == u \in page[t].waiting /\ upload[u].reply \in replies

(* The reply is a success: the page shows it behind what the closure has.  *)
UploadSucceeded(t, u) ==
  /\ Replied(t, u, {"ok"})
  /\ page' = [page EXCEPT
       ![t].shown = [docs |-> closure[u].docs \cup DocsOf(u),
                     events |-> closure[u].events \cup upload[u].found],
       ![t].loading = FALSE,
       ![t].waiting = @ \ {u}]
  /\ UNCHANGED <<backendVars, closure, chat>>

(* Fault: the modal stays. *)
UploadFailedSilently(t, u) ==
  /\ Replied(t, u, {"refused", "failed", "lost"})
  /\ page' = [page EXCEPT ![t].waiting = @ \ {u}]
  /\ UNCHANGED <<backendVars, closure, chat>>

(* The reply is an error, or the connection broke. *)
UploadFailed(t, u) ==
  /\ Replied(t, u, {"refused", "failed", "lost"})
  /\ page' = [page EXCEPT ![t].loading = FALSE, ![t].waiting = @ \ {u}]
  /\ UNCHANGED <<backendVars, closure, chat>>
-----------------------------------------------------------------------------
(* handleSendMessage, once at a time and only if the timeline is not empty. *)
SendMessage(t) ==
  /\ Usable(t) /\ page[t].shown.events # {}
  /\ chat[t].at = "idle"
  /\ chat' = [chat EXCEPT ![t].at = "sent"]
  /\ UNCHANGED <<backendVars, page, closure>>

(***************************************************************************)
(* What process_chat can read.  It goes through timeline_events by index,  *)
(* with Python code in between: if a sort begins or ends meanwhile, it     *)
(* misses some of the events.  Every such reading includes a moment at     *)
(* which that upload is between its extend and the end of its sort, and    *)
(* this is where the model lets it happen.                                 *)
(***************************************************************************)
Readings ==
  IF \E u \in Uploads : At(u, "extended") \/ At(u, "sorting")
  THEN SUBSET Stored
  ELSE {timeline.held}

(* Fault: of the timeline one document is left out. *)
ReadTimelineInPart(t) ==
  /\ chat[t].at = "sent"
  /\ \E d \in Documents :
       chat' = [chat EXCEPT ![t] = [at |-> "thinking", context |-> timeline.held \ {d}]]
  /\ UNCHANGED <<backendVars, page, closure>>

(* process_chat makes its prompt of the timeline. *)
ReadTimeline(t) ==
  /\ chat[t].at = "sent"
  /\ \E context \in Readings :
       chat' = [chat EXCEPT ![t] = [at |-> "thinking", context |-> context]]
  /\ UNCHANGED <<backendVars, page, closure>>

(* The LLM has answered or not, and the page shows a message or an error. *)
ChatAnswered(t) ==
  /\ chat[t].at = "thinking"
  /\ chat' = [chat EXCEPT ![t] = NoChat]
  /\ UNCHANGED <<backendVars, page, closure>>

(* A restart of the Flask process also breaks the chat requests. *)
RestartProcess ==
  /\ Restart
  /\ chat' = [t \in Tabs |-> NoChat]
  /\ UNCHANGED <<page, closure>>

HandleUpload(u) == Handle(u) /\ UNCHANGED <<page, closure, chat>>

Reply(t) == \E u \in Uploads : UploadSucceeded(t, u) \/ UploadFailed(t, u)

Next ==
  \/ \E u \in Uploads : HandleUpload(u) \/ \E t \in Tabs : UploadFiles(t, u)
  \/ \E t \in Tabs : \/ Open(t) \/ Leave(t) \/ Reply(t)
                    \/ SendMessage(t) \/ ReadTimeline(t) \/ ChatAnswered(t)
  \/ RestartProcess

Spec == Init /\ [][Next]_vars

(* The server's threads are scheduled, Nougat and the LLM answer or fail,  *)
(* and replies arrive; users need not do anything.                         *)
FairSpec ==
  /\ Spec
  /\ \A u \in Uploads : WF_vars(HandleUpload(u))
  /\ \A t \in Tabs : WF_vars(Reply(t))
-----------------------------------------------------------------------------
(***************************************************************************)
(* Properties.                                                             *)
(***************************************************************************)

(* Every event of the timeline belongs to a listed document, so that       *)
(* get_document finds the document an event names, also while lists are    *)
(* put aside and after a restart.                                          *)
EventsHaveDocuments == Stored \subseteq documents

(* When no upload is between its extend and the end of its sort, the       *)
(* timeline is in order, whichever of several sorts ended last or failed:  *)
(* get_timeline_events and the chat read it without sorting.               *)
TimelineSorted ==
  (\A u \in Uploads : upload[u].at \notin {"extended", "sorting"}) => timeline.sorted

(* Even when uploads clash, the events of one upload are all stored or     *)
(* none: no timeline shows half of what an upload found.                   *)
AllOrNothing ==
  \A u \in Uploads : upload[u].found \cap Stored \in {{}, upload[u].found}

Clashed(u) == upload[u].reply = "failed" /\ upload[u].done = upload[u].files

(* As long as no sort has failed and the process lives, the events a page  *)
(* shows are in the server's timeline.                                     *)
ShownIsStored ==
  ~restarted /\ (\A u \in Uploads : ~Clashed(u)) =>
    \A t \in Tabs : page[t].shown.events \subseteq Stored

(* Events are only ever lost in a restart or in a step that answers an     *)
(* upload with an error: a lost update never goes unnoticed by all.        *)
LossIsReported ==
  [][\/ Stored \subseteq Stored'
     \/ restarted' # restarted
     \/ \E u \in Uploads : ~Clashed(u) /\ Clashed(u)']_vars

(* What an open page shows does not shrink, although each reply replaces   *)
(* it by what was shown when the upload was sent and the reply.            *)
ShownGrows ==
  [][\A t \in Tabs : page[t].open /\ page'[t].open =>
       /\ page[t].shown.docs \subseteq page'[t].shown.docs
       /\ page[t].shown.events \subseteq page'[t].shown.events]_vars

(* A question about a page's events is asked with these events, unless an  *)
(* upload extends or sorts the timeline meanwhile, a sort has failed, or   *)
(* the process was restarted.                                              *)
ChatSeesShown ==
  [][\A t \in Tabs : chat[t].at = "sent" /\ chat'[t].at = "thinking" =>
       \/ page[t].shown.events \subseteq chat'[t].context
       \/ restarted
       \/ \E u \in Uploads : At(u, "extended") \/ At(u, "sorting") \/ Clashed(u)]_vars

(* The modal of a page closes: every upload is answered, if only with an   *)
(* error, whatever other uploads do to the lists.                          *)
LoadingEnds == \A t \in Tabs : page[t].loading ~> ~page[t].loading

(* The events of an upload that was answered with success are stored. *)
AcknowledgedKept ==
  ~restarted => \A u \in Uploads : upload[u].reply = "ok" => upload[u].found \subseteq Stored
=============================================================================
