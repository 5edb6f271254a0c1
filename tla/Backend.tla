------------------------------ MODULE Backend ------------------------------
(***************************************************************************)
(* The Flask service (backend-service): its upload handler and the two     *)
(* lists all its handlers share, data.documents and data.timeline_events.  *)
(* app.run serves every request in a thread of its own and the lists have  *)
(* no lock; only the interpreter's lock makes a single list operation      *)
(* atomic.  list.sort is not a single operation: its key function is       *)
(* Python code, between whose calls other threads run, and while it runs   *)
(* the list is empty.                                                      *)
(*                                                                         *)
(* Abstracted: the events extracted from one document are added, sorted    *)
(* and dropped together, so they are named by their document, and of the   *)
(* order of the timeline only whether it is sorted by date.  Whether the   *)
(* parser and the LLM answer with something usable is a choice.  Files are *)
(* taken to have an allowed extension, which the page checks before it     *)
(* sends them.                                                             *)
(***************************************************************************)
EXTENDS Naturals, FiniteSets

CONSTANTS
  Uploads,    (* requests to POST /api/documents/upload                    *)
  MaxFiles,   (* files in the largest of them                              *)
  MayRestart  (* the process may be restarted, as the debug reloader does  *)

ASSUME UploadAssumption == MaxFiles \in Nat \ {0} /\ MayRestart \in BOOLEAN

VARIABLES
  documents, (* data.documents                                             *)
  timeline,  (* data.timeline_events                                       *)
  saved,     (* what list.sort of an upload keeps aside while it runs      *)
  upload,    (* the local variables of upload_documents                    *)
  restarted  (* the process has been restarted                             *)

backendVars == <<documents, timeline, saved, upload, restarted>>

(* A document is known by its upload and its place in it. *)
Documents == Uploads \X (1 .. MaxFiles)

DocsOf(u) == {<<u, i>> : i \in 1 .. upload[u].done}

(***************************************************************************)
(* A Python list as list.sort sees it: the documents whose events it       *)
(* holds, whether they are in order, and whether it owns an item array     *)
(* (allocated # -1).  list.sort takes the array away; extending the list   *)
(* gives it a new one, which is how list.sort notices.                     *)
(***************************************************************************)
Lists == [held: SUBSET Documents, sorted: BOOLEAN, array: BOOLEAN]

EmptyList == [held |-> {}, sorted |-> TRUE, array |-> TRUE]

Extended(list, new) ==
  IF new = {} THEN list
  ELSE [held |-> list.held \cup new, sorted |-> FALSE, array |-> TRUE]

(* The list while it is being sorted, and saved[u] while u does not sort. *)
Emptied == [held |-> {}, sorted |-> TRUE, array |-> FALSE]

Uploading == [at: {"unsent", "text", "events", "extended", "sorting", "answered"},
              files: 0 .. MaxFiles,    (* files in the request             *)
              done: 0 .. MaxFiles,     (* of them in data.documents        *)
              found: SUBSET Documents, (* new_events                       *)
              reply: {"none", "ok", "refused", "failed", "lost"}]

Unsent == [at |-> "unsent", files |-> 0, done |-> 0, found |-> {}, reply |-> "none"]

BackendTypeOK ==
  /\ documents \subseteq Documents
  /\ timeline \in Lists
  /\ saved \in [Uploads -> Lists]
  /\ upload \in [Uploads -> Uploading]
  /\ restarted \in BOOLEAN

BackendInit ==
  /\ documents = {}
  /\ timeline = EmptyList
  /\ saved = [u \in Uploads |-> Emptied]
  /\ upload = [u \in Uploads |-> Unsent]
  /\ restarted = FALSE
-----------------------------------------------------------------------------
(***************************************************************************)
(* upload_documents.                                                       *)
(***************************************************************************)
At(u, step) == upload[u].at = step

Answer(u, reply) == upload' = [upload EXCEPT ![u].at = "answered", ![u].reply = reply]

(* Fault: the loop over the files runs once too often. *)
HasFileLeft(u) == At(u, "text") /\ upload[u].done <= upload[u].files

(* A request with n files arrives. *)
Accept(u, n) ==
  /\ At(u, "unsent")
  /\ upload' = [upload EXCEPT ![u].at = "text", ![u].files = n]
  /\ UNCHANGED <<documents, timeline, saved, restarted>>

HasNextFile(u) == At(u, "text") /\ upload[u].done < upload[u].files

(* The next file is saved and its text extracted, by Nougat or pymupdf;    *)
(* the document is listed at once.                                         *)
TextExtracted(u) ==
  /\ HasNextFile(u)
  /\ documents' = documents \cup {<<u, upload[u].done + 1>>}
  /\ upload' = [upload EXCEPT ![u].at = "events", ![u].done = @ + 1]
  /\ UNCHANGED <<timeline, saved, restarted>>

(* The file has no text: the request ends, what is listed stays listed. *)
NoText(u) ==
  /\ HasNextFile(u)
  /\ Answer(u, "refused")
  /\ UNCHANGED <<documents, timeline, saved, restarted>>

(* Both ways of extraction throw, and nothing catches it. *)
TextFails(u) ==
  /\ HasNextFile(u)
  /\ Answer(u, "failed")
  /\ UNCHANGED <<documents, timeline, saved, restarted>>

(* Fault: the events of each file are added to the timeline at once. *)
EventsAddedAtOnce(u) ==
  /\ At(u, "events")
  /\ \E new \in {{}, {<<u, upload[u].done>>}} :
       /\ upload' = [upload EXCEPT ![u].at = "text", ![u].found = @ \cup new]
       /\ timeline' = Extended(timeline, new)
  /\ UNCHANGED <<documents, saved, restarted>>

(* extract_events_from_text: events, or none when the LLM cannot be        *)
(* reached or its answer cannot be parsed.                                 *)
EventsExtracted(u) ==
  /\ At(u, "events")
  /\ \E new \in {{}, {<<u, upload[u].done>>}} :
       upload' = [upload EXCEPT ![u].at = "text", ![u].found = @ \cup new]
  /\ UNCHANGED <<documents, timeline, saved, restarted>>

(* timeline_events.extend(new_events) after the last file. *)
Extend(u) ==
  /\ At(u, "text") /\ upload[u].done = upload[u].files
  /\ timeline' = Extended(timeline, upload[u].found)
  /\ upload' = [upload EXCEPT ![u].at = "extended"]
  /\ UNCHANGED <<documents, saved, restarted>>

(* Sorting an empty list calls no key function. *)
SortNothing(u) ==
  /\ At(u, "extended") /\ timeline.held = {}
  /\ Answer(u, "ok")
  /\ UNCHANGED <<documents, timeline, saved, restarted>>

(* list.sort takes the items aside and calls the key function. *)
SortBegins(u) ==
  /\ At(u, "extended") /\ timeline.held # {}
  /\ saved' = [saved EXCEPT ![u] = timeline]
  /\ timeline' = Emptied
  /\ upload' = [upload EXCEPT ![u].at = "sorting"]
  /\ UNCHANGED <<documents, restarted>>

(* Fault: what the list got meanwhile is kept behind the sorted items. *)
SortEndsMerging(u) ==
  /\ At(u, "sorting")
  /\ timeline' = [saved[u] EXCEPT !.held = @ \cup timeline.held, !.sorted = ~timeline.array]
  /\ saved' = [saved EXCEPT ![u] = Emptied]
  /\ Answer(u, IF timeline.array THEN "failed" ELSE "ok")
  /\ UNCHANGED <<documents, restarted>>

(* Fault: a list that was changed meanwhile is not noticed. *)
SortEndsQuietly(u) ==
  /\ At(u, "sorting")
  /\ timeline' = [saved[u] EXCEPT !.sorted = TRUE]
  /\ saved' = [saved EXCEPT ![u] = Emptied]
  /\ Answer(u, "ok")
  /\ UNCHANGED <<documents, restarted>>

(* list.sort puts its own items back, whatever the list holds by now, and  *)
(* raises ValueError if the list has got an array meanwhile.               *)
SortEnds(u) ==
  /\ At(u, "sorting")
  /\ timeline' = [saved[u] EXCEPT !.sorted = TRUE]
  /\ saved' = [saved EXCEPT ![u] = Emptied]
  /\ Answer(u, IF timeline.array THEN "failed" ELSE "ok")
  /\ UNCHANGED <<documents, restarted>>

(* Fault: the timeline outlives the process, the documents do not. *)
RestartKeepsTimeline ==
  /\ MayRestart /\ ~restarted
  /\ restarted' = TRUE
  /\ documents' = {}
  /\ saved' = [u \in Uploads |-> Emptied]
  /\ upload' = [u \in Uploads |->
                  IF upload[u].at \in {"unsent", "answered"} THEN upload[u]
                  ELSE [upload[u] EXCEPT !.at = "answered", !.reply = "lost"]]
  /\ UNCHANGED timeline

(* The process starts again: the lists are empty, running requests break. *)
Restart ==
  /\ MayRestart /\ ~restarted
  /\ restarted' = TRUE
  /\ documents' = {}
  /\ timeline' = EmptyList
  /\ saved' = [u \in Uploads |-> Emptied]
  /\ upload' = [u \in Uploads |->
                  IF upload[u].at \in {"unsent", "answered"} THEN upload[u]
                  ELSE [upload[u] EXCEPT !.at = "answered", !.reply = "lost"]]

Handle(u) ==
  \/ TextExtracted(u) \/ NoText(u) \/ TextFails(u) \/ EventsExtracted(u)
  \/ Extend(u) \/ SortNothing(u) \/ SortBegins(u) \/ SortEnds(u)
=============================================================================
