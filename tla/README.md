# ChronoLaw in TLA+

This directory holds the verification project of ChronoLaw: TLA+ modules that
model its services, TLC configurations that check them on small instances, and
theorems about them checked by TLAPS.  `PROJECT.json` is the index: which
module models which source, every run, every mutant of the code that a property
catches, every definition with the lines it translates, the findings, the
hazards and the theorems.  Paths in this file are relative to the repository.

## 1. The system

ChronoLaw turns legal documents into a timeline.  Four services talk over HTTP:

    browser (React) -> backend (Flask) -> LLM service (C++ HTTP server on llama.cpp)
                               \-> Nougat service (FastAPI, OCR of PDFs)

| Component | State it keeps | Operations | Talks to |
|---|---|---|---|
| **Task queue** `server_queue` (`llm-service/server/server.cpp:1641`) | `queue_tasks`, `queue_tasks_deferred`, `running`, the id counter, a mutex and a condition variable | `post` (one or several, at the front or the back), `defer`, `pop_deferred_task`, `cleanup_pending_task`, `start_loop`, `terminate` | written by every HTTP handler, drained by the main thread |
| **Result queue** `server_response` (`:1825`) | `waiting_task_ids`, `queue_results` | add/remove waiting ids, `recv`, `recv_with_timeout`, `send` | the main thread sends, handlers wait |
| **Slots and `update_slots`** `server_slot`, `server_context` (`:1289`, `:1965`) | per slot: state, `id_task`, parameters, tokens so far, `cache_tokens` | launch, one batch per round, sampling, `process_token`, stop, release, cancel, fail | the KV cache and sampler of llama.cpp |
| **Handlers** of `/answer` and `/metrics` (`:4337`, `:4090`) | ids of their tasks, the receive loop, the connection | register ids, post tasks, receive, cancel, unregister; blocking, streaming and callback forms | task and result queue, httplib |
| **Shutdown** (`:5091-5119`, `:3787-3801`) | `is_terminating` | first signal: `terminate`; second: `exit(1)` | the loop |
| **Prompt cache and KV cache** (`:3231-3480`, `src/llama-kv-cache.*`) | `cache_tokens`, `n_past`, the cells with position and sequence set | prefix reuse, chunk reuse, context shift, truncation, rollback after a failed decode | slots |
| **Backend** (`backend-service/`) | the lists `documents`, `timeline_events`, shared by Flask's threads; files under `uploads/` | upload (save, OCR, extract events, sort), list, chat | LLM and Nougat services |
| **Frontend** (`frontend-service/src/`) | React state of the case: documents, events, messages, selected files | upload, chat, filter, draw | backend |
| **Nougat service** (`nougat-service/app.py`) | `pdfs/<md5>/pages/*.mmd`, `doc.mmd` | predict a page range, reuse pages on disk | the model |

Four interactions carry the difficult behaviour.

1. *Handlers and the main thread* share the two queues.  A handler registers
   its ids, posts its tasks, and waits; the main thread takes tasks, finds each
   a slot or defers it, and advances all busy slots by one batch per turn of the
   loop.  There is no other scheduling: the loop stays awake only because
   `update_slots` posts a `NEXT_RESPONSE` task to itself, and a deferred task
   comes back only because some slot's `release` pops it.
2. *A handler that leaves* (closed connection, error of one of several prompts)
   unregisters its ids and posts cancellations to the front of the queue, while
   its tasks may be queued, deferred, running, or already answered.
3. *One batch for all slots*: a failing `llama_decode` ends the work of every
   slot at once.
4. *Flask's threads* share two lists without a lock, and the pages of several
   browser tabs each keep their own copy of what their own uploads returned; the
   chat reads the shared list, not the page's.

Hard to test, and therefore what the properties are about: the order of post,
registration and the first result; cancellations that overtake or follow the
tasks they aim at; ids that slots keep after release; wake-ups that only one
caller performs; failures in the middle of a launch or of a batch; results for
ids that nobody waits for any more; a signal at any moment.  The list with
lines is `hazards` in `PROJECT.json`.

What makes each component correct:

* task queue: a posted task is processed once, deferred tasks come back;
* result queue: a result that somebody waits for is not dropped, one that
  nobody waits for is not kept;
* slots: a task has at most one slot, gets one outcome, and gives the slot back;
* handlers: "ok" means one complete result per prompt; every handler ends;
* shutdown: once `terminate` has run, the loop ends from wherever it is;
* prompt cache: a slot never attends to a cell that holds another token than
  `cache_tokens` says;
* token post-processing: the answer is the text before the first stop word,
  whatever tokens it comes in, and a stream never shows more than that;
* backend: the shared lists agree with each other and a lost update is reported;
  frontend: a page does not lose what it shows, and its modal closes;
* Nougat: a text is never kept under another page's number, never revised, and
  what is missing can be traced to a page that was not drawn or a torn write.

## 2. Modules

| Module | What it is |
|---|---|
| `Subsequences` | Selecting elements of a sequence by their places, in order; `Tasks` (which tasks stay in a deque) and `PageCache` (which pages are computed) use it. |
| `Tasks` | The tasks that travel through `server_queue` and the operators on its deques (`cleanup_pending_task`). |
| `AnswerServer` | The core: task queue, result queue, slots, `update_slots`, the handlers and the first signal, with one action per step of the code. |
| `Answering` | The abstract promise of the LLM service: a prompt is generated or refused once, a client is told "ok" after all its prompts were generated, "error" after one was refused, or leaves.  Where a batch may fail (`Revocable`) a generated prompt may be refused afterwards. |
| `KVCache` | The cells of the KV cache as pure operators: `seq_rm`, `seq_add`, the search for free cells, the restorer. |
| `PromptCache` | `update_slots` in detail: what a slot keeps in its cells between requests, how prompts and sampled tokens are batched, and how `llama_decode` places them ubatch by ubatch.  Uses `KVCache`. |
| `MCCache` | The instances of `PromptCache`: the prompts. |
| `MCServer` | The instances for TLC: clients `p` (two prompts; waits or has a callback), `q` (one prompt, streams), `m` (reads the metrics). |
| `StopText`, `MCText` | `process_token`: stop words, incomplete characters, the limits, and the text that is streamed; the tokens and stop words of its instances. |
| `Backend` | The upload handler of the Flask service in concurrent threads over `documents` and `timeline_events`, with the two halves of `list.sort`. |
| `CasePage` | The case pages of several browser tabs and the chat, composed with `Backend` (which it extends). |
| `PageCache`, `MCPages` | `predict` of the Nougat service over the page files of one document. |
| `Subsequences_proofs` | Lemmas about `Subsequences`, and about least elements and intervals, that all other proofs use. |
| `AnswerServer_proofs`, `Promise_proofs` | The theorems about the server; the second extends the first. |
| `CacheOperators_proofs`, `PromptCache_proofs` | Lemmas about the operators of `KVCache` and `PromptCache`; the theorems about the cache. |
| `CasePage_proofs`, `PageCache_proofs`, `StopText_proofs` | The theorems about the case file, the page files and the text. |

### How `AnswerServer` corresponds to the code

Main thread.  `pc` is its place in `start_loop`: `drain` (the inner loop,
`TakeTask`, `EndDrain`), `task` (a task popped, the mutex released, not yet
processed), `update` (before `update_slots`), `slots` (a batch built, slots to be
visited), `fail` (after the final failure of `llama_decode`), `wait` (the
condition variable) and `ended`.  `process_single_task` is one of `LaunchSlot`,
`LaunchFails`, `Defer`, `CancelSlot`, `CancelNothing`, `SkipNext`,
`ReportMetrics`.  `update_slots` is `AllIdle` or `StartBatch`, then one visit of
each slot in the batch: `PromptAdvances`, `PromptEmpty`, `PromptRejected`, `ContextFull`,
`SampleToken`, `SampleLast`; or `DecodeFails` and one `FailSlot` per slot.
Each of these takes a mutex at most for single calls, so handlers may step
between any two visits.

Handlers.  `hpc` is the place in `handle_answer_impl` or `handle_metrics`:
`Register` (`add_waiting_tasks`), `Post`, for streams `StreamBegins` (httplib
calls the content provider only after the handler returned), the `Receive...`
actions (`recv_with_timeout` in `receive_multi_results` and
`receive_cmpl_results_stream`), `ConnectionClosed`, then either `Unregister`
(`remove_waiting_task_ids`) or `GiveUp` and `PostCancels`, the two halves of
`cancel_tasks`, which hold different mutexes and so are two steps.
`StreamDropped` is the stream httplib never begins because the connection is
already closed: only `on_complete` runs.  A request with a `callback` that is
not a string leaves by an exception after its post (`PostThrows`).

The first signal is `Terminate`, or `TerminateStuck` when it interrupts a thread
inside a critical section of `mutex_tasks`; every action that takes this mutex
has the guard `TasksFree`.  After `TerminateStuck` threads still step as far as
their next use of the mutex, the interrupted one too, which is more than it really does.

`Release` contains `callback_on_release`, that is `pop_deferred_task`; `Send`
contains the test of `waiting_task_ids`.  The slot keeps `id_task` after its
release (`slotTask`), as in the code.

Abstracted.  Tokens are counted, not named: `left` is how many batches of the
prompt or how many tokens a slot may still take, and whether a token ends the
generation or an incomplete character holds back its text is a choice.  Which
idle slot is taken (prompt similarity, then least recent use) is a choice.
Results are kept in order per task id, and a receive may take the first result
of any of its ids, so every order in which `queue_results` can present them is
allowed, and some more.  `finished` and `failed` are history variables: the
tasks `send_final_response` and `send_error` were called for.

### How `PromptCache` corresponds to the code

`AnswerServer` treats a batch as one step and only counts tokens.
`PromptCache` opens that step and leaves out the queues and handlers around it:
`LaunchSlot` and `CancelSlot` happen between two rounds, as the loop processes
tasks only between two calls of `update_slots`.  All of it is the main thread;
the difficulty is not interleaving but the length of legal call sequences over
state that nothing ever compares: `cache_tokens`, `n_past` and the cells.

`pc` is the part of `update_slots`: `shift` (context shift of each slot), `gen`
(sampled tokens into the batch), `prompts` and `reuse` (prompts into the batch;
`reuse` is the loop over `head_c` and `head_p`), `decode` (one ubatch of one
chunk per step), `sample`.  `turn` is the slot of the running `for` loop.

| Code | Actions |
|---|---|
| all idle, `kv_cache_clear` on the first time | `ClearCache` |
| context shift | `ShiftContext`, `StopFull` (shift disabled), `KeepContext` |
| sampled tokens | `AddSampled`, `SkipSampled` |
| a new prompt: rejection, truncation, common prefix | `RejectPrompt`, `StartPrompt` |
| chunk reuse | `ReuseChunk`, `SkipCached` |
| removing the tail, filling the batch | `EndReuse`, `ContinuePrompt` (`FillBatch`) |
| `llama_decode` | `PlaceUbatch`, `NoRoom` (return 1: halve or give up), `ComputeFails` (graph failed, restorer), `DecodeRejects` (unknown token id) |
| sampling | `SampleToken`, `SampleLast`, then `NextChunk` |

A cell of `KVCache` has an owner, a position and, which the code does not
store, the token whose keys and values it holds.  `text` is a history variable:
the tokens the next one of a slot has to be conditioned on, its prompt after
truncation and what was generated, less what context shifts discarded.

### How `StopText` corresponds to the code

One action, `ProcessToken`, is one call of `process_token`; its parts are
operators in the order of the function: `Scan` (the search for whole and partial stop
words and `send_partial_response`), `Budget`, `AfterNewline` (the time limit and
`Indentation`), and the two last limits in `Limits`.  The fields of `slot` are those of
`server_slot`; positions count from 1, so `lastNl` is the number of bytes up to
and including the newline, as `last_nl_pos` is.  A text is a sequence of bytes:
letters, blanks, the newline, lead bytes of two and of three, and a
continuation byte.  Whether the time is up, the context is full, or the token
ends the generation are choices.  `streamed`, `raw` and `mixed` are history.

### How `Backend` and `CasePage` correspond to the code

`upload[u]` holds the locals of one call of `upload_documents`: `text` (at the
loop over the files), `events` (a document is listed, its events are asked
for), `extended` (between `extend` and `sort`), `sorting` (inside `sort`),
`answered`.  Every other statement of the handler touches only its own locals,
so these are the points at which another thread can make a difference.
`list.sort` is two steps because it calls its key function, Python code, for
every item: CPython empties the list first (`SortBegins`) and afterwards puts
its own items back over whatever the list then holds, and raises `ValueError`
if the list has got an item array meanwhile (`SortEnds`; the field `array`
stands for `allocated >= 0`).  An upload that sorts while another sorts finds
an empty list if it has nothing to add itself (`SortNothing`), otherwise its own
events.  `Restart` is the reloader of `debug=True`.

`page[t]` is the `Case` component mounted in tab t and `closure[u]` what the
`handleDocumentsProcessed` that was passed down when upload u was sent had
captured.  `Open` and `Leave` mount and unmount it (React forgets its state; a reply
that comes later finds nobody), `UploadFiles` is `uploadFiles` up to its
`await`, `UploadSucceeded` and `UploadFailed` its two continuations.  The modal
blocks the page while `isLoading` (`Usable`).  `SendMessage`, `ReadTimeline` and
`ChatAnswered` are a chat: the page sends only the question, `process_chat`
reads the shared list item by item.  A reading that overlaps a sort may miss
any part; `Readings` allows that at a moment at which the upload that
sorts is in its critical part, and every such reading has one.

Abstracted: the events of one document are one value; which files were
selected is an input of `UploadFiles`; all files have an allowed extension.

### How `PageCache` corresponds to the code

`predict` contains no `await`, so requests follow each other.  `Predict` is the
function up to its first write (the pages, the cached ones among them, the
images that could be drawn, the predictions), `WritePage` one `write_text` of
the loop over the pages, `Respond` the answer.  `Interrupt` ends a request
inside a `write_text`, which opens the file for writing before it writes: the
file is then empty, holds a part of the text, or is cut inside a character (such a
file cannot be read and counts as not computed).  `Die` ends it between two
writes.  `given` and `damaged` are history: the last answer per page, and the
pages that were once not drawn or interrupted.

Operators whose comment begins with "Fault:" are not used by the
specification; each is a plausible bug in the operator that follows it, and
`PROJECT.json` names the property that finds it.

## 3. What the runs show

Passing runs (a few seconds to a minute each):

| Run | Instance | Shows |
|---|---|---|
| `Serve` | 2 slots, p with two prompts of two batches, q streams and insists on the first slot (`id_slot`), both may close at any moment | the server's invariants below but `NoTaskLost` and `RunOnce` |
| `ServeMixed` | 1 slot, p with two prompts and a callback (whose URL may be no string), q streams, m reads metrics; launches and decodes may fail, a stream may be dropped before it begins | `NoTaskLost`, `RunOnce`, and `KeepsPromise`: the server implements `Answering` |
| `ServeLive` | 1 slot, p and q with one prompt each, dropped streams, a signal at any moment, fair threads | `EventuallyAnswered`, `SlotsReturn`, `TerminateEndsLoop` |
| `Cache` | 2 slots of 5 cells, batches of 3 tokens in ubatches of 2, chunks of 2 reused, `n_keep` -1, `n_discard` 2 | `Conditioned`, `CacheNamed`, `RoomForBatch`, `RoomIsFound` |
| `CacheFailures` | 1 slot of 8 cells, ubatches of 2, with and without context shift and `cache_prompt`, failing decodes, a request before the loop starts | `NoWrongToken`, `RoundEnds` |
| `StopText` | all sequences of up to 5 of 13 tokens, 6 stop words, `n_indent` 0 and 1 | `ContentBeforeStop`, `StopWordWithheld`, `WholeCharacters`, `HeldForReason` |
| `CaseFile` | 2 tabs, 2 uploads of up to 2 files, a restart, fair services | the eight properties of the case file and `LoadingEnds` |
| `Pages` | 4 pages, the whole document, two halves, an overlapping and an empty range, pages that are not drawn, interruptions | `OwnText`, `LossTraced`, `NeverRevised` |

The invariants of the server: `NoTaskLost` (a task that is waited for is pending, running or
answered), `StaysRegistered` (its id stays registered), `CancelsFollow` (a
cancellation is only queued after its handler left), `RunOnce` (one copy of a
task at most, none after its outcome), `OneVerdict` (one terminal result, after
the pieces), `ResultsAwaited` (no result is kept for an id nobody waits for),
`WaitingHasHandler` (no id is waited for without a handler that will remove it),
`CompleteAnswer` ("ok" means every prompt was generated to its end),
`DeferredHasWaker` (deferred tasks have something that will move them back) and
`LoopAwake` (the loop does not sleep while a slot is busy).

Of the cache: `Conditioned` (when a token is sampled for a slot, its cells hold
its text, each token once and at its position), `CacheNamed` (between rounds
`cache_tokens` names only tokens that are in the cells), `RoomForBatch` (there
are always enough free cells, so "KV cache is full" cannot occur),
`RoomIsFound` (`find_slot` finds n free cells in a row exactly when there are),
`NoWrongToken` (even after failures no cell holds another token than the text
of its slot has at that position) and `RoundEnds` (`update_slots` returns).

Of the text: `ContentBeforeStop` (the content is everything before the first
stop word of the whole text, which the code, searching only near the end of
what it has not sent, never looks at as a whole), `StopWordWithheld` (no byte of
a stop word is ever streamed), `WholeCharacters` (each chunk ends between two
characters) and `HeldForReason` (what is not yet sent begins a stop word or a
character).  The first two speak of tokens that spell characters and begin one
only at their own beginning (`Spelled`), see below.

Of the case file: `EventsHaveDocuments` (every stored event belongs to a listed
document), `TimelineSorted` (in order whenever nobody sorts), `AllOrNothing`
(the events of an upload are stored together), `LossIsReported` (they are lost
only in a restart or in a step that fails an upload), `ShownIsStored` (until
then pages show what is stored), `ShownGrows` (a page never loses what it
shows), `ChatSeesShown` (a question is asked with what its page shows, unless
uploads clash) and `LoadingEnds` (the modal closes).

Of the page files: `OwnText` (no text under another page's number),
`LossTraced` (text is missing only where a page was not drawn or a write
interrupted), `NeverRevised` (a page is answered as it was before, whatever
ranges name it, and a readable file keeps its text).

*Bounds of the server.*  Two slots and three prompts are the least with which one prompt is
deferred while its sibling and a stranger run, and with which both orders of
release occur; with one slot every second request is deferred.
`PromptBatches` is 2 in `Serve`, otherwise 1, and `Predict` is 2: each
generation has a prompt round, a token that continues and one that ends it.  A client makes one
request: ids are never reused, so a second request of the same client is one
more member of `Requests`.  No symmetry is used.  Deadlock is not checked: when all requests are served the
server sleeps in its condition variable, which is its normal idle state.

*Bounds of the cache.*  The cache has `NSlots * Ctx` cells, the least the server
accepts.  In `Cache` five cells per slot, batches of three and prompts of three
and six tokens are enough for a prompt that is truncated, one that is continued
in a second round, a chunk that is reused elsewhere, shifts of a full context,
and cells so fragmented that a batch must be halved (13 states).  Three
requests reuse, on some slot, what a cancelled or finished one left.  One token
is sampled by generations: which one it is matters only for later reuse, and
prompts agree and disagree with it.  With chunks of two and five cells no
prompt can reuse two chunks; why that matters is said below.  In
`CacheFailures` eight cells and ubatches of two are the least for which a chunk
fails after some of its ubatches were placed; two requests suffice because a
failure in a late round leaves what earlier rounds cached.  The deployed service
has one slot of 8192 cells, batches of 2048, ubatches of 512, context shift on,
and no chunk reuse.

*Bounds of the others.*  Five tokens are enough for a stop word of three bytes that
comes in three tokens behind one that only seemed to begin, for a character of
three bytes, and for a line that is cut two tokens after its newline; the stop
words overlap each other and themselves.  The generation always ends: deadlock is not checked.
Two uploads are the least that can clash, two files the least of which one can
fail after the other was listed, and two tabs the least in which a page is open
while another changes the lists; a tab may send both uploads one after the
other.  When both uploads are answered nothing but opening and leaving pages is left.
Four pages and overlapping ranges give requests in which cached pages lie
before, behind and between those to compute, which is what the two indices of
`predict` are about; requests never run out, so every directory that
can come about is used again.

*Fairness* (`FairSpec` of `AnswerServer`): weak fairness of the main thread's step and of each
handler's own steps.  Both are operating-system threads that hold no lock while
they compute and block only in the two condition variables, whose predicates
are the guards of the model.  A client is never obliged to send a request
or to close a connection, and a signal need not arrive.  `n_predict` is finite, as in
every request the backend makes (8192 and 5000), otherwise a generation need not
end.  Connections need not break for progress.  `FairSpec` of `PromptCache` is
weak fairness of the steps of `update_slots`, which runs on the main thread and
waits for nothing; a failing computation, a launch and a cancellation are
never obliged to happen.  `FairSpec` of `CasePage` is weak fairness of each upload's
thread and of the arrival of replies: no request of the pages or of the Flask
service has a timeout, so this assumes that Nougat and the LLM service answer or
fail.  The case page does not establish it.  For the LLM service `ServeLive` shows it where
no launch fails and no signal comes; a request stranded by a failed launch
(`LaunchStrands`) keeps its modal open until another request is released.  Users are not
obliged to do anything.

### Where code and its own words disagree

Each of these runs violates one property that a comment or an assertion of the
code states (`findings` in `PROJECT.json` quotes it):

* `LaunchStrands`: a launch that fails leaves the slot idle without `release`,
  so no deferred task is popped; with nothing else running they wait for the next request.
* `StaleCache`: after a batch that failed, `cache_tokens` keeps tokens that were
  never decoded; the next request with that prefix "reuses" them and is
  answered without them.
* `SortLoses`: of two uploads whose sorts overlap, the one that began first puts
  its items back over those of the other, which has already answered 200 (its events
  stay on its page and are gone from the timeline; the first then fails with 500).
* `HeldBack`: text held back as the possible beginning of a stop word or as half
  a character is in the content of the final response but in no chunk of the
  stream, when the generation ends for another reason.

Met while modelling, without a run of their own (the properties in parentheses
are in the modules and do not hold):

* Cancelled tasks still start (`CancelledStaysOut` of `AnswerServer`): `cleanup_pending_task` (`server.cpp:1811`)
  compares `id_target` with the cancelled ids, but a completion has its id in
  `id`; `post` says "if this is cancel task make sure to clean up pending tasks".
* `callback` together with `stream` (`NoAbort`): the receiver of the callback
  thread asserts that each result is final (`:2800`), and the first partial one aborts the process.
* When a later ubatch of a chunk finds no cells, `llama_decode` returns 1
  without restoring the cache (`src/llama.cpp:8557`), and the retry with half the chunk
  places the first tokens a second time: they are attended to twice, and their cells can
  make the cache full for a prompt that fits (`DecodeRollsBack`).
* `llama_kv_cache_seq_add(..., head_c, -1, ...)` moves everything
  behind a reused chunk, but `head_c` goes on in old positions, so that a second chunk is
  replaced by other tokens (`Conditioned` with prompts that allow two; only with `--cache-reuse`, which is off by default).
* A stream dropped before it begins leaves its results in `queue_results` for
  ever, since `remove_waiting_task_ids` does not purge it (`ResultsAwaited` of
  `AnswerServer` with `StreamMayDrop`).  The same happens to the error that a
  failing batch sends to the last task of an idle slot whose handler is between
  its last receive and its unregistering.
* The callback URL is read after the ids were registered and the tasks posted;
  an exception there leaves both behind (`WaitingHasHandler` with a member of `BadCallback`).
* The signal handler calls `terminate`, which locks `mutex_tasks`, on the thread that
  the signal interrupts.  If this thread holds the mutex it waits for itself
  (formally undefined, in practice for ever), and everybody else stops at the next
  use of the queue (`TerminateStuck`).  And a signal before the first statement of
  `start_loop` is undone by `running = true`.  So `SignalEndsLoop`, which is what the
  comment at `server.cpp:5093` says ("this will unblock start_loop()"), does not
  hold; `TerminateEndsLoop` says what does.
* `main` returns without joining the HTTP thread `t` (`server.cpp:5119`): the destructor of
  a joinable `std::thread` calls `std::terminate`, so every orderly shutdown,
  and a failed model load, ends in `abort`.
* A request queued before `start_loop` is served before the first all-idle round, which
  then wipes its cells and leaves `cache_tokens` (`CacheNamed` with `EarlyRequest`).
* A comment at `server.cpp:3143` says that the branch of `StopFull` is never
  reached because `process_token` stops the generation; it compares
  `n_past >= n_ctx`, one token later, and the run `CacheFailures` does reach it.
* `cache_prompt: false` pads `cache_tokens` with zeros (`resize`) when a prompt takes
  several rounds, as if token 0 had been cached.  A later prompt that begins with this
  token "reuses" the cells of other tokens (`NoWrongToken` with prompts that have a 0).
* A stop word that ends in a token which goes on with the first byte of a character,
  or one of a single letter between the bytes of a broken character,
  is missed: the search is skipped while the text is incomplete and looks back
  only by the word and the last token afterwards (`ContentBeforeStop` without
  `Spelled`; `server/README.md` promises a content "excluding `stopping_word`").
* `server/README.md` says `n_predict` may be exceeded slightly if the last token
  is half a character; `process_token` stops at the limit all the same.
* `n_indent` cuts the last line after it may have been streamed (`HeldForReason`
  speaks of `n_indent` 0).
* Page files are written in place and whatever can be read is taken as the page:
  a torn or undrawn page is served for ever (`AnswersWhole` of `PageCache`).  If all pages
  of a file are blank, every later upload of it is refused with 400, without the
  fallback to pymupdf, which is only taken when Nougat fails.
* `ImageDataset` yields `None` for a page it cannot prepare, which
  `ignore_none_collate` would filter, but `predict` does not pass it to its
  loader: such a page fails the request.  `predict` reads `start` and `stop` from the
  query, while `documents.py:37` sends them as form fields, so they never arrive.
* `upload_documents` reads `events` after the loop (`documents.py:169`), which does not exist
  when no file had an allowed name; `secure_filename` drops what is not ASCII,
  so a name without ASCII letters loses its extension and the file is refused.
* A file that fails ends an upload whose earlier files stay listed, without
  events, and a retry lists them again.  Cases exist only in the browser: the
  chat of every case uses the events of all.

## 4. What is proved

All proofs are checked by `tlapm`, for any number of slots, requests, prompts,
tabs, uploads, pages, tokens and cells.  What they assume of the constants are the
named assumptions of the modules, which TLC evaluates in every run:
`NoTaskAssumption`, `RequestAssumption` and `SlotAssumption` (distinct ids, at least
one prompt per request, metrics requests have one task and neither stream nor
callback), `UploadAssumption`, `PageAssumption`, `TextAssumption` (stop words are
not empty and made of whole characters, as JSON strings are) and `RoundAssumption`
(a context of at least four tokens, ubatches not longer than batches, batches not
longer than the cache).  Where a theorem assumes more, of the constants or of the
behaviour, it says so, and a run or section 3 shows why it must.

**Server** (`AnswerServer_proofs`, `Promise_proofs`)

* `TypeCorrect`: `Spec => []TypeOK`.  `TypeOK` is not inductive:
  a visit subtracts from the budget of the slot and `failed` collects the slot's
  task, so `TInv` adds `SlotsHoldTasks` (a busy slot works for a task, a batch
  is made of busy slots).
* `NoTaskIsLost`, `IdsStayRegistered`, `CancelsComeAfter`.  The
  three are inductive only together (`DInv`): a task is not lost because `Send`
  keeps its result, which needs its id registered, and because no cancellation
  frees its slot, which needs that cancellations follow their handler.  Steps of
  the main thread are handled by showing that it never takes anything from a
  task nobody cancels (`LoopKeeps`); steps of a handler by showing that they do
  not disturb other requests (`OthersServed`) and serve their own
  (`HandlerServes`).  Failures, drops and signals are all included: no
  assumption on the `...May...` constants is made.
* `DeferredIsWoken`: `DeferredHasWaker` under `AllLaunch` (no
  launch fails, there is a slot, every `id_slot` names one).  The run
  `LaunchStrands` shows that the first assumption is needed.  The strengthening
  `FInv` adds that only completions are deferred: a task that `pop_deferred_task`
  returns is then itself the completion that keeps the rest awake.
* `LoopStaysAwake`: the `NEXT_RESPONSE` posted at the start of a batch is still
  queued when the loop asks whether to wait (`NextIsQueued`).
* `CompletionsRunOnce`: `RunOnce`.  Its invariant `OInv` gives every task one place:
  queued, deferred or in hand at most once, and the id that a slot keeps is that of a task
  which has left the queues (`OnePlace`); nothing was told about a task in one
  of these places (`OpenUnsettled`), and tasks of a request not posted are nowhere (`Unposted`).  Steps
  of the main thread are sorted into the five things they can do to the tasks
  (`Quiet`, `Streams`, `Launches`, `Ends`, `FailsAgain`).
* `AnswersComplete`: a handler that answers "ok" has counted every prompt once and
  each was generated to its end (`VInv`: queued results tell the truth, and
  nothing follows the end of a task except the error of a failed decode).
* `VerdictsOnce` (if no decode fails for good: otherwise an idle slot's last task
  gets a second, wrong verdict), `NoResultLeftBehind` (also without dropped
  streams), `NoIdLeftBehind` (without malformed callbacks, and without requests with both
  callback and stream), `AssertionHolds` (the assertion of
  `receive_multi_results`, without such requests).  Each exception is a behaviour of
  the code that section 3 lists.
* `ServerKeepsPromise`: the refinement `KeepsPromise`, with no assumption.  `Next` is mapped step by step
  to `Answering`: a step of the main thread generates or refuses the prompts whose verdict it sends
  (`LoopPromise`), a step of a handler asks, answers, tells an error or leaves
  (`HandlerPromise`); everything else stutters.

**Case file** (`CasePage_proofs`): all eight safety properties, for any
number of tabs, uploads and files.  The invariant has four
parts.  `ServiceOK`: the types, `LocalsOK` (an upload that is unsent has found
nothing; it never found events of a document it has not listed), `ListOK` (a list
without an array holds nothing, and what a sort keeps aside belongs to an upload
that sorts), `EventsHaveDocuments`, and `TimelineSorted`.  `WholeOK`: an upload's events are stored
together, which needs that no list, neither the timeline nor one put aside, ever holds a part
of them.  `PagesOK`: a page waits for at most one upload, only while its modal is
open, and the closure of that upload is what the page shows; this is why
replacing what is shown by the reply never hides anything.  `KeptOK`: until
a sort fails, what answered uploads found is stored; the step that would
lose something is `SortEnds` of an upload over a list that got an array
meanwhile, and exactly this step fails it.  The proof splits `Next` into the
steps of the service (`ServiceNext`) and of the pages, so that each part is only
re-proved where it can change.

**Page files** (`PageCache_proofs`): `PagesTyped`, `TextStaysWithItsPage`,
`LossesTraced`, `ReadingsStand`.  `PInv` says what the predictions of the running request have to do
with the directory: each fits the page it is for (`Fitting`), the first ones are already
on disk (`Written`), no page is named twice, and what was answered is there as it
was answered.  The core is `Predict`, where two indices run through the pages
and the pages to compute: the lemmas on `Subsequences` show that they stay
together.

**Text** (`StopText_proofs`): `SlotTyped`, `ContentEndsBeforeStop`,
`StopWordsWithheld`, `ChunksAreWhole`, `NothingHeldIdly`, for all tokens and all
stop words.  While the generation goes on (`Running` in `SInv`) what is streamed is a prefix of all that
was sampled at whose positions no stop word can still begin (`Safe`), and the whole
text has no stop word in it.  The lemma `Scanned` names the four ways in which the
search can end (incomplete text, a partial stop word, all sent, cut); for the first one must show
that a search that was skipped misses nothing, which is where `Spelled` is
needed: a stop word of whole characters cannot end inside a character.

**Prompt cache** (`CacheOperators_proofs`, `PromptCache_proofs`)

* `RoundsTyped`: `TypeOK`, for every context, batch, prompt, `n_keep` and any failure.  That no
  position and no index leaves its bounds needs nearly everything one knows about a
  round, `RInv`: a slot stays below its context and keeps at most four tokens
  less than that, so that a context shift always discards something (`SlotOK`);
  `n_past` and `cache_tokens` keep up with the text (`TextOK`); a pending token
  of the batch is the text of a slot at work, at its position (`BatchOK`), so that filling the cells
  keeps them within the text (`CellsOK`); and a chunk that is decoded is not
  empty (`RoundOK`), so that halving it never reaches 0 while it is retried.
* `SearchFindsRoom`: `find_slot` finds a row of free cells exactly when there is
  one, wherever its head is.  The loop is a recursive function that ends because
  it has tested more cells after each turn; the lemma `SearchIs` shows that it
  never passes over a free row.
* `NothingWrong`: `NoWrongToken` under `PlainCache`, that is without chunk reuse (with
  it a second chunk really is replaced by other tokens) and, if some requests
  have `cache_prompt: false`, for prompts without the token 0 that their
  `cache_tokens` is padded with (with it `NoWrongToken` does not hold).  `TInv` adds to `RInv` that
  the cells of a slot at work hold its text (`TextHeld`), that what other slots
  left in their cells has the name it has in `cache_tokens` or is padding
  (`LeftNamed`), and that a reused prefix is one of the prompt (`PrefixReused`).
  Nothing is assumed about failures: the cells that a failed batch leaves behind are named correctly;
  what is missing are cells, not names, and that is what `StaleCache` shows.
* `RoomSuffices`: `Spec /\ [][~PlacedInPart]_vars => []RoomForBatch`, for batches of any
  number of ubatches (the deployed ones have four), with chunk reuse, early
  requests and failing decodes.  `PlacedInPart` is the step `NoRoom` behind the first
  ubatch of a chunk: the chunk is then repeated and its first tokens are in two cells
  (`DecodeRollsBack`, section 3), which is where the statement has to end.  It needs
  cells so fragmented that a later ubatch of 512 tokens does not fit in a row; in all
  of the run `Cache` (batches of 3 in ubatches of 2) it never happens.
  The invariant `Once` says that no token of a slot is in two cells, none that waits
  to be decoded is in a cell, and none waits twice.  Cells and waiting tokens together
  then inject into slots and positions, of which there are as many as cells.
* `SampledFromText` (`Conditioned`) and `NamedTokensHeld` (`CacheNamed`), for the same
  behaviours.  The invariant `CInv` joins
  `TInv` with `Complete`: every token of the text of a slot at work is in a cell or
  waits in the batch (`TextPlaced`), what `cache_tokens` of another slot names is in a cell
  or is padding (`LeftPlaced`), and before the cells are cleared for the first time no slot
  names anything (`NotClean`).  With `TInv` for the names and `Once` for the number, the cells
  of a slot are exactly its text.  Of the constants they assume `Undisturbed`, each part of which rules out
  something section 3 describes: chunk reuse (a second chunk is replaced), a request
  before the first idle round, and a decode that fails
  (`StaleCache`).  `NamedTokensHeld` also assumes that every request uses the
  cache, since without it `cache_tokens` is padded.
* `TextAttended`: also after chunks were placed in part, until a batch is given up
  (`GivesUp`, "KV cache is full"; what a given-up batch leaves behind is `StaleCache`
  again): when a token is sampled, each position of the text is in some cell.  With
  `NothingWrong`, a repeated chunk doubles tokens but neither drops nor replaces one.
  This is `CInv` without `Once`, under `Undisturbed`.
* `UncachedAttended`: without any assumption on constants or behaviour, a request without
  `cache_prompt` is only sampled when its whole text is in its cells: failures, repeated chunks
  and the cells of earlier requests do it no harm, because it removes them all
  (`BareStart` in `UInv`) and a slot that fails is released before it samples.

Only model-checked:

* all liveness (`EventuallyAnswered`, `SlotsReturn`, `TerminateEndsLoop`,
  `LoadingEnds`, `RoundEnds`): the prover has no support for fairness and ENABLED;
* `Conditioned` and `CacheNamed` with chunk reuse: the run `Cache` reuses chunks, with prompts in
  which no second chunk is moved; the theorems assume `CacheReuse = 0`, the default.

## 5. Not modelled, and why

* Time: the one-second polling of `recv_with_timeout`, and the microsecond clock
  of the least-recently-used choice (two equal stamps would hide an idle slot).
* `unordered_set` order of the cancellations of one request, and the order of
  results of different tasks: every order the model allows contains the real ones.
* The HTTP thread pool, the second signal, and what threads do after the loop ended.
* Routes that are never registered, embeddings, rerank, LoRA, slot save and
  restore, and speculative decoding: `/answer` and `/metrics` cannot reach them.
* Parsing and formatting (JSON, templates, grammars), numeric inference code,
  vendored libraries, conversion scripts, training and dataset code of Nougat.
* Of the cache: sequences that share cells, defragmentation (it begins at 2048
  cells), recurrent models, and an `n_discard` larger than what there is to
  discard, which the code does not check.
* Of the text: probabilities of tokens, timings, the counters of
  `server_metrics`, and lead bytes of four (handled as those of three).
* Of the case file: files under `uploads/` (written, never read again after the
  extraction), the GET routes, which only read the lists, drawing and
  filtering in `Timeline.js` and `Mindmap.js`, the message list of the chat, file
  selection, and case selection.
* Of Nougat: the text itself; the model is taken to predict the same text for the
  same page.  Two worker processes over one directory (`main` starts one).
* Of every 100 lines of the repository more than 95 are vendored: `json.hpp`, `httplib.h`, `stb_image.h`,
  llama.cpp and ggml with their kernels, tables of Unicode, and the library and training code of
  Nougat.  They keep no state the services share, or are numeric; what the services
  rely on is modelled at the call (`llama_decode`'s KV cache, httplib's content
  provider, CPython's `list.sort`).  The share of lines that the map covers is
  therefore small and will stay so.

## 6. Plan

1. *Done*: `Tasks`, `AnswerServer`, `Answering`, `KVCache`, `PromptCache`,
   `StopText`, `Backend`, `CasePage`, `PageCache`, and the theorems of section 4.
2. Proofs about the cache: the reuse of one chunk per prompt.
3. `Shutdown`: the HTTP pool, the second signal, and the threads that outlive
   the loop; requests whose `id_slot` names no slot.
