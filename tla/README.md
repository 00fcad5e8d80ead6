# Verification of the RAG application

TLA+ models of the parts of this repository whose correctness depends on
interleavings, failures and order, the TLC runs that check them on small
instances, and TLAPS proofs for every size. Paths in the first table are below
`production_rag/`.

## 1. Inventory

| component | state it keeps | operations | what makes it correct |
|---|---|---|---|
| pipeline ingestion (`components/ingest/ingest_component.py`, PipelineIngestComponent) | `doc_q`, `node_q`, their unfinished-task counts, a semaphore, a worker pool, the writer's stacks, the index | ingest, bulk_ingest, delete, `_doc_to_node`, `_doc_to_node_worker`, `_write_nodes`, `_save_docs`, `_flush` | exact task accounting, a returned call left nothing behind, no hang, what it returned is on disk |
| lock-based ingestion (same file: Simple, Batch, Parallelized) | the index in memory, the vector store, the persisted files, `_index_thread_lock` | ingest, bulk_ingest, delete, restart | one writer at a time, vector store and document store agree, a delete is final, crash durability |
| queued ingestion (`server/ingest`, `components/queue`, `components/storage`) | S3 objects, document rows, the SQS queue, the worker | upload, enqueue, receive, ingest, delete message, redelivery, stop | no accepted upload is lost, an acknowledged message was ingested, metadata and objects agree |
| RAG pipeline (`rag/pipeline/rag_pipeline.py`) | the module-wide circuit breaker, retries | run, stream_run | the breaker opens and closes when it should, retries are bounded |
| retrievers (`rag/retrievers`, `rag/reranker`) | the BM25 corpus | retrieve, normalise, merge, rerank | scores and order of the merge, a corpus that is not read again |
| authentication (`server/auth`, `components/database`) | users, refresh tokens, API keys, sessions, the transaction of a request, the connection pool | login, refresh, logout, register, create_api_key, get_current_principal | nobody acts as another, no wait is circular, every request is answered, what is answered is stored |
| rate limiter and caches (`components/cache`) | Redis keys with expiry | rate limit, session, conversation append, embedding cache | the limit holds in each window |
| chat, chunks, summarize, completions (`server/chat`, ...) | none of their own | build an engine, filter, stream, walk siblings | the model is asked what the user asked, answers rest on the filter and on documents that are there |
| LLM adapters (`components/llm`) | SageMaker line buffer | prompt styles, line iterator, deltas | no lost, doubled or endless line; every style asks the question |
| embedding and vector store (`components/vector_store`, `components/embedding`) | collections | add in batches, filter | every node added once, the filter is applied |
| UI (`ui/ui.py`) | the selected file and the system prompt, shared by all browsers | upload, delete, select, chat in four modes | selection, upload and deletion agree |
| embeddings endpoint, folder watcher, RAG evaluator | none | one call each | - |
| settings (`settings`) | merged YAML | load, expand variables, merge | override order |
| enterprise services (`enterprise-services`, Java) | users, roles | authenticate, deactivate | delegates to a database |
| deployment (`k8s`, `helm`, `terraform`, `alembic`) | queue policy, schema | - | the queue parameters are constants of the queue model |

Components interact by calls, except: request threads and the two threads of the
pipeline share the two queues; all ingestion strategies share the index; the API
process and the ingestion worker share S3, the database and SQS; every request
shares the Redis keys, the circuit breaker and the pool of database connections;
every browser shares the state of the one UI object.

## 2. Modules and plan

| order | module | models | abstract specification | proofs |
|---|---|---|---|---|
| 1 | `IngestPipeline` | PipelineIngestComponent | `IngestContract` | `IngestPipelineProofs` |
| 2 | `IngestIndex` | SimpleIngestComponent, BatchIngestComponent, ParallelizedIngestComponent, their restart | `IngestContract` | `IngestIndexProofs` |
| 3 | `IngestQueue` | upload, S3, Postgres, SQS, the worker | - | `IngestQueueProofs` |
| 4 | `LlmBreaker` | `run` and `stream_run` around the circuit breaker | - | `LlmBreakerProofs` |
| 5 | `RateLimiter` | `RateLimiter.check` over Redis | - | `RateLimiterProofs` |
| 6 | `AuthSession` | the auth endpoints, their sessions, transactions, row locks and connections, deactivation | - | `AuthSessionProofs` |
| 7 | `Answers`, which extends `Prompts`, `Retrieval` and `LineStream` | the UI, chat, chunks, completions, summarize over documents that come and go; messages and prompt styles; filter, retrievers, merge, reranker, siblings; the stream of SageMaker | - | `PromptsProofs`, `AnswersProofs` |

`IngestContract` is the promise every strategy makes to its callers; 1 and 2 are
shown to implement it. 3 and 7 use what 1 and 2 establish: there, one ingestion and
one deletion are single steps. The `MC` modules give the constants small values. No
module uses a RECURSIVE operator.

The proofs the plan named are done (section 11): every safety invariant that a run
checks is a theorem, and so are the action properties and both refinements.

## 3. Pipeline ingestion: IngestPipeline

| state | code |
|---|---|
| `pc`, `todo` | where a thread in `ingest` or `bulk_ingest` is, and the files it still has to parse and put |
| `doc_q`, `doc_unfinished`, `doc_cmd` | the bounded queue, its count of unfinished tasks (`put` adds one, `task_done` takes one away, `join` waits for zero), and the command in the hands of `_doc_to_node` |
| `doc_semaphore`, `job`, `async_error` | the permits, where the pool's job of each file is, and the exceptions kept in AsyncResults that nobody reads |
| `node_q`, `node_unfinished`, `writer`, `file_stack`, `node_count` | the second queue and `_write_nodes` with its stacks |
| `index`, `snapshot`, `disk`, `logged` | the index in memory, what a persist has serialised and not yet written, what the last complete persist wrote, the error log |
| `torn`, `overlapped` | whether the persisted files are cut short, and which threads have opened them while another had them open: such persists may leave anything but a readable file |
| `del_pc`, `del_file`, `lock` | delete calls and `_index_thread_lock` |

Every place where a thread can be preempted between two effects is a step of its
own: a job embeds, puts, releases and calls `task_done` in four steps. A persist
rewrites the files of the index in place (ingest_component.py:98): it opens them,
which leaves them torn, and writes what it has serialised, two steps for the writer
and for each delete call. If the writing raises, the files stay torn until the next
persist that ends well, whether in `_save_docs`, which logs the failure and goes on
(`SaveFails`), or in `delete` (`DeleteFails`); where two persists overlap, how the
files end up is left open. Embeddings, saves, parsing and deletions may fail wherever
the code has a try, a finally or a with. Nodes are counted, not told apart; a
"process" command is its file. The "quit" command is left out: nothing sends it.

Runs. All use two requests (a bulk_ingest and an ingest, of one file each), a delete
call, a pool of one worker, queues of one place and a flush threshold of two nodes
that one file reaches alone and the other only together with it. Queues of one place
make every `put` block, and one permit makes the second file wait at the semaphore;
two requests are what it takes for one to be in its joins while the other still
fills the queues, and for both files to be in the stacks together. The delete call
is what makes the instance large. Every safety property of the run is a theorem for
any number of requests, files, workers and delete calls (section 11); it is the
liveness property `CallsEnd` that rests on this instance alone.

- `pipeline`: the type invariant; both queues count exactly the commands put and not
  yet dealt with (`TasksAccounted`), permits are never lost (`PermitsAccounted`), a
  call that returned has no file anywhere on its way (`ReturnedAreSettled`), the
  writer's stacks are cleared together (`StacksAgree`), and nobody is stuck
  (`NobodyIsStuck`): requests, `_doc_to_node`, the pool and the writer wait for each
  other at two bounded queues, two joins and a semaphore, and as long as a call has
  not ended, it or one of the daemon threads behind it can go on without anything
  raising and without the help of another request. Up to the first delete call, what
  returned is in the index and persisted, and stays so, unless a raising save has
  logged it or its embedding raised, and the files are torn only while the writer
  writes them or after a save that was logged (`ReturnedAreDurable`); and the pipeline
  keeps `IngestContract` (`ImplementsContract`). Every call ends (`CallsEnd`).
- `pipeline_report` (violation of `DiscardedAreReported`): a file whose embedding
  raises is discarded, its exception stays in an AsyncResult that nobody reads
  (`async_error`), the request returns and no log entry names the file, although the
  class docstring says that discarded files will be reported
  (ingest_component.py:330-331). `ReturnedAreDurable` and the refinement therefore
  leave such files out by name.
- `pipeline_delete` (violation of `DeletedAreGone`): the writer persists without
  the lock `delete` holds, and an older content is written over the newer one. This
  is also why the two properties above say nothing after a delete call has begun.

## 4. Lock-based ingestion: IngestIndex

A request is cut into the batches it gives to `_save_docs`: a batch per file
(simple: one after the other; parallel: at once) or one batch (batch). `stage[b]`
is how far the save of batch `b` is: transformed and waiting for the lock, adding
vectors, adding nodes, persisting (truncating, then writing), releasing. `vectors`
is the vector store, which is durable by itself, `index` the nodes in memory,
`image[c]` what the persist under way will write, `disk` what the last complete
persist wrote, `torn` whether the files are truncated. `delete` has the same steps.
Any step under the lock may raise, an insertion half-way. A crash loses the memory
and the calls that run; a restart loads `disk`, and does not succeed on files that
are cut short. `removed` is a history variable that the properties and the contract
use.

- `ingest_index`: the three strategies, a request of two files and one of one
  file, one delete call, one crash. The lock is held by exactly the call that
  changes the index (`OneAtATime`); outside the lock the vector store and the index
  differ only on files whose own ingestion or deletion failed or was cut off
  (`StoresAgree`); what a delete call removed does not come back
  (`DeletedStayDeleted`); what returned is on disk and survives a restart
  (`ReturnedSurvive`); the strategies implement `IngestContract`; calls end.

Two requests, one with two files, are enough for two saves to compete within a
request and between requests; a second crash would only repeat the first, because
all calls that ran have ended by then.

## 5. Queued ingestion: IngestQueue

`pc[u]` follows the request of upload `u` through store_document (S3, then the row),
queue_ingestion, and the fallback that ingests within the request. `msg[u]` and
`receives[u]` are SQS's view of its message; `work`, `job`, `receipt` are the
workers, one per process (a worker opens its SQS client once, before it polls: `Open`,
`OpenFails`); `copies[u]` counts the ingestions of `u`, because every
ingestion makes documents with fresh ids. Every remote call may fail before or
after it took effect. Visibility timeouts pass at any time, busy worker or not, and
deleting with an old receipt may or may not delete, as SQS documents. Stop is the
shutdown (cancelled after five seconds) or a crash; a thread that ingests may still
get to its end.

- `ingest_queue`: a file and a text, two workers, two deliveries before the dead
  letter queue, one stop, every configuration of storage and queue.
  Acknowledged messages were ingested (`DeletedWereIngested`), a queued key has its
  object and row (`JobsAreStored`), what a request answered it has ingested
  (`AnsweredWereIngested`), duplicates are bounded by deliveries
  (`CopiesArePaidFor`), and no message stays in the queue for ever: in the end it
  is deleted or dead, unless every process has lost its worker (`JobsSettle`). The
  client is opened outside of the try and of the loop (ingest_consumer.py:44). If
  that raises, the task is over, the process lives on without a worker (`unopened`),
  and only its next start tries again: where this happens to every process and none
  is started again, the jobs stay queued. `JobsSettle` names this as its one
  exception.
- `ingest_queue_lost` (violation of `NoJobIsDropped`): with SQS and without S3 or
  Postgres a file is queued without its content; the worker deletes the message
  with a warning, and the upload is gone, not in the dead letter queue.

Two deliveries are the least with a redelivery; two workers are what it takes for
one to delete a message another has received again. The uploads do not interact
but through the workers. The model also shows that a request whose message was
queued always ends in an error, because IngestedDoc is built without a required
field; this is in the action `Send` and no property is stated about it.

## 6. RAG pipeline: LlmBreaker

The breaker of the process (`circuit`, `failures`, `elapsed`, `lock`) follows
pybreaker: its lock is held during the call. `run` retries around the breaker, so
each attempt counts and a refusal is retried like a failure; `stream_run` is inside
it. `_verify_faithfulness` calls the LLM past the breaker. `healthy` is the LLM,
which goes down and comes back at any time. `streak` is a history variable: LLM
calls that failed in a row.

- `llm_breaker`: two threads in `run`, one in `stream_run`, `fail_max` 5 and three
  attempts as in the code. One call at a time (`OneCallAtATime`), only a probe
  closes an open circuit (`OnlyAProbeCloses`), requests end (`RequestsEnd`), and once
  the LLM is up the circuit closes if requests keep coming (`Recovers`).
- `llm_breaker_failures` (violation of `FailuresOpen`): five calls in a row have
  failed and the circuit is closed.

## 7. Rate limiter: RateLimiter

A request reads the clock, increments the counter of that window and, if it was the
first, sets the expiry; it may be delayed between these steps, and each command may
fail with or without effect. `prompt` and `orphans` are history variables.

- `rate_limiter`: four requests of one client, limit two, windows of three seconds,
  clock up to eight (`MaxTime`), symmetric in the requests. `LimitHolds`: of the
  requests counted within their window no more than the limit pass.
  `CountersExpire`: a counter without an expiry is about to get one, or a failure
  kept it from being set. Twice the limit is enough to fill a window and be refused
  in it; three windows are enough for a delayed request to meet an expired counter.

## 8. Authentication and database sessions: AuthSession

| state | code |
|---|---|
| `users`, `committed` | the committed rows: users with the columns the code branches on, and the other tables as a set of rows named by whom they are of |
| `wrote`, `lock` | the transaction of a request: what it has written, and the user rows it has changed |
| `conns` | the connections it has taken from the pool of `pool_size + max_overflow` |
| `pc`, `req`, `who`, `answer` | the next statement, the request, the user it acts as, the response |
| `admin` | AdminService.deactivateUser, between its read and its save |

Each statement is a step; between two of them other requests run.
`_build_auth_service` returns the service out of `async with db.get_session()`:
the session is committed and closed before the service has run a statement
(`BuildAuthService`), and the transaction that its first statement begins is closed
by nobody. Its connection and its row locks stay until the garbage collector finds
the session (`Collect`), which rolls it back. `get_current_principal` and
`create_api_key` read in managed sessions of their own, which do give their
connection back. At READ COMMITTED an UPDATE waits for whoever has changed the row,
an INSERT for whoever has inserted the same address (`TakeRow`). A request that
waits for a connection may time out, every statement may fail. Clients send
passwords, tokens and keys that are right or wrong; a right token or key is one that
another request was answered with.

- `auth`: three requests of any kind, one address, a deactivation, a pool of two.
  Although connections and rows are held past the end of the requests, no wait is
  circular, and a row is held only by a session that has its connection, so that the
  collector comes to it (`NobodyWaitsHolding`); nobody acts as a user who has not been answered
  tokens for the right password (`PrincipalsAreEarned`); every request is answered
  (`RequestsAreAnswered`) and a deactivation gets past the logins that hold its row
  (`DeactivationsComplete`).
- `auth_lost` (violation of `AnsweredIsStored`): a registration is answered 201 and
  its row is in no committed transaction.

One address is enough, because rows of different addresses do not compete, and it is
where they do: two registrations meet in the unique index, two logins at the row.
Three requests exceed the pool by one and give the chain login, use of the token,
and a competitor. The counter in memory is ahead of the row by one, so the lockout
is decided one attempt early; but it is decided in a transaction that is lost, like
the increment, so that with the code's limit of 5 the row's counter stays at 0 and
nobody is locked out. A limit (`MaxFailedAttempts`) of 2 makes the run take the
lockout branch. The roles, readonly and user, are the two sides of the one role
check. As nothing is ever committed, no refresh token is found: the rotation behind
`FindToken` is not reached and has no model, and `logout` finds no token to revoke.

## 9. Answers: the UI, chat and retrieval

The UI object is one for all browsers. The queue of Gradio runs one execution of a
handler at a time and different handlers beside each other, so there are three
actors, `chat`, `upload` and `deletion`, and the handlers that are one assignment
(selecting, de-selecting a file) between any two of their steps.

| state | code |
|---|---|
| `present`, `name`, `nextDoc` | the documents in the index, the file each was made of, the next id: every ingestion gives fresh ids |
| `corpus` | what the BM25 retriever read when the application started |
| `selected` | `_selected_filename`; the system prompt, shared too, is any of the modes' at each request |
| `llm` | mode and prompt style, read at the start |
| `chat` | the request of the UI or the API: its kind, stage, messages, filter and sources; `gone` is a history variable, the documents deleted before the question |
| `upload`, `deletion` | `_upload_file` between its deletions and its ingestion, and the two delete handlers between their items |
| `response`, `received`, `buffer`, `read_pos`, `deltas`, `reader` | `LineStream`: LineIterator and the deltas made of its lines |

The filter of the UI is a check of the selection, a list of the documents, and a
comparison of each with the selection as it is then: three reads (`ReadSelection`,
`FilterDoc`). A deletion takes its list once and reads the selection for each item.
Prompts are sequences of segments, a segment being a role and a text, a text a
sequence of the strings it is joined from (`Words`, `Prompts`). A retriever is the set of the results it may
return, since ties are broken by nothing the code says (`Retrieval`).

- `answers`: what is searched or summarised under a list of documents, the selection
  of the UI or the filter of an API request, comes from documents of that list
  (`FiltersHold`, with two exclusions: see below), no answer rests on a document
  deleted before the question (`AnswersAreCurrent`), a file name has one document at
  the most after uploads and deletions of the UI in any order (`NamesAreReplaced`),
  deltas are the visible tokens, each once and in order, wherever the pieces were cut,
  and the iterator loops without end on cut responses only (`DeltasAddUp`), and every
  request ends (`ChatsEnd`). Over bounded inputs, the merge of the two searches never
  leaves out a node better in both for one it returns (`MergeRespectsRanks`), and
  every prompt style tells the model the system prompt and the context it has a place
  for, then the turns of the conversation in their order and the question, nothing
  twice and nothing else, and leaves the answer to the model (`EveryStyleAsks`, with
  two exclusions: see below).

Bounds: two ids, one given at the start; two files; requests one at a time, since
they share nothing but what uploads, deletions and selections change; histories of
no turn and of an unanswered one in the running system, and every conversation of up
to three turns (unanswered, answered, answered with sources) for all prompt styles
with `HistoryMax` 2 for the code's 20, so that one conversation in three is cut;
three nodes with scores 0 to 2, the least that tells a tie, a
middle and a best apart; responses of two tokens, one whole and one that stops
within a line. Two ids allow one upload, of the file there is (which replaces it) or
of the other; both handlers and the question can then meet in every order.

What the models show of the code, and the properties do not speak of:

- An empty list of documents means no list (vector_store_component.py:25-27,
  summarize_service.py:60): the answer rests on all files, although the router says
  to remove `context_filter` altogether for that (chat_router.py:74-75).
  `FiltersHold` excludes the empty list by name.
- The UI reads the selection once for every document (ui.py:274). If another browser
  selects meanwhile, the list mixes two files; if the selected file has no document
  any more, or the selection is given up, it comes out empty, and everything is
  searched. The mode Search ignores the selection. So "Get contextualized answers from
  selected files." and "Find relevant chunks of text in selected files."
  (ui.py:335, 337) are not what the code does in these cases. The models take
  these steps (`SelectedAFile` between two `FilterDoc`, `FirstStage`); no property is
  stated, since one that held would have to allow all of them.
- `_chat` keeps the first 20 turns, not the last (`Kept`).
- An upload deletes what it replaces first; if it then fails, neither the old nor the
  new file is there (`UploadFails`).
- Chat with context and without stream hands neither the filter nor the history to
  the pipeline (chat_service.py:200), and raises for any source, since it builds
  `Chunk` without its required fields (`ChunksValid`): it succeeds without sources
  only. `FiltersHold` excludes it by name, as it would hold for that reason alone;
  `AnswersAreCurrent` does hold there for that reason, although BM25 is stale.
- Llama 2 refuses a conversation with an unanswered turn (prompt_helper.py:109, 126).
  ChatML leaves out the assistant's answers, although a style is to format the session
  of user and assistant (prompt_helper.py:14-21). `EveryStyleAsks` requires neither
  that ChatML tells the answers nor that it does not, and asks nothing of Llama 2
  where it refuses.
- A SageMaker response whose last line has no newline makes the iterator loop
  without end; `ChatsEnd` excludes it by name.

## 10. Fairness

Safety runs assume none. Where liveness is checked:

- pipeline and index: weak fairness of each thread. They are operating system
  threads; nothing is asked of the order in which they win a queue or a lock.
- queue: weak fairness of a request, of a worker that polls, works or is started
  again after it stopped (the deployment restarts it), and of visibility timeouts.
  Nothing is asked of failures: they may happen every time. In particular a worker
  whose client cannot be opened is not started again as long as its process lives.
- breaker: strong fairness of each thread, because a thread that finds the lock
  taken again and again must in the end get it, which a fair lock gives and
  Python's scheduler gives in practice; weak fairness of the reset timeout. None
  of the LLM: `Recovers` assumes in its statement that it stays up and that
  requests keep coming.
- auth: weak fairness of each request, its next step or the collection of its
  session (the event loop runs every task on, the collector runs again and again),
  and of the save of a deactivation. None of failures, timeouts or new requests.
- answers: weak fairness of the steps of the request. None of uploads, deletions,
  selections or failures: a request ends whether or not they go on.

## 11. Proofs

All theorems hold for every value of the constants that satisfies the named
assumptions of the modules (positive sizes, requests with different files, names
that are distinct); TLC evaluates these assumptions in the runs.

- `IngestPipelineProofs`: `FlushInvariant`, `TypeCorrect`,
  `TasksAlwaysAccounted`, `PermitsAlwaysAccounted`, `ReturnedAlwaysSettled`. The
  last of these is not inductive. `join` waits for the whole queue, so a request may pass
  `join_doc` only when the count is zero, and by `TasksAccounted` nothing is then
  upstream of node_q; from there on, every file of the request that is in `node_q`
  or in the stacks has a flush command behind it (`FlushBehind`). The invariant
  `FlushInv` says this for each position of a request (`Flushing`), together with
  the fact that a file is at one place at a time (`OnceEach`) and with the counts
  (`Counts`). That the counters stay
  natural numbers rests on the counts, which is why types and counts are proved
  together.

  `NobodyIsEverStuck` follows the waits from one thread to the next, and finds no way
  back. The writer waits for nobody but an empty `node_q`; so what is in `node_q` is
  taken (`NodesAreTaken`), a job that waits for a place there gets one
  (`JobsAreDone`), a permit that is out is with such a job, by `PermitsAccounted`, and
  a command in `doc_q` is taken (`DocsAreTaken`). A request waits for a place in one of
  the queues, or in a join for a count that is not zero, and then, by
  `TasksAccounted`, there is somebody in front of it who goes on.

  `StacksAlwaysAgree` needs only the writer: it is below the threshold from the end
  of one task to the next (`StackInv`).

  `ReturnedAlwaysDurable` and `PipelineImplementsContract` say that nothing is lost
  but what was logged or failed to embed. A file of a request is still to be
  submitted, with a worker, on its way through `node_q` and the stacks, or settled: on
  disk, logged or its embedding raised (`NothingLost`). A save must not lose what an
  earlier one wrote, although it opens the files and may raise in the middle: the
  index in memory holds everything that was ever persisted, the snapshot that is being
  written contains what is on disk and what the writer is about to clear, and the
  files are torn only in that step or after a save that was logged (`SaveInv`). All of
  this fails as soon as somebody deletes, because the writer does not take the lock of
  the delete calls (the finding of section 3). The invariant is therefore conditional
  (`DurableInv`), and both theorems speak of every behaviour up to its first delete
  call; where nobody ever deletes, the refinement holds without a condition
  (`PipelineKeepsContract`).
- `IngestIndexProofs`: `IndexTypeCorrect`, `IndexIsLocked`, `DeletionsAreFinal`.
  A deleted file could come back from a save that has yet to add it, or from a
  persist that has already taken its content. The invariant `IndexInv` excludes
  the first (`AddedOnce`: a file for which a delete call was made has been added by
  its only batch) and the second (`ImageCurrent`: while a persist is under way the
  index does not change), and says what each step of a delete has removed
  (`DeleteProgress`). A crash keeps it because the index is then what is on disk.

  `StoresDifferOnFailures`, `SavedFilesSurvive` and `StrategiesImplementContract`
  hold with any number of saves, delete calls and crashes. No transaction spans the
  vector store, the index and the files, so `StoreInv` follows a call from one to the
  next: where two of them differ, a call is between them or did not end
  (`StoresApart`, `DiskApart`), a save has what its step says (`SaveProgress`), and a
  file leaves only by a delete call, for good (`RemovedGone`). The last is what lets
  a save persist the whole index and still be a `Persist` of the contract, which may
  not add a removed file.
- `IngestQueueProofs`: `QueueTypeCorrect`, `AcknowledgedWereIngested`,
  `QueuedWereStored`, `FallbackWasIngested`. The invariant `QueueInv` adds that a
  message is sent once and counted when it is delivered (`Counted`), that put and
  insert come before send (`Stored`), that a file is read from its start
  (`Rewound`), that a busy worker has a job that was sent (`Working`), and that a
  worker comes to the deletion by way of the ingestion (`IngestedFirst`). Two
  frame lemmas say what requests and workers leave alone.

  `CopiesAlwaysPaidFor` and `CopiesAreBounded` count: the copies of an upload, the
  workers that may still make one and the request that has fallen back
  (`Pending`) are no more than its deliveries and its fallback (`Paid`). That the
  request falls back only once, from `send`, is part of the invariant; of the set of
  busy workers it only needs that it is finite, although `Workers` need not be.
- `LlmBreakerProofs`: `BreakerTypeCorrect`, `OneCallThroughTheBreaker`,
  `OpenCircuitIsProbed`, `RequestsAreBounded`. Who holds the lock was let through, so
  the circuit is not open while a call is under way (`HolderNotOpen`). The last
  theorem counts the steps a request has left (`StepsLeft`): each of its own leaves
  fewer and those of others change nothing, so the retries end after `MaxAttempts`
  calls whatever the breaker answers.
- `RateLimiterProofs`: `LimiterTypeCorrect`, `LimitAlwaysHolds`,
  `CountersAlwaysExpire`, for every length of the window and every limit. The
  counter bounds those let through only as long as it lives, so `Counting` says both:
  until the window is over the counter is at least the number of requests counted in
  time, and an expiry, once set, is not before the end of the window. The latter is
  arithmetic: the expiry is set from a time within the window.
- `AuthSessionProofs`: `AuthTypeCorrect`, `NothingIsCommitted`,
  `NobodyEverWaitsHolding`, `PrincipalsAlwaysEarned`, for every number of requests,
  addresses and connections. `SessionAt` says what the session of a request holds at
  each step: nothing until the first statement, no row until the first write, and no
  row without its connection. It
  rests on the one commit coming before the service has written (`NothingCommitted`),
  which also means that no key is ever found. `AskedAt` ties the steps to the
  endpoints, and `TokensAt` follows a principal back to the login it comes from: a
  bearer token is one that was answered, its answer does not change, and the account
  does not go away, it is only deactivated (`StatusStays`).
- `PromptsProofs`: `EveryHistoryAsks`, for every history, system prompt, context and
  style, with the two exclusions of `EveryStyleAsks` (section 9). The styles are loops over the messages, folds in the model, so this takes
  induction; no induction rule of the library can be instantiated here, but a set of
  numbers has a least element (`LeastNumber`, from the well-foundedness of `<`), and
  applied to the set of lengths for which a statement fails this is induction on
  numbers (`Induction`) and on sequences (`InductionOnSequences`). A loop over two
  sequences is then two loops and a loop over what a loop has made is one loop
  (`FlatMapConcat`, `FlatMapFlatten`). There is one lemma per style: it tells every
  message, in order, and does not end with an answer. Mistral needs an invariant of
  its loop: what is written and what waits in `inst_buffer` are together all that was
  said (`MistralKeeps`). Llama 2 asks that questions and answers alternate, which
  they do if every question was answered (`HistoryAlternates`). On the other side,
  the UI's messages are what the history says (`HistoryTells`), and the engine, which
  takes them apart and puts them together again, adds the context and loses nothing
  (`EngineKeeps`).
- `AnswersProofs`: `AnswersTypeCorrect`, `FiltersAreKept`, `DeletedIsNotCited`,
  `UploadsReplace`, `RanksAlwaysRespected`, `DeltasAlwaysAddUp`,
  `EveryStyleAlwaysAsks`, for every finite set of files, every bound on the ids and
  responses of any length. That the sources are on the list needs that they are taken
  after it, and that nothing is put on it then (`SourcesFiltered`). That a document
  deleted before the question is not cited needs that it does not come back: ids are
  not given twice, so what is gone stays gone (`GoneForGood`). That names are replaced
  needs the upload between its deletions and its ingestion: whatever is present under
  one of its names is still on its list (`Replacing`), although a deletion runs beside
  it.

  `NothingIsLeftOut` is about the merge of the two searches. Normalisation keeps the
  order of scores (`NormalizeKeepsOrder`): the minimum and the maximum of a list exist
  because a set of numbers has a least element, and dividing by the range is exact
  because it divides `Scale`, the assumption that stands for real division. So a node
  that is better in a list adds more to the combined score, and one that is better in
  both cannot be cut. The invariant of the line reader is `LineInv`: the reader stands
  at the end of the data line or of the empty line of an event (`ReadUpTo`), whatever
  has arrived behind it; the next newline then decides what the next line is
  (`NextLineIs`), and a whole response has one wherever something is left
  (`WholeHasLine`).

Only model-checked: the liveness properties (`CallsEnd`, `JobsSettle`,
`RequestsEnd`, `Recovers`, `RequestsAreAnswered`, `DeactivationsComplete`,
`ChatsEnd`), since fairness is out of the prover's reach. Of some of them the part
that is not about fairness is proved: nobody waits for ever for one who waits
(`NobodyIsEverStuck`, `NobodyEverWaitsHolding`), a request of the RAG pipeline has a
bounded number of steps (`RequestsAreBounded`), and the line iterator does not turn
without end on a whole response (`DeltasAlwaysAddUp`). Every other property of the
runs is a theorem.

## 12. Not modelled

- ConversationCache, SessionCache and EmbeddingCache: nothing in the repository
  calls them. `append` of the first reads, adds and writes back, and would lose one of
  two messages, but which calls may meet cannot be read off this code.
- The rotation of refresh tokens (section 8): no token is ever found.
- LLM adapters other than SageMaker and the prompt styles: constructors of library
  classes. `completion_to_prompt` is called by the libraries for single prompts.
- Settings, dependency injection and application start; secrets; observability and
  health; PII masking; the embeddings endpoint, the folder watcher, the RAG
  evaluator: data read once, pure I/O, text, or one call each. PROJECT.json names
  the reason for each.
- The choice of the Ollama model in the UI changes a setting that is not read again.
- Node and index stores in Postgres, and vector stores that are not durable by
  themselves: the models take the default configuration.
- The retention period of the queue, after which SQS drops messages; clock skew
  between processes in the rate limiter; the durations of waits.
- The Java services, but for the deactivation in `AuthSession`, and the deployment,
  but for the queue's visibility timeout and redrive policy.

- AutoMergingRetriever, which stands around the hybrid retriever
  (rag_pipeline.py:49-53): it exchanges chunks for the larger chunk of the same
  document that holds them, read from the docstore. The documents of an answer stay
  what they are, and where it raises, `run` makes that an answer without sources, which
  `PipelineRun` has.
- In `Answers`, ingestion by the API: it replaces nothing, so it could add a second
  document of a name, and `NamesAreReplaced` speaks of the uploads and deletions of the
  UI only.

Nine hazards of PROJECT.json have no property; the models take their steps. A crash
within a persist leaves files that stop the next start (in `IngestIndex` the process
is then down for good). A request whose message is queued fails nevertheless
(`Send`), so a client that tries again queues the file twice. A worker whose client
cannot be opened never polls (`OpenFails`). A failing INCR or EXPIRE lets requests
through or leaves a counter without expiry (`IncrFails`, `ExpireFails`):
`CountersExpire` excuses these counters. And five of section 9: the failed upload, the
selection read again for each document, the empty list, the filter that chat drops, and
what Llama 2 and ChatML do to a conversation. In each of these the code promises no
more, or a property would either be violated or hold for a reason of no interest; the
note of each says which.

## 13. Running

In this directory: `tlc -config MCIngestIndex.cfg MCIngestIndex` (and so on for each
of the twelve `MC*.cfg`, with the module whose name the file's name begins with), and
`tlapm IngestIndexProofs.tla` for each `*Proofs` module. `PROJECT.json` lists the
runs, the lines each definition models, the findings, the hazards with the
properties that cover them, the theorems, and for every property a change of the
code it detects.
