------------------------------ MODULE Answers ------------------------------
(***************************************************************************)
(* The chat of the UI and of the API over documents that come and go: the  *)
(* handlers of ui.py, chat_router.py, completions_router.py,               *)
(* chunks_router.py and summarize_router.py with the services behind them. *)
(*                                                                         *)
(* The UI object is one for all browsers, and so are the selected file and *)
(* the system prompt it keeps.  The queue of Gradio runs one execution of  *)
(* a handler at a time and different handlers beside each other: chat,     *)
(* upload and deletion are three actors, and the handlers that are one     *)
(* assignment (select, de-select) fall between any two of their steps.     *)
(* Requests share nothing but what these handlers change, hence one        *)
(* request at a time, of the UI or of the API.                             *)
(*                                                                         *)
(* A document is what one ingestion made of a file, its pages not told     *)
(* apart; a chunk knows the id of its document and the name of the file.   *)
(* An ingestion and a deletion are one step here (IngestIndex has their    *)
(* inside).                                                                *)
(***************************************************************************)
EXTENDS Prompts, Retrieval, LineStream

CONSTANTS
    Docs,           \* ids, 1 .. n, in the order in which they are given
    Files,          \* file names
    NoFile,         \* None
    Llms,           \* [mode, style]: the configurations of the model
    ModePrompt,     \* the default system prompt of each mode
    Histories,      \* the histories a browser or a client may send
    ChunksPerDoc    \* the chain of chunks of a document

ASSUME AnswersAssumption ==
    /\ IsFiniteSet(Docs) /\ Docs # {} /\ Docs = 1 .. Cardinality(Docs)
    /\ IsFiniteSet(Files) /\ Files # {} /\ NoFile \notin Files

VARIABLES
    present,        \* the documents in the index
    name,           \* name[d]: file_name of d, also after its deletion
    nextDoc,        \* the next id
    corpus,         \* the documents the BM25 retriever has read
    selected,       \* _selected_filename
    llm,            \* settings.llm, read when the application starts
    chat,           \* the request
    upload,         \* _upload_file
    deletion        \* _delete_all_files or _delete_selected_file

indexVars == <<present, name, nextDoc>>
fixed == <<corpus, llm>>    \* read when the application starts
vars == <<present, name, nextDoc, corpus, llm, selected, chat, upload,
         deletion, lineVars>>

Modes == {"RAG", "Search", "Basic", "Summarize"}

Stages == {"idle", "select", "filter", "retrieve", "run", "siblings", "documents",
           "nodes", "prompt", "stream", "done", "failed"}

\* The system prompt belongs to the UI object: every browser that changes its
\* mode or its prompt sets it, and a request reads what is there.
SystemPrompts == {ModePrompt[m] : m \in Modes} \cup {NoText}

NoChat == [kind |-> "none", stage |-> "idle", context |-> FALSE,
           messages |-> << >>, filter |-> NoFilter, todo |-> {},
           sources |-> {}, gone |-> {}]

Failed == [NoChat EXCEPT !.stage = "failed"]

NoJob == [stage |-> "idle", files |-> {}, todo |-> {}]

Given == 1 .. nextDoc - 1    \* the ids given so far

ChatOK ==
    chat \in [kind : Modes \cup {"none", "stream", "chat", "chunks"}, stage : Stages,
              context : BOOLEAN, messages : {chat.messages},
              filter : {NoFilter} \cup SUBSET Given, todo : SUBSET Given,
              sources : SUBSET Given, gone : SUBSET Given]

IndexOK ==
    /\ nextDoc \in Nat \ {0} /\ Given \subseteq Docs /\ present \subseteq Given
    /\ name \in [Docs -> Files \cup {NoFile}]
    /\ \A d \in Docs : name[d] = NoFile <=> d >= nextDoc
    /\ corpus \subseteq Docs
    /\ selected \in Files \cup {NoFile}
    /\ llm \in Llms

JobsOK ==
    /\ upload \in [stage : {"idle", "delete"}, files : SUBSET Files, todo : SUBSET Given]
    /\ deletion \in [stage : {"idle", "all", "selected"}, files : {{}}, todo : SUBSET Given]

ReaderOK == (reader # "off") <=> (chat.stage = "stream" /\ llm.mode = "sagemaker")

TypeOK == IndexOK /\ ChatOK /\ JobsOK /\ ReaderOK

ListIngested == present

\* IngestService.delete
Delete(d) == present' = present \ {d}

\* The application starts over what was ingested before.  If the docstore of
\* the index object is not the one the documents are in, BM25 finds nothing:
\* that is the search in which every score is 0.
Init ==
    /\ present = {1}
    /\ nextDoc = 2
    /\ name = [d \in Docs |-> IF d = 1 THEN CHOOSE f \in Files : TRUE ELSE NoFile]
    /\ corpus = InitializeBm25(present)
    /\ selected = NoFile
    /\ llm \in Llms
    /\ chat = NoChat
    /\ upload = NoJob /\ deletion = NoJob
    /\ LineInit

(***************************************************************************)
(* Handlers that are one assignment.                                       *)
(***************************************************************************)
SelectedAFile ==
    /\ \E f \in {name[d] : d \in Given} : selected' = f
    /\ UNCHANGED <<indexVars, fixed, chat, upload, deletion, lineVars>>

DeselectSelectedFile ==
    /\ selected' = NoFile
    /\ UNCHANGED <<indexVars, fixed, chat, upload, deletion, lineVars>>

(***************************************************************************)
(* Upload: replace the documents of the same names.  The ids are bounded   *)
(* by Docs.                                                                *)
(***************************************************************************)
\* Mutant: nothing is replaced.
UploadBeside ==
    /\ upload.stage = "idle"
    /\ \E files \in (SUBSET Files) \ {{}} :
        /\ nextDoc - 1 + Cardinality(files) \in Docs
        /\ upload' = [stage |-> "delete", files |-> files, todo |-> {}]
    /\ UNCHANGED <<indexVars, fixed, selected, chat, deletion, lineVars>>

UploadFile ==
    /\ upload.stage = "idle"
    /\ \E files \in (SUBSET Files) \ {{}} :
        /\ nextDoc - 1 + Cardinality(files) \in Docs
        /\ upload' = [stage |-> "delete", files |-> files,
                      todo |-> {d \in ListIngested : name[d] \in files}]
    /\ UNCHANGED <<indexVars, fixed, selected, chat, deletion, lineVars>>

UploadDeletes ==
    /\ upload.stage = "delete" /\ upload.todo # {}
    /\ LET d == Min(upload.todo)
       IN  /\ Delete(d)
           /\ upload' = [upload EXCEPT !.todo = @ \ {d}]
    /\ UNCHANGED <<name, nextDoc, fixed, selected, chat, deletion, lineVars>>

BulkIngest ==
    /\ upload.stage = "delete" /\ upload.todo = {}
    /\ LET new == nextDoc .. nextDoc - 1 + Cardinality(upload.files)
       IN  \E f \in [new -> upload.files] :
            /\ \A d, e \in new : d # e => f[d] # f[e]
            /\ name' = [d \in Docs |-> IF d \in new THEN f[d] ELSE name[d]]
            /\ present' = present \cup new
            /\ nextDoc' = nextDoc + Cardinality(new)
    /\ upload' = NoJob
    /\ UNCHANGED <<fixed, selected, chat, deletion, lineVars>>

\* What was deleted stays deleted.
UploadFails ==
    /\ upload.stage # "idle"
    /\ upload' = NoJob
    /\ UNCHANGED <<indexVars, fixed, selected, chat, deletion, lineVars>>

(***************************************************************************)
(* Deletion.  The list is taken once, the selection is read for each item. *)
(***************************************************************************)
DeleteAllFiles ==
    /\ deletion.stage = "idle"
    /\ deletion' = [NoJob EXCEPT !.stage = "all", !.todo = ListIngested]
    /\ UNCHANGED <<indexVars, fixed, selected, chat, upload, lineVars>>

DeleteSelectedFile ==
    /\ deletion.stage = "idle"
    /\ selected # NoFile
    /\ deletion' = [NoJob EXCEPT !.stage = "selected", !.todo = ListIngested]
    /\ UNCHANGED <<indexVars, fixed, selected, chat, upload, lineVars>>

DeleteNext ==
    /\ deletion.todo # {}
    /\ LET d == Min(deletion.todo)
       IN  /\ IF deletion.stage = "all" \/ name[d] = selected
              THEN Delete(d) ELSE UNCHANGED present
           /\ deletion' = [deletion EXCEPT !.todo = @ \ {d}]
    /\ UNCHANGED <<name, nextDoc, fixed, selected, chat, upload, lineVars>>

DeletionEnds ==
    /\ deletion.stage # "idle" /\ deletion.todo = {}
    /\ selected' = NoFile
    /\ deletion' = NoJob
    /\ UNCHANGED <<indexVars, fixed, chat, upload, lineVars>>

DeletionFails ==
    /\ deletion.stage # "idle"
    /\ deletion' = NoJob
    /\ UNCHANGED <<indexVars, fixed, selected, chat, upload, lineVars>>

(***************************************************************************)
(* Requests begin.                                                         *)
(***************************************************************************)
Gone == Given \ present

FirstStage(mode) ==
    CASE mode \in {"RAG", "Summarize"} -> "select"
      [] mode = "Search" -> "retrieve"
      [] mode = "Basic" -> "prompt"

Asked == {UiMessages(h, <<"q">>, p) : h \in Histories, p \in SystemPrompts}

Chat ==
    /\ chat.stage = "idle"
    /\ \E mode \in Modes :
        \E ms \in IF mode \in {"RAG", "Basic"} THEN Asked ELSE {<< >>} :
            chat' = [NoChat EXCEPT
                !.kind = mode,
                !.stage = FirstStage(mode),
                !.context = mode = "RAG",
                !.messages = ms,
                !.gone = Gone]
    /\ UNCHANGED <<indexVars, fixed, selected, upload, deletion, lineVars>>

ContextFilters == {NoFilter} \cup SUBSET Given

ApiMessages ==
    {CompletionMessages(<<"q">>, p) : p \in SystemPrompts}
        \cup {UiMessages(h, <<"q">>, NoText) : h \in Histories}

\* chat with context takes the RAG pipeline, which is given the last message
\* and nothing else; prompt_completion calls chat_completion with
\* CompletionMessages.
ChatCompletion ==
    /\ chat.stage = "idle"
    /\ \E stream, use_context \in BOOLEAN :
        \E filter \in IF use_context THEN ContextFilters ELSE {NoFilter},
           ms \in IF use_context /\ ~stream THEN {<< >>} ELSE ApiMessages :
            chat' = [NoChat EXCEPT
                !.kind = IF stream THEN "stream" ELSE "chat",
                !.stage = IF ~use_context THEN "prompt"
                          ELSE IF stream THEN "retrieve" ELSE "run",
                !.context = use_context,
                !.messages = ms,
                !.filter = filter,
                !.gone = Gone]
    /\ UNCHANGED <<indexVars, fixed, selected, upload, deletion, lineVars>>

ChunksRetrieval ==
    /\ chat.stage = "idle"
    /\ \E filter \in ContextFilters :
        chat' = [NoChat EXCEPT !.kind = "chunks", !.stage = "retrieve",
                               !.filter = filter, !.gone = Gone]
    /\ UNCHANGED <<indexVars, fixed, selected, upload, deletion, lineVars>>

\* A text of the client's own is summarised like the nodes of documents.
Summarize ==
    /\ chat.stage = "idle"
    /\ \E stream, use_context \in BOOLEAN :
        \E filter \in IF use_context THEN ContextFilters ELSE {NoFilter} :
            chat' = [NoChat EXCEPT
                !.kind = IF stream THEN "stream" ELSE "chat",
                !.stage = IF use_context THEN "documents" ELSE "nodes",
                !.filter = filter,
                !.gone = Gone]
    /\ UNCHANGED <<indexVars, fixed, selected, upload, deletion, lineVars>>

(***************************************************************************)
(* The filter of the UI: a check of the selection, a list of the           *)
(* documents, and a comparison with the selection for each of them.        *)
(***************************************************************************)
Selected == IF chat.kind = "Summarize" THEN "documents" ELSE "retrieve"

ReadSelection ==
    /\ chat.stage = "select"
    /\ chat' = IF selected = NoFile
               THEN [chat EXCEPT !.stage = Selected]
               ELSE [chat EXCEPT !.stage = IF ListIngested = {} THEN Selected
                                           ELSE "filter",
                                 !.todo = ListIngested, !.filter = {}]
    /\ UNCHANGED <<indexVars, fixed, selected, upload, deletion, lineVars>>

FilterDoc ==
    /\ chat.stage = "filter"
    /\ LET d == Min(chat.todo)
       IN  chat' = [chat EXCEPT
                !.todo = @ \ {d},
                !.stage = IF chat.todo = {d} THEN Selected ELSE @,
                !.filter = IF name[d] = selected THEN @ \cup {d} ELSE @]
    /\ UNCHANGED <<indexVars, fixed, selected, upload, deletion, lineVars>>

(***************************************************************************)
(* Retrieval.  The chat engine drops nodes by score and rank; a search     *)
(* returns some chunk if there is one.                                     *)
(***************************************************************************)
RetrieveNodes ==
    /\ chat.stage = "retrieve"
    /\ \E sources \in SUBSET Searched(chat.filter, present) :
        /\ chat.kind \in {"Search", "chunks"} /\ Searched(chat.filter, present) # {}
              => sources # {}
        /\ chat' = [chat EXCEPT
                !.sources = sources,
                !.stage = CASE chat.kind = "Search" -> "done"
                            [] chat.kind = "chunks" -> "siblings"
                            [] OTHER -> "prompt"]
    /\ UNCHANGED <<indexVars, fixed, selected, upload, deletion, lineVars>>

\* get_node raises for a chunk whose document was deleted meanwhile.
SiblingTexts ==
    /\ chat.stage = "siblings"
    /\ \E i \in 1 .. ChunksPerDoc, prev_next_chunks \in {0, 1} :
        LET lookups == SiblingNodes(i, ChunksPerDoc, prev_next_chunks, FALSE)
                          \o SiblingNodes(i, ChunksPerDoc, prev_next_chunks, TRUE)
        IN  chat' = IF lookups # << >> /\ ~(chat.sources \subseteq present)
                    THEN Failed ELSE [chat EXCEPT !.stage = "done"]
    /\ UNCHANGED <<indexVars, fixed, selected, upload, deletion, lineVars>>

\* Mutant: the chunks of chat pass the validation.
AnyChunks(sources) == TRUE

\* Chunk(content=, file_name=, page=, score=) lacks the required fields: it
\* raises for the first source.
ChunksValid(sources) == sources = {}

\* RagPipeline.run turns its own exceptions into an answer without sources.
PipelineRun ==
    /\ chat.stage = "run"
    /\ \E vector \in [present -> Scores], bm25 \in [corpus -> Scores] :
        \E sources \in GetNodes(vector, bm25) \cup {{}} :
            chat' = IF ChunksValid(sources)
                    THEN [chat EXCEPT !.sources = sources, !.stage = "done"]
                    ELSE Failed
    /\ UNCHANGED <<indexVars, fixed, selected, upload, deletion, lineVars>>

\* No documents at all: an error or an empty summary, as the store answers.
ListRefDocs ==
    /\ chat.stage = "documents"
    /\ \/ chat' = [chat EXCEPT !.sources = FilterRefDocs(present, chat.filter),
                                !.stage = "nodes"]
       \/ present = {} /\ chat' = Failed
    /\ UNCHANGED <<indexVars, fixed, selected, upload, deletion, lineVars>>

(***************************************************************************)
(* The model answers.  What was asked is forgotten once it is sent.        *)
(***************************************************************************)
Streaming == [NoChat EXCEPT !.stage = "stream"]

Answer ==
    /\ chat' = IF chat.kind = "chat" THEN [chat EXCEPT !.stage = "done"] ELSE Streaming
    /\ IF llm.mode = "sagemaker" /\ chat.kind # "chat"
       THEN \E r \in Responses : StreamComplete(r)
       ELSE UNCHANGED lineVars

SummaryNodes ==
    /\ chat.stage = "nodes"
    /\ IF chat.sources \subseteq present
       THEN Answer
       ELSE chat' = Failed /\ UNCHANGED lineVars
    /\ UNCHANGED <<indexVars, fixed, selected, upload, deletion>>

StreamChat ==
    /\ chat.stage = "prompt"
    /\ LET context == IF chat.context THEN <<"context">> ELSE Blank
           prompt == ChatPrompt(llm.mode, llm.style, EngineMessages(chat.messages, context))
       IN  IF prompt = Raises
           THEN chat' = Failed /\ UNCHANGED lineVars
           ELSE Answer
    /\ UNCHANGED <<indexVars, fixed, selected, upload, deletion>>

ReadStream ==
    /\ Reading
    /\ UNCHANGED <<indexVars, fixed, selected, chat, upload, deletion>>

\* yield_deltas ends and adds the sources; the stream of the API ends with
\* stop and [DONE].
DeltasEnd ==
    /\ chat.stage = "stream"
    /\ reader \in {"ended", "off"}
    /\ chat' = [NoChat EXCEPT !.stage = "done"]
    /\ StreamOff
    /\ UNCHANGED <<indexVars, fixed, selected, upload, deletion>>

\* Mutant: the reader of the broken stream is kept.
StreamRaisesKeeping ==
    /\ reader = "failed"
    /\ chat' = Failed
    /\ UNCHANGED <<indexVars, fixed, selected, upload, deletion, lineVars>>

StreamRaises ==
    /\ reader = "failed"
    /\ chat' = Failed
    /\ StreamOff
    /\ UNCHANGED <<indexVars, fixed, selected, upload, deletion>>

\* The vector store or the model raises.
RequestFails ==
    /\ \/ /\ chat.stage \in {"retrieve", "run", "documents", "nodes", "prompt"}
          /\ chat' = Failed
          /\ UNCHANGED lineVars
       \/ /\ StreamFails
          /\ UNCHANGED chat
    /\ UNCHANGED <<indexVars, fixed, selected, upload, deletion>>

Answered ==
    /\ chat.stage \in {"done", "failed"}
    /\ chat' = NoChat
    /\ UNCHANGED <<indexVars, fixed, selected, upload, deletion, lineVars>>

ChatStep ==
    \/ ReadSelection \/ FilterDoc \/ RetrieveNodes
    \/ SiblingTexts \/ PipelineRun \/ ListRefDocs \/ SummaryNodes \/ StreamChat
    \/ ReadStream \/ DeltasEnd \/ StreamRaises \/ Answered

UploadStep == UploadDeletes \/ BulkIngest
DeletionStep == DeleteNext \/ DeletionEnds

Next ==
    \/ SelectedAFile \/ DeselectSelectedFile
    \/ Chat \/ ChatCompletion \/ Summarize \/ ChunksRetrieval \/ ChatStep \/ RequestFails
    \/ UploadFile \/ UploadStep \/ UploadFails
    \/ DeleteAllFiles \/ DeleteSelectedFile \/ DeletionStep \/ DeletionFails

Spec == Init /\ [][Next]_vars

\* A request that has begun goes on, and the endpoint sends what it has.
FairSpec == Spec /\ WF_vars(ChatStep)

(***************************************************************************)
(* Properties.                                                             *)
(***************************************************************************)
\* The sources of the request are settled and it has not failed.
Settled == chat.stage \in {"siblings", "nodes", "prompt", "done"}

\* What is searched or summarised under a list of documents, the selection of
\* the UI or the filter of an API request, comes from documents of that list.
\* Two cases are out: an empty list, which restricts nothing although only a
\* filter that is left out should (chat_router.py:75), and chat with context
\* and without stream, which hands its filter to nobody (_doc_id_metadata_filter,
\* get_retriever, _filter_ref_docs, ChatService.chat).
FiltersHold ==
    /\ Settled
    /\ chat.filter \notin {NoFilter, {}}
    /\ ~(chat.kind = "chat" /\ chat.context)
    => chat.sources \subseteq chat.filter

\* No answer rests on a document that was deleted before the question was
\* asked, although the BM25 corpus is never read again
\* (_initialize_bm25, ChatService.chat).
AnswersAreCurrent == Settled => chat.sources \cap chat.gone = {}

\* After uploads and deletions of the UI in any order a file name has one
\* document at the most ("Replace docs with same filename", _upload_file).
\* Ingestion by the API is not among the actors: it replaces nothing, and
\* would add a second document of a name.
NamesAreReplaced == \A d, e \in present : name[d] = name[e] => d = e

\* The hybrid search of the pipeline never returns a node and leaves out one
\* that is better in both searches, although the two lists are cut, normalised
\* each on its own and ordered anew (HybridRetriever._retrieve).
MergeRespectsRanks == chat.stage = "run" => LeftOut = {}

\* Whatever the style of the model a request is for, with and without system
\* prompt and context, the model is told these first (the Llama styles have a
\* system prompt of their own for want of both), then the kept turns in their
\* order and then the question, each once and nothing else, the answers
\* without their sources, and is left to answer.  Two exclusions: of ChatML
\* nothing is required about the answers, which it leaves out although a style
\* formats the whole session (prompt_helper.py:14-21), and nothing of Llama 2
\* where it refuses a history with an unanswered question (_chat, from_messages,
\* stream_chat, _messages_to_prompt).
EveryStyleAsks == chat.stage = "prompt" => StylesThatAsk[chat.context] = Styles

\* Every request is answered or fails, whatever is selected, uploaded and
\* deleted meanwhile and whether or not those handlers end, unless the
\* response of the endpoint stops within a line (_chat,
\* LineIterator.__next__).
ChatsEnd == (chat.stage # "idle") ~> (chat.stage = "idle" \/ ~response.whole)

=============================================================================
