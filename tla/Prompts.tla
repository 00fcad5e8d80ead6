------------------------------ MODULE Prompts ------------------------------
(***************************************************************************)
(* From a conversation to the prompt of the model: the messages the UI and *)
(* the API build (ui.py, completions_router.py), what a chat engine is     *)
(* given (chat_service.py) and the prompt styles (prompt_helper.py).       *)
(*                                                                         *)
(* A text is a sequence of strings, the pieces it is joined from; the      *)
(* markers of a style are reduced to the role they announce, blanks and    *)
(* newlines are left out.  The style "default" leaves the messages to the  *)
(* library of the model.                                                   *)
(***************************************************************************)
EXTENDS Integers, Sequences, SequencesExt

CONSTANTS
    HistoryMax,   \* the 20 of _chat
    Blank,        \* no content
    Words,        \* the strings that texts are joined from
    Conversations \* the histories for which the prompts are checked

Texts == Seq(Words)
Turns == [question : Texts, shown : {Blank} \cup (Seq(Texts) \ {<< >>})]

ASSUME PromptsAssumption ==
    /\ HistoryMax \in Nat
    /\ {"default", "system", "context", "question"} \subseteq Words
    /\ Blank \notin Texts
    /\ Conversations \subseteq Seq(Turns)

NoText == << >>
DefaultSystem == <<"default">>

Message(role, text) == [role |-> role, text |-> text]
Segment(as, text) == [as |-> as, text |-> text]

\* The marker behind which the model writes its answer.
Cue == <<Segment("cue", NoText)>>

\* An assertion or a ValueError instead of a prompt.
Raises == <<Segment("error", NoText)>>

\* content or ""
Content(m) == IF m.text = Blank THEN NoText ELSE m.text

\* str(content)
Printed(m) == IF m.text = Blank THEN <<"None">> ELSE m.text

(***************************************************************************)
(* Messages.  A turn of the Gradio history has a question and what was     *)
(* shown: Blank, or the parts SOURCES_SEPARATOR splits it into.            *)
(***************************************************************************)
Kept(history) ==
    IF Len(history) <= HistoryMax THEN history ELSE SubSeq(history, 1, HistoryMax)

TurnMessages(turn) ==
    <<Message("user", turn.question)>>
        \o (IF turn.shown = Blank
            THEN << >>
            ELSE <<Message("assistant", Head(turn.shown))>>)

SystemMessage(system) ==
    IF system \in {Blank, NoText} THEN << >> ELSE <<Message("system", system)>>

UiMessages(history, question, system) ==
    SystemMessage(system)
        \o FlattenSeq([i \in DOMAIN Kept(history) |-> TurnMessages(history[i])])
        \o <<Message("user", question)>>

CompletionMessages(prompt, system) ==
    SystemMessage(system) \o <<Message("user", prompt)>>

\* Mutant: the question stays in the history.
FromMessagesKeeping(ms) ==
    LET hasSystem == ms # << >> /\ Head(ms).role = "system"
    IN  [system_message |-> IF hasSystem THEN Head(ms).text ELSE Blank,
         last_message   |-> IF ms # << >> /\ Last(ms).role = "user"
                            THEN Last(ms).text ELSE Blank,
         chat_history   |-> IF hasSystem THEN Tail(ms) ELSE ms]

FromMessages(ms) ==
    LET hasSystem == ms # << >> /\ Head(ms).role = "system"
        hasLast == ms # << >> /\ Last(ms).role = "user"
        unled == IF hasSystem THEN Tail(ms) ELSE ms
    IN  [system_message |-> IF hasSystem THEN Head(ms).text ELSE Blank,
         last_message   |-> IF hasLast THEN Last(ms).text ELSE Blank,
         chat_history   |-> IF hasLast THEN Front(unled) ELSE unled]

\* What SimpleChatEngine (no context) and ContextChatEngine send.
EngineMessages(ms, context) ==
    LET input == FromMessages(ms)
        system == IF input.system_message = Blank THEN NoText ELSE input.system_message
    IN  SystemMessage(IF context = Blank THEN system ELSE system \o context)
            \o input.chat_history
            \o <<Message("user", IF input.last_message = Blank
                                 THEN NoText ELSE input.last_message)>>

(***************************************************************************)
(* Prompt styles.                                                          *)
(***************************************************************************)
Llama2(ms) ==
    LET led == Head(ms).role = "system"
        system == IF led THEN Content(Head(ms)) ELSE DefaultSystem
        rest == IF led THEN Tail(ms) ELSE ms
        expected(i) == IF i % 2 = 1 THEN "user" ELSE "assistant"
    IN  IF \E i \in DOMAIN rest : rest[i].role # expected(i)
        THEN Raises
        ELSE IF rest = << >>
             THEN << >>
             ELSE <<Segment("system", system)>>
                    \o [i \in DOMAIN rest |-> Segment(rest[i].role, Printed(rest[i]))]

Llama3(ms) ==
    LET written(i) ==
            IF ms[i].text = Blank
            THEN << >>
            ELSE <<Segment(ms[i].role, ms[i].text)>>
                    \o (IF i = Len(ms) /\ ms[i].role # "assistant" THEN Cue ELSE << >>)
        prompt == FlattenSeq([i \in DOMAIN ms |-> written(i)])
    IN  IF \E i \in DOMAIN ms : ms[i].role = "system" /\ ms[i].text # Blank
        THEN prompt
        ELSE <<Segment("system", DefaultSystem)>> \o prompt

Tag(ms) == [i \in DOMAIN ms |-> Segment(ms[i].role, Content(ms[i]))] \o Cue

\* System and user messages wait in inst_buffer for the next answer.
Mistral(ms) ==
    LET answers == {j \in DOMAIN ms : ms[j].role = "assistant"}
        inst_buffer(i) ==    \* before message i
            FlattenSeq([j \in 1 .. i - 1 |->
                IF answers \cap (j .. i - 1) = {} THEN Printed(ms[j]) ELSE << >>])
        inst(i) == <<Segment("user", inst_buffer(i))>>
        written(i) == IF i \in answers
                      THEN inst(i) \o <<Segment("assistant", Printed(ms[i]))>>
                      ELSE << >>
        end == Len(ms) + 1
    IN  FlattenSeq([i \in DOMAIN ms |-> written(i)])
            \o (IF inst_buffer(end) = << >> THEN << >> ELSE inst(end))

\* Answers of the assistant are left out; a system message adds its text to
\* whatever is open.
ChatML(ms) ==
    LET written(m) ==
            CASE m.role = "system" -> <<Segment("text", Content(m))>>
              [] m.role = "user" -> <<Segment("user", Content(m))>>
              [] OTHER -> << >>
    IN  <<Segment("system", NoText)>>
            \o FlattenSeq([i \in DOMAIN ms |-> written(ms[i])]) \o Cue

AsTheyAre(ms) == [i \in DOMAIN ms |-> Segment(ms[i].role, Content(ms[i]))]

Styles == {"default", "llama2", "llama3", "tag", "mistral", "chatml"}

GetPromptStyle(style, ms) ==
    CASE style = "llama2" -> Llama2(ms)
      [] style = "llama3" -> Llama3(ms)
      [] style = "tag" -> Tag(ms)
      [] style = "mistral" -> Mistral(ms)
      [] style = "chatml" -> ChatML(ms)
      [] OTHER -> AsTheyAre(ms)

\* Only LlamaCPP is given the style for its chats: OpenAILike is built as a
\* chat model, the others without a style.
ChatPrompt(mode, style, ms) ==
    IF mode = "llamacpp" THEN GetPromptStyle(style, ms) ELSE AsTheyAre(ms)

(***************************************************************************)
(* What is to be found in a prompt.                                        *)
(***************************************************************************)
Dialogue(history, question, answers) ==
    FlattenSeq([i \in DOMAIN Kept(history) |->
        history[i].question
            \o (IF answers /\ history[i].shown # Blank
                THEN Head(history[i].shown) ELSE << >>)]) \o question

\* What comes first: the system prompt with the context, or the default of
\* the Llama styles.
Lead(style, system, context) ==
    LET given == IF context = Blank THEN system ELSE system \o context
    IN  IF given = NoText /\ style \in {"llama2", "llama3"} THEN DefaultSystem ELSE given

Told(prompt) == FlattenSeq([i \in DOMAIN prompt |-> prompt[i].text])

\* Two styles promise less.  Llama 2 asserts that turns alternate and may
\* refuse a history with an unanswered question (prompt_helper.py:109, 126).
\* ChatML leaves out the answers of the assistant, although the session of user
\* and assistant is what a style formats (prompt_helper.py:14-21): whether they
\* are told is left open for it.
MayRefuse(history, style) ==
    style = "llama2" /\ \E i \in DOMAIN Kept(history) : history[i].shown = Blank

AnswersTold(style) == IF style = "chatml" THEN BOOLEAN ELSE {TRUE}

Asks(history, style, system, context) ==
    LET messages == UiMessages(history, <<"question">>, system)
        prompt == GetPromptStyle(style, EngineMessages(messages, context))
    IN  IF prompt = Raises
        THEN MayRefuse(history, style)
        ELSE /\ \E answers \in AnswersTold(style) :
                    Told(prompt) = Lead(style, system, context)
                                     \o Dialogue(history, <<"question">>, answers)
             /\ Last(prompt).as # "assistant"

\* The styles that tell the model what Asks requires of them, for every
\* conversation, with and without context, with and without system prompt.
StylesThatAsk ==
    [context \in BOOLEAN |->
        {style \in Styles :
            \A history \in Conversations, system \in {NoText, <<"system">>} :
                Asks(history, style, system, IF context THEN <<"context">> ELSE Blank)}]

=============================================================================
