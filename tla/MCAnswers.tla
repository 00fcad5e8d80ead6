----------------------------- MODULE MCAnswers -----------------------------
(* One document at the start and one upload, two files, one request at a   *)
(* time; short conversations and three nodes for the pure algorithms.      *)
EXTENDS Answers

CONSTANTS fileA, fileB, n1, n2, n3

MCDocs == 1 .. 2
MCFiles == {fileA, fileB}
MCLlms == {[mode |-> "sagemaker", style |-> "default"],
           [mode |-> "llamacpp", style |-> "llama2"]}
MCModePrompt == [m \in Modes |-> IF m = "Search" THEN NoText ELSE <<"system">>]
MCNodes == {n1, n2, n3}
MCScores == 0 .. 2
MCResponses == {[tokens |-> <<"special", "text">>, whole |-> TRUE],
                [tokens |-> <<"text", "stop">>, whole |-> FALSE]}

\* A turn that was answered, and one that was not.
MCHistories == {<< >>, <<[question |-> <<"q1">>, shown |-> Blank]>>}

(***************************************************************************)
(* Every conversation of up to three turns, each unanswered, answered, or  *)
(* answered with sources.                                                  *)
(***************************************************************************)
MCWords == {"default", "system", "context", "question", "q1", "q2", "q3",
            "a1", "a2", "a3", "s1", "s2", "s3"}
MCQuestions == <<"q1", "q2", "q3">>
MCShown == <<{Blank, << <<"a1">> >>, << <<"a1">>, <<"s1">> >>},
             {Blank, << <<"a2">> >>, << <<"a2">>, <<"s2">> >>},
             {Blank, << <<"a3">> >>, << <<"a3">>, <<"s3">> >>}>>
MCConversations ==
    UNION {{[i \in 1 .. n |-> [question |-> <<MCQuestions[i]>>, shown |-> shown[i]]] :
            shown \in {f \in [1 .. n -> UNION {MCShown[i] : i \in 1 .. n}] :
                          \A i \in 1 .. n : f[i] \in MCShown[i]}} : n \in 0 .. 3}
=============================================================================
