--------------------------- MODULE MCPromptThread ---------------------------
(* Instances of PromptThread for TLC. *)
EXTENDS PromptThread, TLC

CONSTANTS w1, w2

Part(name, given, sig) == [name |-> name, given |-> given, sig |-> sig]
Calls(parts) == [parts |-> parts, says |-> "nothing"]

\* Answers with and without ids and signatures, batches the gates cut and
\* reorder, a note before and behind a question, a plain text, and silence.
SomeAnswers ==
    {Calls(<<Part("note", TRUE, "a"), Part("ask_user", TRUE, "b")>>),
     Calls(<<Part("ask_user", FALSE, "a"), Part("note", FALSE, NoSig)>>),
     Calls(<<Part("stray", FALSE, "a"), Part("respond", FALSE, "b"), Part("ask_user", FALSE, NoSig)>>),
     Calls(<<Part("note", FALSE, "a"), Part("run_critique", TRUE, NoSig)>>),
     [parts |-> <<>>, says |-> "ask_user"],
     [parts |-> <<>>, says |-> "nothing"]}

Order == <<"ask_user", "write_draft", "respond">>
Symmetry == Permutations({w1, w2})
=============================================================================
