----------------------------- MODULE MCTurnLoop -----------------------------
(* Instances of TurnLoop for TLC: casts of tool batches.                   *)
EXTENDS TurnLoop, TLC

CONSTANTS assume, ask, h1, h2, t1, t2, c1, c2

Kinds == (assume :> "assumption") @@ (ask :> "open_question")
OneHeading == [n \in NodeIds |-> h1]

Call(tool) == [tool |-> tool]
Note(id) == [tool |-> "note", id |-> id]
Draft(text) == [tool |-> "write_draft", text |-> text, curated |-> FALSE]
Curated(text) == [tool |-> "write_draft", text |-> text, curated |-> TRUE]
SectionCall(h, chunk, append, done) ==
    [tool |-> "write_draft_section", heading |-> h, chunk |-> chunk,
     append |-> append, done |-> done]
Impact(ids) == [tool |-> "run_impact_analysis", ids |-> ids]

\* From the intent to the finalized draft, with riders, replays and batches
\* the gates cut down.
Main ==
    {<<>>,
     <<Call("confirm_intent")>>,
     <<Call("respond"), Call("ask_user")>>,
     <<Call("elicit"), Note(assume), Note(ask)>>,
     <<Impact({ask}), Note(assume)>>,
     <<Curated(t1), Call("run_critique")>>,
     <<Call("run_critique")>>,
     <<Call("run_critique"), Call("run_critique")>>,
     <<Call("finalize")>>,
     <<SectionCall(h1, c1, TRUE, FALSE)>>,
     <<SectionCall(h1, c2, TRUE, TRUE)>>}

(* Bound: at the start the document, new or existing, is in progress and its  *)
(* predecessors are accepted; a change from outside makes it otherwise.       *)
OneStart == ws = Fresh /\ changes = 0 => db.life = "in_progress" /\ db.preds

=============================================================================
