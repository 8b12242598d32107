--------------------------- MODULE MCUseCaseTable ---------------------------
(* Instances of UseCaseTable for TLC: documents and casts of answers.      *)
EXTENDS UseCaseTable, TLC

CONSTANTS
    admin, clerk, clerk2, other, c1, c2, f1, f2, q1, q2, q3, n1, n2, n3, fam

\* Two spellings of a role share a slug.
Slugs == (admin :> "ADM") @@ (clerk :> "CLK") @@ (clerk2 :> "CLK") @@ (other :> "STK")
Family == (q1 :> fam) @@ (q2 :> fam) @@ (q3 :> q3)
Titles == (q1 :> n1) @@ (q2 :> n2) @@ (q3 :> n2) @@ (f1 :> n1) @@ (f2 :> n3)

Cap(tabled, id, segment) == [table |-> tabled, id |-> id, segment |-> segment]
Row(code, cap) == [form |-> "table", code |-> code, cap |-> cap]
Prose(code, cap) == [form |-> "prose", code |-> code, cap |-> cap]
Feature(id) == [form |-> "feature", id |-> id]
On(role) == [roster |-> TRUE, role |-> role]
Off(role) == [roster |-> FALSE, role |-> role]
Doc(caps, lines, register) == [caps |-> caps, lines |-> lines, register |-> register]

Documents ==
    {\* a capability with two roles and one without, a repeated requirement
     Doc(<<Cap(TRUE, c1, <<admin, clerk>>), Cap(TRUE, c2, <<NoRole>>)>>,
         <<Row(q1, c1), Row(q2, c2), Row(q1, c1), Row(q3, c2)>>, <<>>),
     \* two spellings of a role, a capability listed twice
     Doc(<<Cap(TRUE, c1, <<clerk, clerk2, admin>>), Cap(TRUE, c1, <<admin>>)>>,
         <<Row(q1, NoCap), Row(q2, c2)>>, <<On(admin)>>),
     \* prose, no capability, a roster; prose and nothing else
     Doc(<<>>, <<Prose(q1, NoCap), Prose(q2, NoCap), Prose(q3, c2)>>,
         <<Off(other), On(clerk), On(NoRole), On(admin), On(clerk)>>),
     Doc(<<>>, <<Prose(q1, NoCap)>>, <<>>),
     \* features, one of them without a requirement
     Doc(<<Cap(FALSE, f1, <<admin, admin>>), Cap(FALSE, f2, <<clerk>>)>>,
         <<Feature(f1), Prose(q1, NoCap), Feature(f2)>>, <<>>),
     \* prose beside a table
     Doc(<<Cap(TRUE, c1, <<admin>>)>>, <<Prose(q1, c1), Row(q2, c1)>>, <<>>),
     \* no requirement
     Doc(<<Cap(TRUE, c1, <<admin>>)>>, <<>>, <<On(clerk)>>)}

Draft(tag, name, actor, codes, valid) ==
    [tag |-> tag, name |-> name, actor |-> actor, codes |-> codes, valid |-> valid]
Details ==
    {<<>>,
     <<Draft(1, n2, 2, {}, TRUE), Draft(0, n1, 1, {q3}, TRUE)>>,
     <<Draft(0, n2, 3, {q2}, TRUE)>>,
     <<Draft(1, n1, 2, {q3}, FALSE), Draft(0, n1, 2, {}, TRUE)>>,
     <<Draft(2, n3, 1, {q1}, TRUE), Draft(2, n3, 0, {}, TRUE), Draft(9, n3, 1, {}, TRUE)>>}

Group(name, segment) == [name |-> name, segment |-> segment]
Groups ==
    {[actors |-> <<admin, clerk>>, groups |-> <<Group("A", <<>>), Group("A", <<clerk2>>)>>],
     [actors |-> <<admin, admin>>, groups |-> <<Group("A", <<admin>>), Group("B", <<clerk>>)>>],
     [actors |-> <<admin>>, groups |-> <<>>]}

\* A requirement row, the heading of its line, a component.
Lines ==
    {[id |-> "e1", entity |-> q1, locator |-> "L1", precision |-> 0],
     [id |-> "e2", entity |-> "no", locator |-> "L1", precision |-> 3],
     [id |-> "e3", entity |-> "no", locator |-> "L2", precision |-> 4]}

Label(id, codes, locator) == [id |-> id, codes |-> codes, locator |-> locator]
byId == Label("e2", <<>>, "none")
byCode == Label("none", <<q2, q1>>, "L2")
byLine == Label("none", <<q3>>, "L1")
byPart == Label("none", <<>>, "L2")
stray == Label("none", <<q2>>, "none")

Candidate(name, actor, priority, explicit, refs) ==
    [name |-> name, actor |-> actor, priority |-> priority,
     explicit |-> explicit, refs |-> refs]
Proposals ==
    {Candidate(n1, 1, "required", TRUE, <<byId>>), Candidate(n1, 2, "required", TRUE, <<byCode, byPart>>),
     Candidate(n2, 1, "recommended", FALSE, <<byId, byCode, byPart>>),
     Candidate(n3, 2, "required", FALSE, <<byCode, byLine>>),
     Candidate("n4", 1, "optional", TRUE, <<byPart>>),
     Candidate("n5", 1, "required", TRUE, <<stray>>)}
Long == <<Candidate(n1, 1, "required", TRUE, <<byId>>), Candidate(n3, 2, "required", FALSE, <<byCode>>),
          Candidate(n2, 1, "recommended", FALSE, <<byId, byLine>>), Candidate("n4", 3, "required", TRUE, <<byPart>>)>>
Lists == (UNION {[1..n -> Proposals] : n \in 0..2}) \cup {Long, SubSeq(Long, 1, 3)}

Link(from, to, kind, condition, cited) ==
    [from |-> from, to |-> to, kind |-> kind, condition |-> condition, cited |-> cited]
Links ==
    {<<>>,
     <<Link(1, 3, "include", FALSE, TRUE), Link(2, 3, "include", FALSE, TRUE)>>,
     <<Link(1, 3, "include", FALSE, TRUE), Link(2, 3, "extend", TRUE, TRUE),
       Link(2, 3, "include", FALSE, TRUE)>>,
     <<Link(3, 1, "extend", FALSE, TRUE), Link(1, 3, "include", FALSE, TRUE),
       Link(3, 1, "extend", TRUE, TRUE), Link(9, 3, "include", FALSE, TRUE)>>,
     <<Link(1, 1, "extend", TRUE, TRUE), Link(1, 2, "generalization", FALSE, FALSE),
       Link(1, 2, "generalization", FALSE, TRUE), Link(1, 2, "extend", TRUE, TRUE)>>}
=============================================================================
