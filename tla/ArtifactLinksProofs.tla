------------------------ MODULE ArtifactLinksProofs ------------------------
(***************************************************************************)
(* Proofs about ArtifactLinks, for any artifacts, relations, steps and     *)
(* requests: the tables keep their types, a done step stays on view, a     *)
(* chain of superseded_by ends, and links form no ring, unless rows were   *)
(* made at the same time.                                                  *)
(***************************************************************************)
EXTENDS ArtifactLinks, SequenceTheorems, FiniteSetTheorems, WellFoundedInduction, TLAPS

Heir == [to : Artifacts \cup {None}, ticket : Nat, closed : Nat]
Link == [from : Artifacts, to : Artifacts, rel : Relations, ticket : Nat, closed : Nat]
Run == [ticket : Nat, closed : Nat, done : SUBSET Steps]
Request ==
    {Idle}
    \cup [kind : {"link"}, from : Artifacts, to : Artifacts, rel : Relations, ticket : Nat]
    \cup [kind : {"retire"}, artifact : Artifacts, to : Artifacts \cup {None},
          was : Heir, gone : BOOLEAN, ticket : Nat]
    \cup [kind : {"run"}, ticket : Nat]

TypeOK ==
    /\ archived \subseteq Artifacts
    /\ heir \in [Artifacts -> Heir]
    /\ back \in [Artifacts -> Nat]
    /\ links \subseteq Link
    /\ runs \in Seq(Run)
    /\ request \in [Requests -> Request]
    /\ ticket \in Nat

\* No ticket is from the future: not of a row, nor of a request for a run.
TicketsAreDrawn ==
    /\ \A k \in DOMAIN runs : runs[k].ticket <= runs[k].closed /\ runs[k].closed <= ticket
    /\ \A r \in Requests : request[r].kind = "run" => request[r].ticket <= ticket

\* Whoever still wants to insert a run has read before any was there.
PendingOverlaps ==
    \A r \in Requests, k \in DOMAIN runs :
        request[r].kind = "run" => request[r].ticket <= runs[k].closed

\* Every two runs of the project were created at the same time.
RunsOverlap == \A j, k \in DOMAIN runs : runs[j].ticket <= runs[k].closed

\* One of the runs is the latest.
SomeRunIsLatest ==
    runs # <<>> => \E k \in DOMAIN runs : \A j \in DOMAIN runs : runs[j].ticket <= runs[k].ticket

Inv == TypeOK /\ TicketsAreDrawn /\ PendingOverlaps /\ RunsOverlap /\ SomeRunIsLatest

-----------------------------------------------------------------------------
(* A request keeps its type when it is answered or draws its ticket.       *)
LEMMA DoneKeepsType ==
  ASSUME TypeOK, NEW r \in Requests, Done(r)
  PROVE  request' \in [Requests -> Request]
  BY DEF TypeOK, Done, Request

LEMMA ReadsKeepsType ==
  ASSUME TypeOK, NEW r \in Requests, NEW what \in Request, Reads(r, what)
  PROVE  request' \in [Requests -> Request] /\ ticket' \in Nat
  BY DEF TypeOK, Reads, Begins

(* Every handler writes rows of the right type.                            *)
LEMMA TypeStep == TypeOK /\ [Next]_vars => TypeOK'
  <1> SUFFICES ASSUME TypeOK, [Next]_vars PROVE TypeOK'
    OBVIOUS
  <1>1. ASSUME NEW r \in Requests, NEW from \in Artifacts, NEW to \in Artifacts,
               NEW rel \in Relations, CheckLink(r, from, to, rel)
        PROVE  TypeOK'
    <2> DEFINE what == [kind |-> "link", from |-> from, to |-> to, rel |-> rel,
                        ticket |-> ticket + 1]
    <2>1. what \in Request
      BY DEF TypeOK, Request
    <2>2. Reads(r, what) /\ UNCHANGED <<archived, heir, back, links, runs>>
      BY <1>1 DEF CheckLink
    <2> HIDE DEF what
    <2> QED
      BY <2>1, <2>2, ReadsKeepsType DEF TypeOK
  <1>2. ASSUME NEW r \in Requests, InsertLink(r) PROVE TypeOK'
    <2>1. request[r] \in [kind : {"link"}, from : Artifacts, to : Artifacts,
                          rel : Relations, ticket : Nat]
      BY <1>2 DEF InsertLink, TypeOK, Request, Idle
    <2>2. links' \subseteq Link
      BY <1>2, <2>1 DEF InsertLink, TypeOK, Link
    <2>3. Done(r) /\ UNCHANGED <<archived, heir, back, runs, ticket>>
      BY <1>2 DEF InsertLink
    <2> QED
      BY <2>2, <2>3, DoneKeepsType DEF TypeOK
  <1>3. ASSUME NEW r \in Requests, NEW a \in Artifacts, NEW to \in Artifacts \cup {None},
               CheckRetirement(r, a, to)
        PROVE  TypeOK'
    <2> DEFINE what == [kind |-> "retire", artifact |-> a, to |-> to, was |-> heir[a],
                        gone |-> a \in archived, ticket |-> ticket + 1]
    <2>1. what \in Request
      BY DEF TypeOK, Request
    <2>2. Reads(r, what) /\ UNCHANGED <<archived, heir, back, links, runs>>
      BY <1>3 DEF CheckRetirement
    <2> HIDE DEF what
    <2> QED
      BY <2>1, <2>2, ReadsKeepsType DEF TypeOK
  <1>4. ASSUME NEW r \in Requests, Retire(r) PROVE TypeOK'
    <2>1. request[r] \in [kind : {"retire"}, artifact : Artifacts,
                          to : Artifacts \cup {None}, was : Heir, gone : BOOLEAN, ticket : Nat]
      BY <1>4 DEF Retire, TypeOK, Request, Idle
    <2>2. IF request[r].to = None THEN request[r].was \in Heir
          ELSE [to |-> request[r].to, ticket |-> request[r].ticket, closed |-> ticket] \in Heir
      BY <2>1 DEF TypeOK, Heir
    <2>3. heir' \in [Artifacts -> Heir]
      BY <1>4, <2>1, <2>2 DEF Retire, TypeOK
    <2>4. archived' \subseteq Artifacts /\ back' \in [Artifacts -> Nat]
      BY <1>4, <2>1 DEF Retire, IsLive, TypeOK
    <2>5. Done(r) /\ UNCHANGED <<links, runs, ticket>>
      BY <1>4 DEF Retire
    <2> QED
      BY <2>3, <2>4, <2>5, DoneKeepsType DEF TypeOK
  <1>5. ASSUME NEW r \in Requests, CheckRun(r) PROVE TypeOK'
    <2> DEFINE what == [kind |-> "run", ticket |-> ticket + 1]
    <2>1. what \in Request
      BY DEF TypeOK, Request
    <2>2. Reads(r, what) /\ UNCHANGED <<archived, heir, back, links, runs>>
      BY <1>5 DEF CheckRun
    <2> HIDE DEF what
    <2> QED
      BY <2>1, <2>2, ReadsKeepsType DEF TypeOK
  <1>6. ASSUME NEW r \in Requests, InsertRun(r) PROVE TypeOK'
    <2>1. request[r] \in [kind : {"run"}, ticket : Nat]
      BY <1>6 DEF InsertRun, TypeOK, Request, Idle
    <2>2. [ticket |-> request[r].ticket, closed |-> ticket, done |-> {}] \in Run
      BY <2>1 DEF TypeOK, Run
    <2>3. runs' \in Seq(Run)
      BY <1>6, <2>2 DEF InsertRun, TypeOK
    <2>4. Done(r) /\ UNCHANGED <<archived, heir, back, links, ticket>>
      BY <1>6 DEF InsertRun
    <2> QED
      BY <2>3, <2>4, DoneKeepsType DEF TypeOK
  <1>7. ASSUME NEW r \in Requests, Fail(r) PROVE TypeOK'
    BY <1>7, DoneKeepsType DEF Fail, TypeOK
  <1>8. ASSUME NEW l \in links, DeleteLink(l) PROVE TypeOK'
    BY <1>8 DEF DeleteLink, TypeOK
  <1>9. ASSUME NEW k \in DOMAIN runs, NEW s \in Steps, UpdateStep(k, s) PROVE TypeOK'
    <2>1. \A j \in DOMAIN runs : runs[j] \in Run
      BY DEF TypeOK
    <2> DEFINE new == [runs[k] EXCEPT !.done = @ \cup {s}]
    <2>2. new \in Run
      BY <2>1 DEF Run
    <2>3. runs' = [runs EXCEPT ![k] = new]
      BY <1>9 DEF UpdateStep
    <2> HIDE DEF new
    <2>4. k \in 1..Len(runs)
      BY DEF TypeOK
    <2>5. runs' \in Seq(Run)
      BY <2>2, <2>3, <2>4, ExceptSeq DEF TypeOK
    <2> QED
      BY <1>9, <2>5 DEF UpdateStep, TypeOK
  <1>10. ASSUME NEW r \in Requests, RetireAgain(r) PROVE TypeOK'
    BY <1>10, DoneKeepsType DEF RetireAgain, TypeOK
  <1>11. ASSUME NEW a \in Artifacts, Accept(a) PROVE TypeOK'
    BY <1>11 DEF Accept, Begins, IsLive, TypeOK
  <1>12. ASSUME NEW a \in Artifacts, Rewrite(a) PROVE TypeOK'
    <2>1. archived' \subseteq Artifacts /\ back' \in [Artifacts -> Nat]
      BY <1>12 DEF Rewrite, IsLive, TypeOK
    <2>2. NoHeir \in Heir
      BY DEF NoHeir, Heir
    <2>3. heir' \in [Artifacts -> Heir]
      BY <1>12, <2>2 DEF Rewrite, TypeOK
    <2> QED
      BY <1>12, <2>1, <2>3 DEF Rewrite, Begins, TypeOK
  <1>13. CASE UNCHANGED vars
    BY <1>13 DEF vars, TypeOK
  <1> QED
    BY <1>1, <1>2, <1>3, <1>4, <1>5, <1>6, <1>7, <1>8, <1>9, <1>10, <1>11, <1>12, <1>13 DEF Next

(* The tables of WorkflowService, of the links and of the retirements keep  *)
(* their types.                                                            *)
THEOREM TypeCorrect == Spec => []TypeOK
  <1>1. Init => TypeOK
    BY DEF Init, TypeOK, NoHeir, Heir, Request
  <1> QED
    BY <1>1, TypeStep, PTL DEF Spec

-----------------------------------------------------------------------------
(* Steps that leave the runs and the requests for runs as they are.        *)
LEMMA OtherStep ==
  ASSUME Inv, runs' = runs, ticket' \in Nat, ticket <= ticket',
         \A q \in Requests : request'[q].kind = "run" => request'[q] = request[q]
  PROVE  (TicketsAreDrawn /\ PendingOverlaps /\ RunsOverlap /\ SomeRunIsLatest)'
  <1>1. \A q \in Requests : request[q].kind = "run" => request[q].ticket \in Nat
    BY DEF Inv, TypeOK, Request, Idle
  <1>2. \A k \in DOMAIN runs : runs[k] \in Run
    BY DEF Inv, TypeOK
  <1>3. TicketsAreDrawn'
    BY <1>1, <1>2 DEF Inv, TypeOK, TicketsAreDrawn, Run
  <1>4. PendingOverlaps'
    BY DEF Inv, PendingOverlaps
  <1> QED
    BY <1>3, <1>4 DEF Inv, RunsOverlap, SomeRunIsLatest

LEMMA DoneForgets ==
  ASSUME TypeOK, NEW r \in Requests, Done(r)
  PROVE  \A q \in Requests : request'[q].kind = "run" => request'[q] = request[q]
  BY DEF TypeOK, Done, Idle

LEMMA ReadsAdds ==
  ASSUME TypeOK, NEW r \in Requests, NEW what, Reads(r, what), what.kind # "run"
  PROVE  /\ \A q \in Requests : request'[q].kind = "run" => request'[q] = request[q]
         /\ ticket' \in Nat /\ ticket <= ticket'
  BY DEF TypeOK, Reads, Begins

(* create_run: while no run is there, any number of requests may pass the   *)
(* check; their rows then overlap, and no later request passes it.         *)
LEMMA InvStep == Inv /\ [Next]_vars => Inv'
  <1> SUFFICES ASSUME Inv, [Next]_vars PROVE Inv'
    OBVIOUS
  <1> DEFINE Rest == TicketsAreDrawn /\ PendingOverlaps /\ RunsOverlap /\ SomeRunIsLatest
  <1>0. TypeOK /\ TypeOK'
    BY TypeStep DEF Inv
  <1>a. ticket \in Nat
    BY <1>0 DEF TypeOK
  <1>1. ASSUME NEW r \in Requests, NEW from \in Artifacts, NEW to \in Artifacts,
               NEW rel \in Relations, CheckLink(r, from, to, rel)
        PROVE  Rest'
    <2> DEFINE what == [kind |-> "link", from |-> from, to |-> to, rel |-> rel,
                        ticket |-> ticket + 1]
    <2>1. what.kind # "run" /\ Reads(r, what) /\ runs' = runs
      BY <1>1 DEF CheckLink
    <2> HIDE DEF what
    <2> QED
      BY <1>0, <2>1, ReadsAdds, OtherStep
  <1>2. ASSUME NEW r \in Requests, InsertLink(r) PROVE Rest'
    <2>1. Done(r) /\ runs' = runs /\ ticket' = ticket
      BY <1>2 DEF InsertLink
    <2> QED
      BY <1>0, <1>a, <2>1, DoneForgets, OtherStep
  <1>3. ASSUME NEW r \in Requests, NEW a \in Artifacts, NEW to \in Artifacts \cup {None},
               CheckRetirement(r, a, to)
        PROVE  Rest'
    <2> DEFINE what == [kind |-> "retire", artifact |-> a, to |-> to, was |-> heir[a],
                        gone |-> a \in archived, ticket |-> ticket + 1]
    <2>1. what.kind # "run" /\ Reads(r, what) /\ runs' = runs
      BY <1>3 DEF CheckRetirement
    <2> HIDE DEF what
    <2> QED
      BY <1>0, <2>1, ReadsAdds, OtherStep
  <1>4. ASSUME NEW r \in Requests, Retire(r) PROVE Rest'
    <2>1. Done(r) /\ runs' = runs /\ ticket' = ticket
      BY <1>4 DEF Retire
    <2> QED
      BY <1>0, <1>a, <2>1, DoneForgets, OtherStep
  <1>5. ASSUME NEW r \in Requests, CheckRun(r) PROVE Rest'
    <2>1. runs = <<>> /\ runs' = <<>> /\ DOMAIN runs' = {}
      BY <1>5 DEF CheckRun, NoRun
    <2>2. ticket' = ticket + 1
          /\ request' = [request EXCEPT ![r] = [kind |-> "run", ticket |-> ticket + 1]]
      BY <1>5 DEF CheckRun, Reads, Begins
    <2>3. \A q \in Requests : request'[q].kind = "run" => request'[q].ticket <= ticket'
      <3> SUFFICES ASSUME NEW q \in Requests, request'[q].kind = "run"
                   PROVE  request'[q].ticket <= ticket'
        OBVIOUS
      <3>1. CASE q = r
        BY <1>0, <1>a, <2>2, <3>1 DEF TypeOK
      <3>2. CASE q # r
        <4>1. request'[q] = request[q] /\ request[q].kind = "run"
          BY <1>0, <2>2, <3>2 DEF TypeOK
        <4>2. request[q].ticket \in Nat
          BY <1>0, <4>1 DEF TypeOK, Request, Idle
        <4> QED
          BY <1>a, <2>2, <4>1, <4>2 DEF Inv, TicketsAreDrawn
      <3> QED
        BY <3>1, <3>2
    <2> QED
      BY <2>1, <2>3 DEF TicketsAreDrawn, PendingOverlaps, RunsOverlap, SomeRunIsLatest
  <1>6. ASSUME NEW r \in Requests, InsertRun(r) PROVE Rest'
    <2> DEFINE new == [ticket |-> request[r].ticket, closed |-> ticket, done |-> {}]
               n == Len(runs)
    <2>1. /\ request[r].kind = "run" /\ runs' = Append(runs, new)
          /\ Done(r) /\ ticket' = ticket
      BY <1>6 DEF InsertRun
    <2>2. request[r].ticket \in Nat /\ request[r].ticket <= ticket
      BY <1>0, <2>1 DEF TypeOK, Request, Idle, Inv, TicketsAreDrawn
    <2>3. n \in Nat /\ DOMAIN runs = 1..n /\ \A k \in 1..n : runs[k] \in Run
      BY <1>0 DEF TypeOK
    <2>4. /\ DOMAIN runs' = 1..(n + 1) /\ runs'[n + 1] = new
          /\ \A k \in 1..n : runs'[k] = runs[k]
      BY <1>0, <2>1 DEF TypeOK
    <2>5. new.ticket = request[r].ticket /\ new.closed = ticket
      OBVIOUS
    <2>6. \A q \in Requests : request'[q].kind = "run" =>
              request'[q] = request[q] /\ request[q].kind = "run"
      BY <1>0, <2>1, DoneForgets
    <2> HIDE DEF new, n
    <2>7. \A k \in 1..n : runs[k].ticket \in Nat /\ runs[k].closed \in Nat
                          /\ runs[k].ticket <= runs[k].closed /\ runs[k].closed <= ticket
                          /\ request[r].ticket <= runs[k].closed
      BY <2>1, <2>3 DEF Inv, TicketsAreDrawn, PendingOverlaps, Run
    <2>8. TicketsAreDrawn'
      BY <1>a, <2>1, <2>2, <2>3, <2>4, <2>5, <2>6, <2>7 DEF Inv, TicketsAreDrawn
    <2>9. PendingOverlaps'
      <3> SUFFICES ASSUME NEW q \in Requests, NEW k \in 1..(n + 1), request'[q].kind = "run"
                   PROVE  request'[q].ticket <= runs'[k].closed
        BY <2>4 DEF PendingOverlaps
      <3>1. request'[q] = request[q] /\ request[q].kind = "run"
        BY <2>6
      <3>2. CASE k = n + 1
        BY <2>4, <2>5, <3>1, <3>2 DEF Inv, TicketsAreDrawn
      <3>3. CASE k \in 1..n
        BY <2>3, <2>4, <3>1, <3>3 DEF Inv, PendingOverlaps
      <3> QED
        BY <2>3, <3>2, <3>3
    <2>10. RunsOverlap'
      <3>1. \A j, k \in 1..n : runs[j].ticket <= runs[k].closed
        BY <2>3 DEF Inv, RunsOverlap
      <3>2. \A j \in 1..n : runs[j].ticket <= ticket
        BY <1>a, <2>7
      <3> QED
        BY <2>2, <2>3, <2>4, <2>5, <2>7, <3>1, <3>2 DEF RunsOverlap
    <2>11. SomeRunIsLatest'
      <3>1. CASE runs = <<>>
        <4>1. n = 0
          BY <3>1 DEF n
        <4> QED
          BY <2>2, <2>3, <2>4, <2>5, <4>1 DEF SomeRunIsLatest
      <3>2. CASE runs # <<>>
        <4>1. PICK k \in 1..n : \A j \in 1..n : runs[j].ticket <= runs[k].ticket
          BY <2>3, <3>2 DEF Inv, SomeRunIsLatest
        <4>2. CASE request[r].ticket <= runs[k].ticket
          <5>1. k \in 1..(n + 1) /\ \A j \in 1..(n + 1) : runs'[j].ticket <= runs'[k].ticket
            BY <2>3, <2>4, <2>5, <4>1, <4>2
          <5> QED
            BY <2>4, <5>1 DEF SomeRunIsLatest
        <4>3. CASE runs[k].ticket <= request[r].ticket
          <5>1. \A j \in 1..n : runs[j].ticket <= request[r].ticket
            BY <2>2, <2>7, <4>1, <4>3
          <5>2. \A j \in 1..(n + 1) : runs'[j].ticket <= runs'[n + 1].ticket
            BY <2>2, <2>3, <2>4, <2>5, <5>1
          <5> QED
            BY <2>3, <2>4, <5>2 DEF SomeRunIsLatest
        <4> QED
          BY <2>2, <2>7, <4>2, <4>3
      <3> QED
        BY <3>1, <3>2
    <2> QED
      BY <2>8, <2>9, <2>10, <2>11
  <1>7. ASSUME NEW r \in Requests, Fail(r) PROVE Rest'
    <2>1. Done(r) /\ runs' = runs /\ ticket' = ticket
      BY <1>7 DEF Fail
    <2> QED
      BY <1>0, <1>a, <2>1, DoneForgets, OtherStep
  <1>8. ASSUME NEW l \in links, DeleteLink(l) PROVE Rest'
    <2>1. request' = request /\ runs' = runs /\ ticket' = ticket
      BY <1>8 DEF DeleteLink
    <2> QED
      BY <1>a, <2>1, OtherStep
  <1>9. ASSUME NEW k \in DOMAIN runs, NEW s \in Steps, UpdateStep(k, s) PROVE Rest'
    <2>1. /\ request' = request /\ ticket' = ticket
          /\ runs' = [runs EXCEPT ![k].done = @ \cup {s}]
      BY <1>9 DEF UpdateStep
    <2>2. \A j \in DOMAIN runs : runs[j] \in Run
      BY <1>0 DEF TypeOK
    <2>3. /\ DOMAIN runs' = DOMAIN runs
          /\ \A j \in DOMAIN runs : /\ runs'[j].ticket = runs[j].ticket
                                    /\ runs'[j].closed = runs[j].closed
      BY <2>1, <2>2 DEF Run
    <2>4. runs # <<>>
      BY <1>9
    <2> QED
      BY <2>1, <2>3, <2>4
      DEF Inv, TicketsAreDrawn, PendingOverlaps, RunsOverlap, SomeRunIsLatest
  <1>10. ASSUME NEW r \in Requests, RetireAgain(r) PROVE Rest'
    <2>1. Done(r) /\ runs' = runs /\ ticket' = ticket
      BY <1>10 DEF RetireAgain
    <2> QED
      BY <1>0, <1>a, <2>1, DoneForgets, OtherStep
  <1>11. ASSUME NEW a \in Artifacts, Accept(a) \/ Rewrite(a) PROVE Rest'
    <2>1. request' = request /\ runs' = runs /\ ticket' = ticket + 1
      BY <1>11 DEF Accept, Rewrite, Begins
    <2> QED
      BY <1>a, <2>1, OtherStep
  <1>12. ASSUME UNCHANGED vars PROVE Rest'
    BY <1>a, <1>12, OtherStep DEF vars
  <1>13. Rest'
    BY <1>1, <1>2, <1>3, <1>4, <1>5, <1>6, <1>7, <1>8, <1>9, <1>10, <1>11, <1>12 DEF Next
  <1> QED
    BY <1>0, <1>13 DEF Inv

(* create_run, get_current_run and get_progress: a step that was done is on *)
(* view, unless its run and the current one were created at the same time. *)
THEOREM DoneStepsStay == Spec => []StepsStayOnView
  <1>1. Init => Inv
    <2>1. Init => TypeOK
      BY DEF Init, TypeOK, NoHeir, Heir, Request
    <2> QED
      BY <2>1 DEF Init, Inv, TicketsAreDrawn, PendingOverlaps, RunsOverlap,
                  SomeRunIsLatest, Idle
  <1>2. Inv => StepsStayOnView
    <2> SUFFICES ASSUME Inv, NEW k \in DOMAIN runs
                 PROVE  Overlap(runs[k], runs[CurrentRun])
      BY DEF StepsStayOnView
    <2>1. CurrentRun \in DOMAIN runs
      <3>1. runs # <<>>
        OBVIOUS
      <3> QED
        BY <3>1 DEF Inv, SomeRunIsLatest, CurrentRun
    <2>2. /\ runs[k].ticket \in Nat /\ runs[k].closed \in Nat
          /\ runs[CurrentRun].ticket \in Nat /\ runs[CurrentRun].closed \in Nat
      <3>1. \A j \in DOMAIN runs : runs[j] \in Run
        BY DEF Inv, TypeOK
      <3> HIDE DEF CurrentRun
      <3> QED
        BY <2>1, <3>1 DEF Run
    <2>3. /\ runs[k].ticket <= runs[CurrentRun].closed
          /\ runs[CurrentRun].ticket <= runs[k].closed
      BY <2>1 DEF Inv, RunsOverlap
    <2> QED
      BY <2>2, <2>3 DEF Overlap, Before
  <1> QED
    BY <1>1, <1>2, InvStep, PTL DEF Spec

-----------------------------------------------------------------------------
(* Natural numbers: a set of them that is not empty has a least member, and *)
(* one that contains 0 and every successor is the whole.                   *)
LEMMA LeastNatural ==
  ASSUME NEW T \in SUBSET Nat, T # {}
  PROVE  \E x \in T : \A y \in T : x <= y
  <1> DEFINE R == {ss \in Nat \X Nat : ss[1] < ss[2]}
  <1>1. IsWellFoundedOn(R, Nat)
    BY NatLessThanWellFounded DEF OpToRel
  <1>2. \E x \in T : \A y \in T : ~ (<<y, x>> \in R)
    <2> HIDE DEF R
    <2> QED
      BY <1>1, WFMin
  <1>3. \A x, y \in T : <<y, x>> \notin R => x <= y
    OBVIOUS
  <1> QED
    BY <1>2, <1>3

LEMMA Induct ==
  ASSUME NEW S \in SUBSET Nat, 0 \in S, \A n \in S : n + 1 \in S
  PROVE  S = Nat
  <1> SUFFICES ASSUME Nat \ S # {} PROVE FALSE
    OBVIOUS
  <1>1. PICK x \in Nat \ S : \A y \in Nat \ S : x <= y
    BY LeastNatural
  <1>2. x - 1 \in Nat /\ x - 1 \in S
    BY <1>1
  <1> QED
    BY <1>1, <1>2

-----------------------------------------------------------------------------
(* Retirements *)

Retiring == {r \in Requests : request[r].kind = "retire"}

\* What superseded_by says of b, or will say again when a request that read
\* it and names no heir is written.
HeirsOf(b) ==
    {heir[b]} \cup {request[r].was : r \in {q \in Retiring : request[q].artifact = b}}

\* Everything that names an artifact to take over, written or on its way.
Claims ==
    {heir[a] : a \in Artifacts} \cup {request[r].was : r \in Retiring}
    \cup {request[r] : r \in Retiring}

\* An artifact with an heir is retired, or has come back with it; the heir is
\* another artifact.
HeirsAreDated ==
    \A b \in Artifacts : \A h \in HeirsOf(b) :
        h.to # None => /\ b \in archived \/ h.closed <= back[b]
                       /\ h.to # b
                       /\ h.ticket <= h.closed /\ h.closed <= ticket

RetiringIsDated ==
    \A r \in Retiring : /\ request[r].to # request[r].artifact
                        /\ request[r].ticket <= ticket

\* Who was chosen to take over was live then: it got an heir of its own later,
\* or had come back with the one it had.
ClaimsPrecede ==
    \A b \in Artifacts : \A h \in HeirsOf(b), c \in Claims :
        c.to = b /\ h.to # None => c.ticket <= h.closed \/ h.closed <= back[b]

\* No artifact has come back in the future.
BackIsDated == \A a \in Artifacts : back[a] <= ticket

HeirInv == HeirsAreDated /\ RetiringIsDated /\ ClaimsPrecede /\ BackIsDated

(* The parts of a retirement request have their types.                     *)
LEMMA RetiringType ==
  ASSUME TypeOK, NEW r \in Retiring
  PROVE  /\ request[r].artifact \in Artifacts /\ request[r].to \in Artifacts \cup {None}
         /\ request[r].was \in Heir /\ request[r].ticket \in Nat
  BY DEF TypeOK, Retiring, Request, Idle

(* Steps that write no heir and add no retirement.                         *)
LEMMA HeirsStay ==
  ASSUME TypeOK, HeirInv, heir' = heir, archived' = archived, back' = back,
         ticket' \in Nat, ticket <= ticket',
         \A q \in Requests : request'[q].kind = "retire" => request'[q] = request[q]
  PROVE  HeirInv'
  <1>1. Retiring' \subseteq Retiring /\ \A r \in Retiring' : request'[r] = request[r]
    BY DEF Retiring
  <1>2. \A b \in Artifacts : HeirsOf(b)' \subseteq HeirsOf(b)
    BY <1>1 DEF HeirsOf
  <1>3. Claims' \subseteq Claims
    BY <1>1 DEF Claims
  <1>4. \A b \in Artifacts : \A h \in HeirsOf(b) : h \in Heir
    BY RetiringType DEF HeirsOf, TypeOK, Retiring
  <1>5. ticket \in Nat /\ \A r \in Retiring : request[r].ticket \in Nat
    BY RetiringType DEF TypeOK
  <1>6. HeirsAreDated'
    BY <1>2, <1>4, <1>5 DEF HeirInv, HeirsAreDated, Heir
  <1>7. RetiringIsDated'
    BY <1>1, <1>5 DEF HeirInv, RetiringIsDated
  <1>8. ClaimsPrecede'
    BY <1>2, <1>3 DEF HeirInv, ClaimsPrecede
  <1>9. BackIsDated'
    BY <1>5 DEF HeirInv, BackIsDated, TypeOK
  <1> QED
    BY <1>6, <1>7, <1>8, <1>9 DEF HeirInv

(* An artifact may come back, lose its heir, or be archived without one.   *)
LEMMA ReturnKeepsHeirs ==
  ASSUME TypeOK, HeirInv, NEW a \in Artifacts,
         heir' = heir \/ heir' = [heir EXCEPT ![a] = NoHeir],
         \/ IsLive(a)
         \/ archived \subseteq archived' /\ back' = back,
         request' = request, ticket' = ticket + 1
  PROVE  HeirInv'
  <1>1. Retiring' = Retiring
    BY DEF Retiring
  <1>2. \A b \in Artifacts : HeirsOf(b)' \subseteq HeirsOf(b) \cup {NoHeir}
    BY <1>1 DEF HeirsOf, TypeOK
  <1>3. Claims' \subseteq Claims \cup {NoHeir}
    BY <1>1 DEF Claims, TypeOK
  <1>4. \A b \in Artifacts : \A h \in HeirsOf(b) : h \in Heir
    BY RetiringType DEF HeirsOf, TypeOK, Retiring
  <1>5. /\ ticket \in Nat /\ NoHeir.to = None
        /\ \A r \in Retiring : request[r].ticket \in Nat
    BY RetiringType DEF TypeOK, NoHeir
  <1>6. \A b \in Artifacts : /\ back[b] \in Nat /\ back[b] <= ticket
                             /\ back'[b] = back[b] \/ (b = a /\ back'[b] = ticket)
                             /\ b \in archived => b \in archived' \/ back'[b] = ticket
    BY DEF IsLive, TypeOK, HeirInv, BackIsDated
  <1>7. ASSUME NEW b \in Artifacts, NEW h \in HeirsOf(b), h.to # None
        PROVE  /\ b \in archived' \/ h.closed <= back'[b]
               /\ h.closed <= back[b] => h.closed <= back'[b]
               /\ h.to # b /\ h.ticket <= h.closed /\ h.closed <= ticket /\ h.closed \in Nat
    BY <1>4, <1>5, <1>6, <1>7 DEF HeirInv, HeirsAreDated, Heir
  <1>8. HeirsAreDated'
    BY <1>2, <1>5, <1>7 DEF HeirsAreDated
  <1>9. RetiringIsDated'
    BY <1>1, <1>5 DEF HeirInv, RetiringIsDated
  <1>10. ClaimsPrecede'
    <2> SUFFICES ASSUME NEW b \in Artifacts, NEW h \in HeirsOf(b), NEW c \in Claims,
                        c.to = b, h.to # None
                 PROVE  c.ticket <= h.closed \/ h.closed <= back'[b]
      BY <1>2, <1>3, <1>5, LinksConstants DEF ClaimsPrecede
    <2> QED
      BY <1>7 DEF HeirInv, ClaimsPrecede
  <1>11. BackIsDated'
    BY <1>5, <1>6 DEF BackIsDated
  <1> QED
    BY <1>8, <1>9, <1>10, <1>11 DEF HeirInv

(* archive_artifact until the write: the artifact that takes over is live, *)
(* so it has no heir yet, or came back with the one it has.                *)
LEMMA CheckRetirementKeepsHeirs ==
  ASSUME TypeOK, HeirInv, NEW r \in Requests, NEW a \in Artifacts,
         NEW to \in Artifacts \cup {None}, CheckRetirement(r, a, to)
  PROVE  HeirInv'
  <1> DEFINE what == [kind |-> "retire", artifact |-> a, to |-> to, was |-> heir[a],
                      gone |-> a \in archived, ticket |-> ticket + 1]
  <1>1. /\ request' = [request EXCEPT ![r] = what] /\ ticket' = ticket + 1
        /\ heir' = heir /\ archived' = archived /\ back' = back /\ MayInherit(a, to)
    BY DEF CheckRetirement, Reads, Begins
  <1>2. /\ what.kind = "retire" /\ what.artifact = a /\ what.to = to /\ what.was = heir[a]
        /\ what.ticket = ticket + 1
    OBVIOUS
  <1> HIDE DEF what
  <1>3. ticket \in Nat
    BY DEF TypeOK
  <1>4. /\ Retiring' \subseteq Retiring \cup {r} /\ request'[r] = what
        /\ \A q \in Retiring' : q # r => q \in Retiring /\ request'[q] = request[q]
    BY <1>1 DEF Retiring, TypeOK
  <1>5. \A b \in Artifacts : HeirsOf(b)' \subseteq HeirsOf(b)
    BY <1>1, <1>2, <1>4 DEF HeirsOf, Retiring
  <1>6. Claims' \subseteq Claims \cup {what}
    BY <1>1, <1>2, <1>4 DEF Claims, Retiring
  <1>7. \A b \in Artifacts : \A h \in HeirsOf(b) : h \in Heir
    BY RetiringType DEF HeirsOf, TypeOK, Retiring
  <1>8. HeirsAreDated'
    BY <1>1, <1>3, <1>5, <1>7 DEF HeirInv, HeirsAreDated, Heir
  <1>9. RetiringIsDated'
    <2> SUFFICES ASSUME NEW q \in Retiring'
                 PROVE  request'[q].to # request'[q].artifact /\ request'[q].ticket <= ticket'
      BY DEF RetiringIsDated
    <2>1. CASE q = r
      BY <1>1, <1>2, <1>3, <1>4, <2>1 DEF MayInherit
    <2>2. CASE q # r
      BY <1>1, <1>3, <1>4, <2>2, RetiringType DEF HeirInv, RetiringIsDated
    <2> QED
      BY <2>1, <2>2
  <1>10. ClaimsPrecede'
    <2> SUFFICES ASSUME NEW b \in Artifacts, NEW h \in HeirsOf(b), NEW c \in Claims \cup {what},
                        c.to = b, h.to # None
                 PROVE  c.ticket <= h.closed \/ h.closed <= back[b]
      BY <1>1, <1>5, <1>6 DEF ClaimsPrecede
    <2>1. b \in archived \/ h.closed <= back[b]
      BY DEF HeirInv, HeirsAreDated
    <2>2. c \in Claims \/ h.closed <= back[b]
      BY <1>1, <1>2, <2>1 DEF MayInherit
    <2> QED
      BY <2>2 DEF HeirInv, ClaimsPrecede
  <1>11. BackIsDated'
    BY <1>1, <1>3 DEF HeirInv, BackIsDated, TypeOK
  <1> QED
    BY <1>8, <1>9, <1>10, <1>11 DEF HeirInv

(* The write: a new heir is dated now, an old one is put back.             *)
LEMMA RetireKeepsHeirs ==
  ASSUME TypeOK, HeirInv, NEW r \in Requests, Retire(r)
  PROVE  HeirInv'
  <1> DEFINE q == request[r]
             new == [to |-> q.to, ticket |-> q.ticket, closed |-> ticket]
             h0 == IF q.to = None THEN q.was ELSE new
  <1>1. /\ r \in Retiring
        /\ \/ archived' = archived \cup {q.artifact} /\ back' = back
           \/ IsLive(q.artifact)
        /\ heir' = [heir EXCEPT ![q.artifact] = h0]
        /\ request' = [request EXCEPT ![r] = Idle] /\ ticket' = ticket
    BY DEF Retire, Done, Retiring
  <1>2. /\ q.artifact \in Artifacts /\ q.to \in Artifacts \cup {None} /\ q.was \in Heir
        /\ q.ticket \in Nat
    BY <1>1, RetiringType
  <1>3. new.to = q.to /\ new.ticket = q.ticket /\ new.closed = ticket
    OBVIOUS
  <1> HIDE DEF new
  <1>4. Retiring' \subseteq Retiring /\ \A p \in Retiring' : request'[p] = request[p]
    BY <1>1 DEF Retiring, TypeOK, Idle
  <1>5. \A b \in Artifacts :
            HeirsOf(b)' \subseteq HeirsOf(b) \cup {h \in {new} : b = q.artifact /\ q.to # None}
    <2> SUFFICES ASSUME NEW b \in Artifacts, NEW h \in HeirsOf(b)'
                 PROVE  h \in HeirsOf(b) \/ (h = new /\ b = q.artifact /\ q.to # None)
      OBVIOUS
    <2>1. CASE h = heir'[b]
      BY <1>1, <2>1 DEF HeirsOf, TypeOK
    <2>2. CASE h # heir'[b]
      BY <1>4, <2>2 DEF HeirsOf
    <2> QED
      BY <2>1, <2>2
  <1>6. Claims' \subseteq Claims \cup {c \in {new} : q.to # None}
    <2> SUFFICES ASSUME NEW c \in Claims' PROVE c \in Claims \/ (c = new /\ q.to # None)
      OBVIOUS
    <2>1. ASSUME NEW a \in Artifacts, c = heir'[a] PROVE c \in Claims \/ (c = new /\ q.to # None)
      BY <1>1, <2>1 DEF Claims, TypeOK
    <2>2. CASE c \notin {heir'[a] : a \in Artifacts}
      BY <1>4, <2>2 DEF Claims
    <2> QED
      BY <2>1, <2>2
  <1>7. \A b \in Artifacts : \A h \in HeirsOf(b) : h \in Heir
    BY RetiringType DEF HeirsOf, TypeOK, Retiring
  <1>8. ticket \in Nat /\ q.ticket <= ticket /\ q.to # q.artifact
    BY <1>1 DEF TypeOK, HeirInv, RetiringIsDated
  <1>9. \A b \in Artifacts : /\ back[b] \in Nat /\ back[b] <= ticket
                             /\ back'[b] = back[b] \/ back'[b] = ticket
                             /\ b \in archived => b \in archived' \/ back'[b] = ticket
    BY <1>1, <1>2 DEF IsLive, TypeOK, HeirInv, BackIsDated
  <1>10. q.artifact \in archived' \/ back'[q.artifact] = ticket
    BY <1>1, <1>2 DEF IsLive, TypeOK
  <1>11. ASSUME NEW b \in Artifacts, NEW h \in HeirsOf(b), h.to # None
         PROVE  /\ b \in archived' \/ h.closed <= back'[b]
                /\ h.closed <= back[b] => h.closed <= back'[b]
                /\ h.to # b /\ h.ticket <= h.closed /\ h.closed <= ticket /\ h.closed \in Nat
    BY <1>7, <1>8, <1>9, <1>11 DEF HeirInv, HeirsAreDated, Heir
  <1>12. HeirsAreDated'
    <2> SUFFICES ASSUME NEW b \in Artifacts, NEW h \in HeirsOf(b)', h.to # None
                 PROVE  /\ b \in archived' \/ h.closed <= back'[b]
                        /\ h.to # b /\ h.ticket <= h.closed /\ h.closed <= ticket'
      BY DEF HeirsAreDated
    <2>1. CASE h \in HeirsOf(b)
      BY <1>1, <1>11, <2>1
    <2>2. CASE h = new /\ b = q.artifact
      BY <1>1, <1>3, <1>8, <1>10, <2>2
    <2> QED
      BY <1>5, <2>1, <2>2
  <1>13. RetiringIsDated'
    BY <1>1, <1>4 DEF HeirInv, RetiringIsDated
  <1>14. \A c \in Claims : c.to # None => c.ticket <= ticket
    <2>1. \A a \in Artifacts : \A h \in HeirsOf(a) : h.to # None => h.ticket <= ticket
      BY <1>7, <1>8 DEF HeirInv, HeirsAreDated, Heir
    <2>2. \A a \in Artifacts : heir[a] \in HeirsOf(a)
      BY DEF HeirsOf
    <2>3. \A p \in Retiring : request[p].was \in HeirsOf(request[p].artifact)
      BY DEF HeirsOf
    <2> QED
      BY <2>1, <2>2, <2>3, RetiringType DEF Claims, HeirInv, RetiringIsDated
  <1>15. ClaimsPrecede'
    <2> SUFFICES ASSUME NEW b \in Artifacts, NEW h \in HeirsOf(b)', NEW c \in Claims',
                        c.to = b, h.to # None
                 PROVE  c.ticket <= h.closed \/ h.closed <= back'[b]
      BY DEF ClaimsPrecede
    <2>1. b # None
      BY LinksConstants
    <2>2. c.ticket <= ticket
      BY <1>3, <1>6, <1>8, <1>14, <2>1
    <2>3. PICK d \in Claims : d.to = c.to /\ d.ticket = c.ticket
      <3>1. q \in Claims
        BY <1>1 DEF Claims
      <3> QED
        BY <1>3, <1>6, <3>1
    <2>4. CASE h \in HeirsOf(b)
      BY <1>11, <2>3, <2>4 DEF HeirInv, ClaimsPrecede
    <2>5. CASE h = new
      BY <1>3, <2>2, <2>5
    <2> QED
      BY <1>5, <2>4, <2>5
  <1>16. BackIsDated'
    BY <1>1, <1>8, <1>9 DEF BackIsDated
  <1> QED
    BY <1>12, <1>13, <1>15, <1>16 DEF HeirInv

LEMMA HeirStep == TypeOK /\ HeirInv /\ [Next]_vars => HeirInv'
  <1> SUFFICES ASSUME TypeOK, HeirInv, [Next]_vars PROVE HeirInv'
    OBVIOUS
  <1>1. ticket \in Nat
    BY DEF TypeOK
  <1>2. ASSUME NEW r \in Requests, NEW what, Reads(r, what), what.kind # "retire",
               heir' = heir, archived' = archived, back' = back
        PROVE  HeirInv'
    <2>1. ticket' = ticket + 1 /\ request' = [request EXCEPT ![r] = what]
      BY <1>2 DEF Reads, Begins
    <2> QED
      BY <1>1, <1>2, <2>1, HeirsStay DEF TypeOK
  <1>3. ASSUME NEW r \in Requests, Done(r), heir' = heir, archived' = archived,
               back' = back, ticket' = ticket
        PROVE  HeirInv'
    BY <1>1, <1>3, HeirsStay DEF Done, Idle, TypeOK
  <1>4. ASSUME UNCHANGED <<heir, archived, back, request, ticket>> PROVE HeirInv'
    BY <1>1, <1>4, HeirsStay
  <1>5. ASSUME NEW r \in Requests, NEW from \in Artifacts, NEW to \in Artifacts,
               NEW rel \in Relations, CheckLink(r, from, to, rel)
        PROVE  HeirInv'
    BY <1>2, <1>5 DEF CheckLink
  <1>6. ASSUME NEW r \in Requests, CheckRun(r) PROVE HeirInv'
    BY <1>2, <1>6 DEF CheckRun
  <1>7. ASSUME NEW r \in Requests, InsertLink(r) \/ InsertRun(r) \/ Fail(r) \/ RetireAgain(r)
        PROVE  HeirInv'
    BY <1>3, <1>7 DEF InsertLink, InsertRun, Fail, RetireAgain
  <1>8. ASSUME NEW l \in links, DeleteLink(l) PROVE HeirInv'
    BY <1>4, <1>8 DEF DeleteLink
  <1>9. ASSUME NEW k \in DOMAIN runs, NEW s \in Steps, UpdateStep(k, s) PROVE HeirInv'
    BY <1>4, <1>9 DEF UpdateStep
  <1>10. ASSUME NEW a \in Artifacts, Accept(a) \/ Rewrite(a) PROVE HeirInv'
    BY <1>10, ReturnKeepsHeirs DEF Accept, Rewrite, Begins
  <1> QED
    BY <1>4, <1>5, <1>6, <1>7, <1>8, <1>9, <1>10, CheckRetirementKeepsHeirs, RetireKeepsHeirs
    DEF Next, vars

(* archive_artifact: of two retirements that follow each other, the second  *)
(* is dated after the first, so a chain of superseded_by that returned to   *)
(* its start, without an artifact that came back with its heir and without *)
(* retirements at the same time, would have no latest one.                 *)
THEOREM ChainsOfHeirsEnd == Spec => []HeirsLeadSomewhere
  <1>1. Init => TypeOK /\ HeirInv
    <2> SUFFICES ASSUME Init PROVE TypeOK /\ HeirInv
      OBVIOUS
    <2>1. TypeOK
      BY DEF Init, TypeOK, NoHeir, Heir, Request
    <2>2. Retiring = {}
      BY DEF Init, Retiring, Idle
    <2>3. \A b \in Artifacts : \A h \in HeirsOf(b) : h.to = None
      BY <2>2 DEF Init, HeirsOf, NoHeir
    <2>4. BackIsDated
      BY DEF Init, BackIsDated
    <2> QED
      BY <2>1, <2>2, <2>3, <2>4 DEF HeirInv, HeirsAreDated, RetiringIsDated, ClaimsPrecede, BackIsDated
  <1>2. TypeOK /\ HeirInv => HeirsLeadSomewhere
    <2> SUFFICES ASSUME TypeOK, HeirInv, NEW ring \in SUBSET Artifacts, ring # {},
                        \A a \in ring : heir[a].to \in ring,
                        \A a, b \in ring : a # b => ~Overlap(heir[a], heir[b]),
                        \A a \in ring : ~CameBack(a)
                 PROVE  FALSE
      BY DEF HeirsLeadSomewhere
    <2>1. \A a \in ring : heir[a] \in Heir /\ heir[a].to # None /\ heir[a] \in HeirsOf(a)
                          /\ heir[a] \in Claims
      BY LinksConstants DEF TypeOK, HeirsOf, Claims
    <2>2. \A a \in ring : /\ heir[a].to # a /\ heir[a].ticket <= heir[a].closed
                          /\ heir[a].closed <= ticket
                          /\ heir[a].ticket \in Nat /\ heir[a].closed \in Nat
      BY <2>1 DEF HeirInv, HeirsAreDated, Heir
    <2>3. ASSUME NEW a \in ring
          PROVE  heir[a].closed < heir[heir[a].to].closed
      <3> DEFINE b == heir[a].to
      <3>1. b \in ring /\ a # b /\ ~Overlap(heir[a], heir[b])
        BY <2>2
      <3>2. heir[a].ticket <= heir[b].closed
        BY <2>1, <3>1 DEF HeirInv, ClaimsPrecede, CameBack
      <3> QED
        BY <2>2, <3>1, <3>2 DEF Overlap, Before
    <2> DEFINE T == {ticket - heir[a].closed : a \in ring}
    <2>4. T \in SUBSET Nat /\ T # {}
      BY <2>2 DEF TypeOK
    <2>5. PICK x \in T : \A y \in T : x <= y
      BY <2>4, LeastNatural
    <2>6. PICK a \in ring : x = ticket - heir[a].closed
      BY <2>5
    <2> DEFINE b == heir[a].to
    <2>7. b \in ring /\ ticket - heir[b].closed \in T /\ heir[a].closed < heir[b].closed
      BY <2>3
    <2>8. x <= ticket - heir[b].closed
      BY <2>5, <2>7
    <2>9. heir[a].closed \in Nat /\ heir[b].closed \in Nat /\ ticket \in Nat
      BY <2>2, <2>7 DEF TypeOK
    <2> HIDE DEF T, b
    <2> QED
      BY <2>6, <2>7, <2>8, <2>9
  <1> QED
    BY <1>1, <1>2, TypeStep, HeirStep, PTL DEF Spec

-----------------------------------------------------------------------------
(* Paths of links *)

Near(S, ls) == S \cup {l.to : l \in {k \in ls : k.from \in S}}

\* g lists what can be reached from a in up to N links.
Listing(g, a, ls, N) ==
    g = [n \in 0..N |-> IF n = 0 THEN {a} ELSE Near(g[n - 1], ls)]

LEMMA ListingExists ==
  ASSUME NEW a, NEW ls, NEW N \in Nat
  PROVE  \E g : Listing(g, a, ls, N)
  <1> DEFINE S == {n \in Nat : \E g : Listing(g, a, ls, n)}
  <1>1. 0 \in S
    <2> DEFINE g == [n \in 0..0 |-> {a}]
    <2>1. g = [n \in 0..0 |-> IF n = 0 THEN {a} ELSE Near(g[n - 1], ls)]
      OBVIOUS
    <2> QED
      BY <2>1 DEF Listing
  <1>2. ASSUME NEW n \in S PROVE n + 1 \in S
    <2>1. PICK g : g = [m \in 0..n |-> IF m = 0 THEN {a} ELSE Near(g[m - 1], ls)]
      BY <1>2 DEF Listing
    <2> DEFINE h == [m \in 0..(n + 1) |-> IF m = n + 1 THEN Near(g[n], ls) ELSE g[m]]
    <2>2. n \in Nat
      OBVIOUS
    <2>3. ASSUME NEW m \in 0..(n + 1)
          PROVE  h[m] = IF m = 0 THEN {a} ELSE Near(h[m - 1], ls)
      <3>1. CASE m = n + 1
        BY <2>2, <3>1
      <3>2. CASE m \in 0..n
        <4>1. g[m] = IF m = 0 THEN {a} ELSE Near(g[m - 1], ls)
          BY <2>1, <3>2
        <4>2. h[m] = g[m] /\ (m # 0 => h[m - 1] = g[m - 1])
          BY <2>2, <3>2
        <4> QED
          BY <4>1, <4>2
      <3> QED
        BY <2>2, <3>1, <3>2
    <2>4. h = [m \in 0..(n + 1) |-> IF m = 0 THEN {a} ELSE Near(h[m - 1], ls)]
      BY <2>3
    <2>5. Listing(h, a, ls, n + 1)
      BY <2>4 DEF Listing
    <2> QED
      BY <2>2, <2>5
  <1> HIDE DEF S
  <1>3. S = Nat
    BY <1>1, <1>2, Induct DEF S
  <1> QED
    BY <1>3 DEF S

LEMMA ReachedIsListed ==
  ASSUME NEW a, NEW ls, Cardinality(ls) \in Nat
  PROVE  \E g : Listing(g, a, ls, Cardinality(ls)) /\ Reached(a, ls) = g[Cardinality(ls)]
  <1> DEFINE N == Cardinality(ls)
             g == CHOOSE f : Listing(f, a, ls, N)
  <1>1. Listing(g, a, ls, N)
    BY ListingExists
  <1>2. Reached(a, ls) = g[N]
    BY DEF Reached, Listing, Near
  <1> QED
    BY <1>1, <1>2

\* Whoever is in S stays in S along ls.
ClosedUnder(S, ls) == \A l \in ls : l.from \in S => l.to \in S

(* Nothing outside a closed set is reached from inside.                    *)
LEMMA ReachedIsWithin ==
  ASSUME NEW a, NEW ls, Cardinality(ls) \in Nat, NEW C, a \in C, ClosedUnder(C, ls)
  PROVE  Reached(a, ls) \subseteq C
  <1> DEFINE N == Cardinality(ls)
  <1>1. PICK g : Listing(g, a, ls, N) /\ Reached(a, ls) = g[N]
    BY ReachedIsListed
  <1> DEFINE S == {n \in Nat : n <= N => g[n] \subseteq C}
  <1>2. 0 \in S
    BY <1>1 DEF Listing
  <1>3. ASSUME NEW n \in S PROVE n + 1 \in S
    <2> SUFFICES ASSUME n + 1 <= N PROVE g[n + 1] \subseteq C
      OBVIOUS
    <2>1. g[n] \subseteq C
      OBVIOUS
    <2>2. g[n + 1] = Near(g[n], ls)
      <3>1. n + 1 \in 0..N /\ n + 1 # 0 /\ (n + 1) - 1 = n
        OBVIOUS
      <3> QED
        BY <1>1, <3>1 DEF Listing
    <2> QED
      BY <2>1, <2>2 DEF Near, ClosedUnder
  <1> HIDE DEF S
  <1>4. S = Nat
    BY <1>2, <1>3, Induct DEF S
  <1> QED
    BY <1>1, <1>4 DEF S

(* What is reached is closed: every round that is not adds a link, and     *)
(* there are as many rounds as links.                                      *)
LEMMA ReachedIsClosed ==
  ASSUME NEW a, NEW ls, IsFiniteSet(ls)
  PROVE  a \in Reached(a, ls) /\ ClosedUnder(Reached(a, ls), ls)
  <1> DEFINE N == Cardinality(ls)
  <1>1. N \in Nat
    BY FS_CardinalityType
  <1>2. PICK g : Listing(g, a, ls, N) /\ Reached(a, ls) = g[N]
    BY <1>1, ReachedIsListed
  <1> DEFINE Into(n) == {l \in ls : l.to \in g[n]}
             Size(n) == Cardinality(Into(n))
             S == {n \in Nat : n <= N =>
                       /\ a \in g[n]
                       /\ ClosedUnder(g[n], ls) \/ n <= Size(n)}
  <1>3. \A n \in Nat : IsFiniteSet(Into(n)) /\ Size(n) \in Nat
    BY FS_Subset, FS_CardinalityType
  <1>4. 0 \in S
    <2>1. g[0] = {a}
      BY <1>1, <1>2 DEF Listing
    <2> QED
      BY <1>3, <2>1
  <1>5. ASSUME NEW n \in S PROVE n + 1 \in S
    <2> SUFFICES ASSUME n + 1 <= N
                 PROVE  a \in g[n + 1] /\ (ClosedUnder(g[n + 1], ls) \/ n + 1 <= Size(n + 1))
      OBVIOUS
    <2>1. n \in Nat /\ a \in g[n] /\ (ClosedUnder(g[n], ls) \/ n <= Size(n))
      BY <1>1
    <2>2. g[n + 1] = Near(g[n], ls)
      <3>1. n + 1 \in 0..N /\ n + 1 # 0 /\ (n + 1) - 1 = n
        BY <1>1, <2>1
      <3> QED
        BY <1>2, <3>1 DEF Listing
    <2>3. a \in g[n + 1]
      BY <2>1, <2>2 DEF Near
    <2>4. CASE ClosedUnder(g[n], ls)
      <3>1. g[n + 1] = g[n]
        BY <2>2, <2>4 DEF Near, ClosedUnder
      <3> QED
        BY <2>3, <2>4, <3>1
    <2>5. CASE ~ClosedUnder(g[n], ls)
      <3>1. PICK l \in ls : l.from \in g[n] /\ l.to \notin g[n]
        BY <2>5 DEF ClosedUnder
      <3>2. Into(n) \cup {l} \subseteq Into(n + 1)
        BY <2>2, <3>1 DEF Near
      <3>3. Cardinality(Into(n) \cup {l}) = Size(n) + 1
        BY <1>3, <2>1, <3>1, FS_AddElement
      <3>4. Size(n) + 1 <= Size(n + 1)
        BY <1>3, <2>1, <3>2, <3>3, FS_Subset
      <3> QED
        BY <1>3, <2>1, <2>3, <2>5, <3>4
    <2> QED
      BY <2>4, <2>5
  <1>6. a \in g[N] /\ (ClosedUnder(g[N], ls) \/ N <= Size(N))
    <2> HIDE DEF S
    <2>1. S = Nat
      BY <1>4, <1>5, Induct DEF S
    <2> QED
      BY <1>1, <2>1 DEF S
  <1>7. CASE N <= Size(N)
    <2>1. Into(N) \subseteq ls
      OBVIOUS
    <2>2. Into(N) = ls
      BY <1>1, <1>3, <1>7, <2>1, FS_Subset
    <2> QED
      BY <1>2, <1>6, <2>2 DEF ClosedUnder
  <1> QED
    BY <1>2, <1>6, <1>7

-----------------------------------------------------------------------------
(* Links *)

Linking == {r \in Requests : request[r].kind = "link"}

\* The links that were there when x was checked, and have not been deleted.
Earlier(x) == {k \in links : Before(k, x)}

\* No path along them leads from the target of x back to its source.
Apart(x) ==
    \E C \in SUBSET Artifacts : x.to \in C /\ x.from \notin C /\ ClosedUnder(C, Earlier(x))

LinksAreDated ==
    /\ \A l \in links : l.ticket <= l.closed /\ l.closed <= ticket
    /\ \A r \in Linking : request[r].ticket <= ticket

LinksAreApart == (\A l \in links : Apart(l)) /\ \A r \in Linking : Apart(request[r])

LinkInv == IsFiniteSet(links) /\ LinksAreDated /\ LinksAreApart

LEMMA LinkingType ==
  ASSUME TypeOK, NEW r \in Linking
  PROVE  /\ request[r].from \in Artifacts /\ request[r].to \in Artifacts
         /\ request[r].rel \in Relations /\ request[r].ticket \in Nat
  BY DEF TypeOK, Linking, Request, Idle

(* Steps that add no link and no request for one.                          *)
LEMMA LinksStay ==
  ASSUME TypeOK, LinkInv, links' \subseteq links, ticket' \in Nat, ticket <= ticket',
         \A q \in Requests : request'[q].kind = "link" => request'[q] = request[q]
  PROVE  LinkInv'
  <1>1. \A r \in Linking' : r \in Linking /\ request'[r] = request[r]
    BY DEF Linking
  <1>2. ticket \in Nat /\ \A l \in links : l.ticket \in Nat /\ l.closed \in Nat
    BY DEF TypeOK, Link
  <1>3. IsFiniteSet(links')
    BY FS_Subset DEF LinkInv
  <1>4. LinksAreDated'
    BY <1>1, <1>2, LinkingType DEF LinkInv, LinksAreDated
  <1>5. ASSUME NEW x, Apart(x) PROVE Apart(x)'
    BY <1>5 DEF Apart, Earlier, ClosedUnder, Before
  <1>6. LinksAreApart'
    BY <1>1, <1>5 DEF LinkInv, LinksAreApart
  <1> QED
    BY <1>3, <1>4, <1>6 DEF LinkInv

(* create_link until the insert: everything reached from the target is a   *)
(* closed set without the source.                                          *)
LEMMA CheckLinkKeepsApart ==
  ASSUME TypeOK, LinkInv, NEW r \in Requests, NEW from \in Artifacts, NEW to \in Artifacts,
         NEW rel \in Relations, CheckLink(r, from, to, rel)
  PROVE  LinkInv'
  <1> DEFINE C == Reached(to, links) \cap Artifacts
  <1>0. PICK what : what = [kind |-> "link", from |-> from, to |-> to, rel |-> rel,
                            ticket |-> ticket + 1]
    OBVIOUS
  <1>1. /\ request' = [request EXCEPT ![r] = what] /\ ticket' = ticket + 1 /\ links' = links
        /\ from \notin Reached(to, links)
    BY <1>0 DEF CheckLink, Reads, Begins, HasLinkPath
  <1>2. what.from = from /\ what.to = to /\ what.ticket = ticket + 1
    BY <1>0
  <1>3. /\ request'[r] = what
        /\ \A q \in Linking' : q # r => q \in Linking /\ request'[q] = request[q]
    BY <1>1 DEF Linking, TypeOK
  <1>4. /\ ticket \in Nat
        /\ \A l \in links : l.ticket \in Nat /\ l.closed \in Nat /\ l.to \in Artifacts
    BY DEF TypeOK, Link
  <1>5. ASSUME NEW x, Apart(x) PROVE Apart(x)'
    BY <1>1, <1>5 DEF Apart, Earlier, ClosedUnder, Before
  <1>6. Apart(what)'
    <2>1. to \in C /\ ClosedUnder(C, links)
      BY <1>4, ReachedIsClosed DEF LinkInv, ClosedUnder
    <2>2. from \notin C /\ C \in SUBSET Artifacts
      BY <1>1
    <2> HIDE DEF C
    <2> QED
      BY <1>1, <1>2, <2>1, <2>2 DEF Apart, Earlier, ClosedUnder
  <1>7. LinksAreDated'
    BY <1>1, <1>2, <1>3, <1>4, LinkingType DEF LinkInv, LinksAreDated
  <1>8. LinksAreApart'
    BY <1>1, <1>3, <1>5, <1>6 DEF LinkInv, LinksAreApart
  <1> QED
    BY <1>1, <1>7, <1>8 DEF LinkInv

(* The insert: the new link is later than every link and request there is. *)
LEMMA InsertLinkKeepsApart ==
  ASSUME TypeOK, LinkInv, NEW r \in Requests, InsertLink(r)
  PROVE  LinkInv'
  <1>0. PICK q, new : /\ q = request[r]
                      /\ new = [from |-> q.from, to |-> q.to, rel |-> q.rel,
                                ticket |-> q.ticket, closed |-> ticket]
    OBVIOUS
  <1>1. /\ r \in Linking /\ links' = links \cup {new} /\ ticket' = ticket
        /\ request' = [request EXCEPT ![r] = Idle]
    BY <1>0 DEF InsertLink, Done, Linking
  <1>2. new.from = q.from /\ new.to = q.to /\ new.ticket = q.ticket /\ new.closed = ticket
    BY <1>0
  <1>3. ticket \in Nat /\ \A l \in links : l.ticket \in Nat /\ l.closed \in Nat
    BY DEF TypeOK, Link
  <1>4. q.ticket \in Nat /\ q.ticket <= ticket
    BY <1>0, <1>1, LinkingType DEF LinkInv, LinksAreDated
  <1>5. \A p \in Linking' : p \in Linking /\ request'[p] = request[p]
    BY <1>1 DEF Linking, TypeOK, Idle
  <1>6. ASSUME NEW x, x.ticket \in Nat, x.ticket <= ticket PROVE Earlier(x)' = Earlier(x)
    BY <1>1, <1>2, <1>3, <1>6 DEF Earlier, Before
  <1>7. ASSUME NEW x, x.ticket \in Nat, x.ticket <= ticket, Apart(x) PROVE Apart(x)'
    BY <1>6, <1>7 DEF Apart
  <1>8. \A l \in links : l.ticket <= ticket
    BY <1>3 DEF LinkInv, LinksAreDated
  <1>9. Apart(new)'
    <2>1. Apart(q)
      BY <1>0, <1>1 DEF LinkInv, LinksAreApart
    <2>2. Earlier(new)' = Earlier(q)
      BY <1>2, <1>4, <1>6 DEF Earlier, Before
    <2> QED
      BY <1>2, <2>1, <2>2 DEF Apart
  <1>10. LinksAreApart'
    BY <1>1, <1>3, <1>5, <1>7, <1>8, <1>9, LinkingType DEF LinkInv, LinksAreApart, LinksAreDated
  <1>11. LinksAreDated'
    BY <1>1, <1>2, <1>3, <1>4, <1>5, LinkingType DEF LinkInv, LinksAreDated
  <1>12. IsFiniteSet(links')
    BY <1>1, FS_AddElement DEF LinkInv
  <1> QED
    BY <1>10, <1>11, <1>12 DEF LinkInv

LEMMA LinkStep == TypeOK /\ LinkInv /\ [Next]_vars => LinkInv'
  <1> SUFFICES ASSUME TypeOK, LinkInv, [Next]_vars PROVE LinkInv'
    OBVIOUS
  <1>1. ticket \in Nat
    BY DEF TypeOK
  <1>2. ASSUME NEW r \in Requests, NEW what, Reads(r, what), what.kind # "link", links' = links
        PROVE  LinkInv'
    <2>1. ticket' = ticket + 1 /\ request' = [request EXCEPT ![r] = what]
      BY <1>2 DEF Reads, Begins
    <2> QED
      BY <1>1, <1>2, <2>1, LinksStay DEF TypeOK
  <1>3. ASSUME NEW r \in Requests, Done(r), links' = links, ticket' = ticket
        PROVE  LinkInv'
    BY <1>1, <1>3, LinksStay DEF Done, Idle, TypeOK
  <1>4. ASSUME links' \subseteq links, UNCHANGED <<request, ticket>> PROVE LinkInv'
    BY <1>1, <1>4, LinksStay
  <1>5. ASSUME NEW r \in Requests, NEW a \in Artifacts, NEW to \in Artifacts \cup {None},
               CheckRetirement(r, a, to)
        PROVE  LinkInv'
    BY <1>2, <1>5 DEF CheckRetirement
  <1>6. ASSUME NEW r \in Requests, CheckRun(r) PROVE LinkInv'
    BY <1>2, <1>6 DEF CheckRun
  <1>7. ASSUME NEW r \in Requests, Retire(r) \/ RetireAgain(r) \/ InsertRun(r) \/ Fail(r)
        PROVE  LinkInv'
    BY <1>3, <1>7 DEF Retire, RetireAgain, InsertRun, Fail
  <1>8. ASSUME NEW l \in links, DeleteLink(l) PROVE LinkInv'
    BY <1>4, <1>8 DEF DeleteLink
  <1>9. ASSUME NEW k \in DOMAIN runs, NEW s \in Steps, UpdateStep(k, s) PROVE LinkInv'
    BY <1>4, <1>9 DEF UpdateStep
  <1>10. ASSUME NEW a \in Artifacts, Accept(a) \/ Rewrite(a) PROVE LinkInv'
    <2>1. UNCHANGED <<links, request>> /\ ticket' = ticket + 1
      BY <1>10 DEF Accept, Rewrite, Begins
    <2> QED
      BY <1>1, <2>1, LinksStay
  <1> QED
    BY <1>4, <1>5, <1>6, <1>7, <1>8, <1>9, <1>10, CheckLinkKeepsApart, InsertLinkKeepsApart
    DEF Next, vars

(* create_link: of the links of a ring that were checked one after the     *)
(* other, the last one was checked when the rest of the ring already led   *)
(* from its target back to its source, and was refused.                    *)
THEOREM RingsComeFromRaces == Spec => []RingsAreRaces
  <1>1. Init => TypeOK /\ LinkInv
    <2> SUFFICES ASSUME Init PROVE TypeOK /\ LinkInv
      OBVIOUS
    <2>1. TypeOK
      BY DEF Init, TypeOK, NoHeir, Heir, Request
    <2>2. links = {} /\ Linking = {}
      BY DEF Init, Linking, Idle
    <2> QED
      BY <2>1, <2>2, FS_EmptySet DEF LinkInv, LinksAreDated, LinksAreApart
  <1>2. TypeOK /\ LinkInv => RingsAreRaces
    <2> SUFFICES ASSUME TypeOK, LinkInv, NEW ring \in SUBSET links, ring # {},
                        \A l \in ring : l.from \in Reached(l.to, ring),
                        \A l, m \in ring : l # m => ~Overlap(l, m)
                 PROVE  FALSE
      BY DEF RingsAreRaces
    <2>1. ticket \in Nat /\ \A l \in ring : /\ l.ticket \in Nat /\ l.closed \in Nat
                                            /\ l.ticket <= l.closed /\ l.closed <= ticket
      BY DEF TypeOK, Link, LinkInv, LinksAreDated
    <2> DEFINE T == {ticket - l.ticket : l \in ring}
    <2>2. T \in SUBSET Nat /\ T # {}
      BY <2>1
    <2>3. PICK x \in T : \A y \in T : x <= y
      BY <2>2, LeastNatural
    <2>4. PICK l \in ring : x = ticket - l.ticket
      BY <2>3
    <2>5. \A k \in ring : k.ticket <= l.ticket
      <3> SUFFICES ASSUME NEW k \in ring PROVE k.ticket <= l.ticket
        OBVIOUS
      <3>1. ticket - l.ticket <= ticket - k.ticket
        BY <2>3, <2>4
      <3> QED
        BY <2>1, <3>1
    <2>6. \A k \in ring : k # l => k \in Earlier(l)
      <3> SUFFICES ASSUME NEW k \in ring, k # l PROVE Before(k, l)
        BY DEF Earlier
      <3>1. k.ticket <= l.ticket /\ l.ticket <= l.closed
        BY <2>1, <2>5
      <3> QED
        BY <2>1, <3>1 DEF Overlap, Before
    <2>7. PICK C \in SUBSET Artifacts :
              l.to \in C /\ l.from \notin C /\ ClosedUnder(C, Earlier(l))
      BY DEF LinkInv, LinksAreApart, Apart
    <2>8. ClosedUnder(C, ring)
      BY <2>6, <2>7 DEF ClosedUnder
    <2>9. Cardinality(ring) \in Nat
      BY FS_Subset, FS_CardinalityType DEF LinkInv
    <2> QED
      BY <2>7, <2>8, <2>9, ReachedIsWithin
  <1> QED
    BY <1>1, <1>2, TypeStep, LinkStep, PTL DEF Spec

=============================================================================
