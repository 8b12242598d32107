--------------------------- MODULE TurnLoopProofs ---------------------------
(***************************************************************************)
(* Proofs about TurnLoop: what holds of a session's graph for any budgets, *)
(* any batches a model asks for, any human and any changes from outside.   *)
(***************************************************************************)
EXTENDS TurnLoop, SequenceTheorems, FiniteSetTheorems, WellFoundedInduction, TLAPS

(* Natural numbers: a set of them that is not empty has a least member, and *)
(* one that contains 0 and every successor is the whole.                   *)
LEMMA LeastNumber ==
    ASSUME NEW T \in SUBSET Nat, T # {}
    PROVE  \E x \in T : \A y \in T : x <= y
  <1> DEFINE R == {ss \in Nat \X Nat : ss[1] < ss[2]}
  <1>1. IsWellFoundedOn(R, Nat)
    BY NatLessThanWellFounded DEF OpToRel
  <1>2. \E x \in T : \A y \in T : ~ (<<y, x>> \in R)
    <2> HIDE DEF R
    <2> QED
      BY <1>1, WFMin
  <1>3. \A x, y \in T : <<y, x>> \notin R => x <= y
    OBVIOUS
  <1> QED
    BY <1>2, <1>3

LEMMA FromZero ==
    ASSUME NEW S \in SUBSET Nat, 0 \in S, \A n \in S : n + 1 \in S
    PROVE  S = Nat
  <1> SUFFICES ASSUME Nat \ S # {} PROVE FALSE
    OBVIOUS
  <1>1. PICK x \in Nat \ S : \A y \in Nat \ S : x <= y
    BY LeastNumber
  <1>2. x - 1 \in Nat /\ x - 1 \in S
    BY <1>1
  <1> QED
    BY <1>1, <1>2

-----------------------------------------------------------------------------
(* Sifting a batch *)

Sifting(g, batch, good, N) ==
    g = [n \in 0 .. N |->
            IF n = 0 THEN <<>>
            ELSE IF batch[n] \in good THEN Append(g[n - 1], batch[n])
            ELSE g[n - 1]]

LEMMA SiftingExists ==
    ASSUME NEW batch, NEW good, NEW N \in Nat
    PROVE  \E g : Sifting(g, batch, good, N)
  <1> DEFINE S == {n \in Nat : \E g : Sifting(g, batch, good, n)}
             Next1(m, before) == IF batch[m] \in good THEN Append(before, batch[m]) ELSE before
  <1>1. 0 \in S
    <2> DEFINE g == [n \in 0 .. 0 |-> <<>>]
    <2>1. g = [n \in 0 .. 0 |-> IF n = 0 THEN <<>>
                                ELSE IF batch[n] \in good THEN Append(g[n - 1], batch[n])
                                ELSE g[n - 1]]
      OBVIOUS
    <2> QED
      BY <2>1 DEF Sifting
  <1>2. ASSUME NEW n \in S PROVE n + 1 \in S
    <2>1. PICK g : g = [m \in 0 .. n |-> IF m = 0 THEN <<>> ELSE Next1(m, g[m - 1])]
      BY <1>2 DEF Sifting
    <2> DEFINE h == [m \in 0 .. (n + 1) |-> IF m = n + 1 THEN Next1(m, g[n]) ELSE g[m]]
    <2>2. n \in Nat
      OBVIOUS
    <2>3. ASSUME NEW m \in 0 .. (n + 1)
          PROVE  h[m] = IF m = 0 THEN <<>> ELSE Next1(m, h[m - 1])
      <3> HIDE DEF Next1
      <3>1. CASE m = n + 1
        BY <2>2, <3>1
      <3>2. CASE m \in 0 .. n
        <4>1. g[m] = IF m = 0 THEN <<>> ELSE Next1(m, g[m - 1])
          BY <2>1, <3>2
        <4>2. h[m] = g[m] /\ (m # 0 => h[m - 1] = g[m - 1])
          BY <2>2, <3>2
        <4> QED
          BY <4>1, <4>2
      <3> QED
        BY <2>2, <3>1, <3>2
    <2>4. h = [m \in 0 .. (n + 1) |-> IF m = 0 THEN <<>> ELSE Next1(m, h[m - 1])]
      <3> HIDE DEF Next1
      <3> QED
        BY <2>3
    <2>5. Sifting(h, batch, good, n + 1)
      <3> HIDE DEF h
      <3> QED
        BY <2>4 DEF Sifting
    <2> QED
      BY <2>2, <2>5
  <1> HIDE DEF S
  <1>3. S = Nat
    BY <1>1, <1>2, FromZero DEF S
  <1> QED
    BY <1>3 DEF S

\* At most one call of the batch stops for the human.
OneStop(batch) ==
    \A i, j \in 1 .. Len(batch) :
        batch[i].tool \in InterruptBearing /\ batch[j].tool \in InterruptBearing => i = j

(* What is left are good calls of the batch, and no more stops than before. *)
LEMMA SiftFacts ==
    ASSUME NEW C, NEW batch \in Seq(C), NEW good
    PROVE  /\ Sift(batch, good) \in Seq(C \cap good)
           /\ OneStop(batch) => OneStop(Sift(batch, good))
  <1> DEFINE N == Len(batch)
             g == CHOOSE f : Sifting(f, batch, good, N)
             Stop(call) == call.tool \in InterruptBearing
             Fine(n) == /\ g[n] \in Seq(C \cap good)
                        /\ OneStop(batch) =>
                             /\ OneStop(g[n])
                             /\ (\E k \in 1 .. Len(g[n]) : Stop(g[n][k]))
                                   => \E i \in 1 .. n : Stop(batch[i])
             S == {n \in Nat : n <= N => Fine(n)}
  <1>1. N \in Nat
    BY LenProperties
  <1>2. Sifting(g, batch, good, N)
    BY <1>1, SiftingExists
  <1>3. Sift(batch, good) = g[N]
    BY DEF Sift, Sifting
  <1> HIDE DEF g, N
  <1>4. 0 \in S
    <2>1. g[0] = <<>>
      BY <1>1, <1>2 DEF Sifting
    <2>2. <<>> \in Seq(C \cap good) /\ Len(<<>>) = 0
      BY EmptySeq
    <2>3. OneStop(<<>>) /\ ~ \E k \in 1 .. Len(<<>>) : Stop(<<>>[k])
      BY <2>2 DEF OneStop
    <2> QED
      BY <2>1, <2>2, <2>3
  <1>5. ASSUME NEW n \in S PROVE n + 1 \in S
    <2> SUFFICES ASSUME n + 1 <= N PROVE Fine(n + 1)
      OBVIOUS
    <2>1. n \in Nat /\ n + 1 \in 1 .. N /\ batch[n + 1] \in C
      <3>1. n + 1 \in 1 .. N
        BY <1>1
      <3> QED
        BY <3>1, ElementOfSeq DEF N
    <2>2. Fine(n)
      BY <1>1, <2>1
    <2>3. g[n + 1] = IF batch[n + 1] \in good THEN Append(g[n], batch[n + 1]) ELSE g[n]
      <3>1. n + 1 \in 0 .. N /\ n + 1 # 0 /\ (n + 1) - 1 = n
        BY <2>1
      <3> QED
        BY <1>2, <3>1 DEF Sifting
    <2>4. CASE batch[n + 1] \notin good
      <3>1. g[n + 1] = g[n]
        BY <2>3, <2>4
      <3> QED
        BY <2>1, <2>2, <3>1
    <2>5. CASE batch[n + 1] \in good
      <3> DEFINE out == g[n]
                 call == batch[n + 1]
      <3>1. out \in Seq(C \cap good) /\ call \in C \cap good /\ g[n + 1] = Append(out, call)
        BY <2>1, <2>2, <2>3, <2>5
      <3>2. Len(out) \in Nat
        BY <3>1, LenProperties
      <3>3. /\ g[n + 1] \in Seq(C \cap good)
            /\ Len(g[n + 1]) = Len(out) + 1
            /\ \A k \in 1 .. Len(out) : g[n + 1][k] = out[k]
            /\ g[n + 1][Len(out) + 1] = call
        <4> HIDE DEF out, call
        <4> QED
          BY <3>1, AppendProperties
      <3>4. ASSUME OneStop(batch)
            PROVE  /\ OneStop(g[n + 1])
                   /\ (\E k \in 1 .. Len(g[n + 1]) : Stop(g[n + 1][k]))
                          => \E i \in 1 .. n + 1 : Stop(batch[i])
        <4>1. /\ OneStop(out)
              /\ (\E k \in 1 .. Len(out) : Stop(out[k])) => \E i \in 1 .. n : Stop(batch[i])
          BY <2>2, <3>4
        <4>2. Stop(call) => \A i \in 1 .. n : ~Stop(batch[i])
          BY <1>1, <2>1, <3>4 DEF OneStop, N
        <4>3. Stop(call) => \A k \in 1 .. Len(out) : ~Stop(out[k])
          BY <4>1, <4>2
        <4> HIDE DEF out, call
        <4>4. OneStop(g[n + 1])
          BY <3>2, <3>3, <4>1, <4>3, SMTT(20) DEF OneStop
        <4>5. ASSUME NEW k \in 1 .. Len(g[n + 1]), Stop(g[n + 1][k])
              PROVE  \E i \in 1 .. n + 1 : Stop(batch[i])
          <5>1. CASE k \in 1 .. Len(out)
            BY <2>1, <3>3, <4>1, <4>5, <5>1
          <5>2. CASE k = Len(out) + 1
            BY <2>1, <3>3, <4>5, <5>2 DEF call
          <5> QED
            BY <3>2, <3>3, <5>1, <5>2, SMTT(20)
        <4> QED
          BY <4>4, <4>5
      <3> QED
        BY <3>3, <3>4
    <2> QED
      BY <2>4, <2>5
  <1> HIDE DEF S
  <1>6. S = Nat
    BY <1>4, <1>5, FromZero DEF S
  <1> QED
    BY <1>1, <1>3, <1>6 DEF S

-----------------------------------------------------------------------------
(* The gates *)

LEMMA StopsAreRanked ==
    /\ \A tool \in InterruptBearing : Rank(tool) \in Nat
    /\ InterruptBearing = {"ask_user", "confirm_intent", "write_draft", "finalize",
                            "create_artifact_link", "propose_retirement", "respond"}
  <1>1. DOMAIN Priority = 1 .. 7
    BY DEF Priority
  <1>2. \A tool \in InterruptBearing : \E i \in DOMAIN Priority : Priority[i] = tool
    BY DEF InterruptBearing, Range
  <1>3. \A tool \in InterruptBearing : Rank(tool) \in Nat
    BY <1>1, <1>2 DEF Rank
  <1>4. InterruptBearing = {Priority[i] : i \in 1 .. 7}
    BY <1>1 DEF InterruptBearing, Range
  <1>5. 1 .. 7 = {1, 2, 3, 4, 5, 6, 7}
    OBVIOUS
  <1>6. InterruptBearing = {Priority[1], Priority[2], Priority[3], Priority[4], Priority[5],
                            Priority[6], Priority[7]}
    BY <1>4, <1>5
  <1> QED
    BY <1>3, <1>6 DEF Priority

(* The first stop by priority exists.                                      *)
LEMMA FirstStop ==
    ASSUME NEW batch, DOMAIN batch \subseteq Nat,
           NEW stops, stops = {i \in DOMAIN batch : batch[i].tool \in InterruptBearing},
           stops # {}
    PROVE  \E i \in stops : \A j \in stops :
              \/ Rank(batch[i].tool) < Rank(batch[j].tool)
              \/ Rank(batch[i].tool) = Rank(batch[j].tool) /\ i <= j
  <1> DEFINE rank(i) == Rank(batch[i].tool)
             ranks == {rank(i) : i \in stops}
  <1>1. \A i \in stops : rank(i) \in Nat
    BY StopsAreRanked
  <1> HIDE DEF rank
  <1>2. PICK r \in ranks : \A x \in ranks : r <= x
    BY <1>1, LeastNumber
  <1> DEFINE best == {i \in stops : rank(i) = r}
  <1>3. best \in SUBSET Nat /\ best # {}
    BY <1>2
  <1>4. PICK i \in best : \A j \in best : i <= j
    <2> HIDE DEF best
    <2> QED
      BY <1>3, LeastNumber
  <1>5. \A j \in stops : rank(i) < rank(j) \/ (rank(i) = rank(j) /\ i <= j)
    BY <1>1, <1>2, <1>4
  <1> QED
    BY <1>4, <1>5 DEF rank

(* One call at most stops, and every call left is one of the batch.        *)
LEMMA SoloFacts ==
    ASSUME NEW C, NEW batch \in Seq(C)
    PROVE  Solo(batch) \in Seq(C) /\ OneStop(Solo(batch))
  <1> DEFINE stops == {i \in DOMAIN batch : batch[i].tool \in InterruptBearing}
             ofTools(tools) == {c \in Range(batch) : c.tool \in tools}
  <1>1. DOMAIN batch = 1 .. Len(batch) /\ Len(batch) \in Nat
    BY LenProperties
  <1>2. CASE stops = {}
    <2>1. OneStop(batch)
      BY <1>1, <1>2 DEF OneStop
    <2>2. Cardinality(stops) = 0
      BY <1>2, FS_EmptySet
    <2> HIDE DEF stops
    <2>3. Solo(batch) = batch
      BY <1>2, <2>2 DEF Solo, stops
    <2> QED
      BY <2>1, <2>3
  <1>3. CASE stops # {} /\ Cardinality(stops) = 1
    <2>1. OneStop(batch)
      <3>1. IsFiniteSet(stops)
        <4>1. stops \subseteq 1 .. Len(batch) /\ IsFiniteSet(1 .. Len(batch))
          BY <1>1, FS_Interval
        <4> QED
          BY <4>1, FS_Subset
      <3>2. \E x : stops = {x}
        <4> HIDE DEF stops
        <4> QED
          BY <1>3, <3>1, FS_Singleton
      <3> QED
        BY <1>1, <3>2 DEF OneStop
    <2>2. Solo(batch) = Sift(batch, ofTools(InterruptBearing \cup Riders))
      BY <1>3 DEF Solo, OfTools
    <2> HIDE DEF ofTools
    <2>3. Sift(batch, ofTools(InterruptBearing \cup Riders))
             \in Seq(C \cap ofTools(InterruptBearing \cup Riders))
      BY SiftFacts
    <2>4. OneStop(Sift(batch, ofTools(InterruptBearing \cup Riders)))
      BY <2>1, SiftFacts
    <2>5. Seq(C \cap ofTools(InterruptBearing \cup Riders)) \subseteq Seq(C)
      BY SeqMonotonic
    <2> QED
      BY <2>2, <2>3, <2>4, <2>5
  <1>4. CASE stops # {} /\ Cardinality(stops) # 1
    <2> DEFINE kept == CHOOSE i \in stops : \A j \in stops :
                          \/ Rank(batch[i].tool) < Rank(batch[j].tool)
                          \/ Rank(batch[i].tool) = Rank(batch[j].tool) /\ i <= j
               riders == Sift(batch, ofTools(Riders))
    <2>1. kept \in stops
      <3>1. DOMAIN batch \subseteq Nat
        BY <1>1
      <3> HIDE DEF stops
      <3>2. \E i \in stops : \A j \in stops :
              \/ Rank(batch[i].tool) < Rank(batch[j].tool)
              \/ Rank(batch[i].tool) = Rank(batch[j].tool) /\ i <= j
        BY <1>4, <3>1, FirstStop DEF stops
      <3> QED
        BY <3>2
    <2>2. Solo(batch) = <<batch[kept]>> \o riders
      BY <1>4 DEF Solo, OfTools
    <2> HIDE DEF kept
    <2>3. batch[kept] \in C
      BY <1>1, <2>1, ElementOfSeq
    <2>4. riders \in Seq(C \cap ofTools(Riders))
      BY SiftFacts
    <2>5. \A c \in ofTools(Riders) : c.tool \notin InterruptBearing
      BY StopsAreRanked DEF Riders
    <2> HIDE DEF riders, ofTools, stops
    <2>6. Len(riders) \in Nat /\ \A k \in 1 .. Len(riders) : riders[k] \in C \cap ofTools(Riders)
      BY <2>4, LenProperties, ElementOfSeq
    <2>7. riders \in Seq(C)
      BY <2>4, SeqMonotonic
    <2>8. <<batch[kept]>> \in Seq(C) /\ Len(<<batch[kept]>>) = 1
      BY <2>3
    <2>9. /\ Solo(batch) \in Seq(C)
          /\ Len(Solo(batch)) = 1 + Len(riders)
          /\ \A k \in 1 .. 1 + Len(riders) :
                Solo(batch)[k] = IF k <= 1 THEN <<batch[kept]>>[k] ELSE riders[k - 1]
      BY <2>2, <2>7, <2>8, ConcatProperties
    <2>10. \A k \in 1 .. Len(Solo(batch)) : k # 1 => Solo(batch)[k].tool \notin InterruptBearing
      BY <2>5, <2>6, <2>9
    <2>11. OneStop(Solo(batch))
      BY <2>10 DEF OneStop
    <2> QED
      BY <2>9, <2>11
  <1> QED
    BY <1>2, <1>3, <1>4

(* What the gates let through, they allow, and it stops once at most.      *)
LEMMA GatedFacts ==
    ASSUME NEW s, NEW life, NEW request \in Requests
    PROVE  LET batch == Gated(s, life, request)
           IN  /\ batch \in Seq({c \in Range(request) : GateAllows(s, life, c)})
               /\ OneStop(batch)
  <1> DEFINE allowed == {c \in Range(request) : GateAllows(s, life, c)}
  <1>1. request \in Seq(Range(request))
    BY TurnConstants
  <1>2. Sift(request, allowed) \in Seq(Range(request) \cap allowed)
    <2> HIDE DEF allowed
    <2> QED
      BY <1>1, SiftFacts
  <1>3. Range(request) \cap allowed = allowed
    OBVIOUS
  <1>4. Gated(s, life, request) = Solo(Sift(request, allowed))
    BY DEF Gated
  <1> HIDE DEF allowed
  <1>5. Solo(Sift(request, allowed)) \in Seq(allowed) /\ OneStop(Solo(Sift(request, allowed)))
    BY <1>2, <1>3, SoloFacts
  <1> QED
    BY <1>4, <1>5 DEF allowed

-----------------------------------------------------------------------------
(* What a batch does to the channels *)

\* The channels of WorkflowState.
Names == {"phase", "confirmed", "elicited", "nodes", "draft", "rounds", "report", "scored",
          "readiness", "turns", "last", "repeats", "judged", "sections", "humans", "life",
          "open", "dangling", "torn"}

Channels(s) ==
    /\ DOMAIN s = Names
    /\ s.confirmed \in BOOLEAN /\ s.elicited \in BOOLEAN
    /\ s.humans \in Nat /\ s.rounds \in Nat

(* The call takes a message of the human.                                  *)
Talks(s, d, r, call) == call.tool \in Talkers /\ ~Refused(s, d, r, call)

\* The channels only some tools touch.
SameElsewhere(s, t) ==
    /\ t.phase = s.phase
    /\ t.open = s.open /\ t.dangling = s.dangling /\ t.torn = s.torn

(* The update of one call: what it leaves alone, and what it adds.         *)
LEMMA EffectFacts ==
    ASSUME NEW acc, NEW s, NEW d, NEW r, NEW call, NEW verdict \in {"pass", "fail"},
           Channels(acc), Channels(s)
    PROVE  LET e == Effect(acc, s, d, r, call, verdict)
           IN  /\ Channels(e)
               /\ SameElsewhere(acc, e)
               /\ acc.confirmed => e.confirmed
               /\ e.humans = acc.humans + (IF Talks(s, d, r, call) THEN 1 ELSE 0)
               /\ \/ e.rounds = acc.rounds /\ e.report = acc.report
                  \/ call.tool = "run_critique" /\ ~CritiqueRefused(s)
               /\ e.draft = acc.draft \/ e.draft # Blank
               /\ DOMAIN acc.nodes \subseteq DOMAIN e.nodes
               /\ call.tool = "note" => call.id \in DOMAIN e.nodes
               /\ e.sections = IF call.tool = "write_draft_section"
                               THEN Merge(acc.sections, Put(s.sections, call.heading, Section(s, call)))
                               ELSE acc.sections
  <1> DEFINE e == Effect(acc, s, d, r, call, verdict)
             Result(f) == /\ Channels(f)
                          /\ SameElsewhere(acc, f)
                          /\ acc.confirmed => f.confirmed
                          /\ f.humans = acc.humans + (IF Talks(s, d, r, call) THEN 1 ELSE 0)
                          /\ \/ f.rounds = acc.rounds /\ f.report = acc.report
                             \/ call.tool = "run_critique" /\ ~CritiqueRefused(s)
                          /\ f.draft = acc.draft \/ f.draft # Blank
                          /\ DOMAIN acc.nodes \subseteq DOMAIN f.nodes
                          /\ call.tool = "note" => call.id \in DOMAIN f.nodes
                          /\ f.sections =
                               IF call.tool = "write_draft_section"
                               THEN Merge(acc.sections, Put(s.sections, call.heading, Section(s, call)))
                               ELSE acc.sections
  <1> USE DEF Channels, SameElsewhere, Names, Talks, Talkers
  <1>1. CASE Refused(s, d, r, call)
    <2>1. call.tool # "note" /\ call.tool # "write_draft_section"
      BY <1>1 DEF Refused
    <2>2. e = acc
      BY <1>1 DEF Effect
    <2> QED
      BY <1>1, <2>1, <2>2
  <1>2. CASE ~Refused(s, d, r, call) /\ call.tool = "note"
    <2>1. e = [acc EXCEPT !.nodes = Merge(acc.nodes, Put(s.nodes, call.id, NoteStatus(call.id)))]
      BY <1>2 DEF Effect, Noted
    <2>2. /\ DOMAIN acc.nodes \subseteq DOMAIN Merge(acc.nodes, Put(s.nodes, call.id, NoteStatus(call.id)))
          /\ call.id \in DOMAIN Merge(acc.nodes, Put(s.nodes, call.id, NoteStatus(call.id)))
      BY DEF Merge, Put
    <2> QED
      BY <1>2, <2>1, <2>2
  <1>3. CASE ~Refused(s, d, r, call) /\ call.tool = "run_impact_analysis"
    <2> DEFINE after == [n \in DOMAIN s.nodes |->
                           IF n \in call.ids /\ s.nodes[n] # "superseded" THEN "needs_confirmation"
                           ELSE s.nodes[n]]
    <2>1. e = [acc EXCEPT !.nodes = Merge(acc.nodes, after)]
      BY <1>3 DEF Effect, Impacted
    <2>2. DOMAIN acc.nodes \subseteq DOMAIN Merge(acc.nodes, after)
      BY DEF Merge
    <2> HIDE DEF after
    <2> QED
      BY <1>3, <2>1, <2>2
  <1>4. CASE ~Refused(s, d, r, call) /\ call.tool = "write_draft_section"
    <2>1. e = [acc EXCEPT !.sections =
                 Merge(acc.sections, Put(s.sections, call.heading, Section(s, call)))]
      BY <1>4 DEF Effect, Sectioned
    <2> QED
      BY <1>4, <2>1
  <1>5. CASE ~Refused(s, d, r, call) /\ call.tool = "elicit"
    <2>1. e = [acc EXCEPT !.elicited = TRUE]
      BY <1>5 DEF Effect
    <2> QED
      BY <1>5, <2>1
  <1>6. CASE ~Refused(s, d, r, call) /\ call.tool \in {"ask_user", "respond"}
    <2>1. e = [acc EXCEPT !.humans = acc.humans + 1]
      BY <1>6 DEF Effect
    <2> QED
      BY <1>6, <2>1
  <1>7. CASE ~Refused(s, d, r, call) /\ call.tool = "confirm_intent"
    <2>1. e = [acc EXCEPT !.humans = acc.humans + 1, !.confirmed = TRUE]
      BY <1>7 DEF Effect
    <2> QED
      BY <1>7, <2>1
  <1>8. CASE ~Refused(s, d, r, call) /\ call.tool = "write_draft"
    <2> DEFINE body == ProposedBody(s, call.text)
    <2>1. e = [acc EXCEPT !.draft = body, !.readiness = Readiness(body, s.nodes)]
      BY <1>8 DEF Effect, Drafted
    <2>2. body # Blank
      BY <1>8 DEF Refused, DraftRefused
    <2> HIDE DEF body
    <2> QED
      BY <1>8, <2>1, <2>2
  <1>9. CASE ~Refused(s, d, r, call) /\ call.tool = "run_critique"
    <2> DEFINE rounds == IF s.rounds < MaxRounds THEN s.rounds + 1 ELSE s.rounds
    <2>1. e = [acc EXCEPT !.report = verdict, !.scored = Body(s), !.rounds = rounds]
      BY <1>9 DEF Effect, Critiqued
    <2>2. rounds \in Nat
      OBVIOUS
    <2>3. ~CritiqueRefused(s)
      BY <1>9 DEF Refused
    <2> HIDE DEF rounds
    <2> QED
      BY <1>9, <2>1, <2>2, <2>3
  <1>10. CASE /\ ~Refused(s, d, r, call)
              /\ call.tool \notin {"note", "run_impact_analysis", "write_draft_section", "elicit",
                                   "ask_user", "respond", "confirm_intent", "write_draft",
                                   "run_critique"}
    <2>1. e = acc
      BY <1>10 DEF Effect
    <2> QED
      BY <1>10, <2>1
  <1> QED
    BY <1>1, <1>2, <1>3, <1>4, <1>5, <1>6, <1>7, <1>8, <1>9, <1>10

Applying(g, s, d, r, batch, verdict, N) ==
    g = [n \in 0 .. N |->
            IF n = 0 THEN s ELSE Effect(g[n - 1], s, d, r, batch[n], verdict)]

LEMMA ApplyingExists ==
    ASSUME NEW s, NEW d, NEW r, NEW batch, NEW verdict, NEW N \in Nat
    PROVE  \E g : Applying(g, s, d, r, batch, verdict, N)
  <1> DEFINE S == {n \in Nat : \E g : Applying(g, s, d, r, batch, verdict, n)}
             Next1(m, before) == Effect(before, s, d, r, batch[m], verdict)
  <1>1. 0 \in S
    <2> DEFINE g == [n \in 0 .. 0 |-> s]
    <2>1. g = [n \in 0 .. 0 |-> IF n = 0 THEN s ELSE Next1(n, g[n - 1])]
      OBVIOUS
    <2> QED
      BY <2>1 DEF Applying
  <1>2. ASSUME NEW n \in S PROVE n + 1 \in S
    <2>1. PICK g : g = [m \in 0 .. n |-> IF m = 0 THEN s ELSE Next1(m, g[m - 1])]
      BY <1>2 DEF Applying
    <2> DEFINE h == [m \in 0 .. (n + 1) |-> IF m = n + 1 THEN Next1(m, g[n]) ELSE g[m]]
    <2>2. n \in Nat
      OBVIOUS
    <2>3. ASSUME NEW m \in 0 .. (n + 1)
          PROVE  h[m] = IF m = 0 THEN s ELSE Next1(m, h[m - 1])
      <3> HIDE DEF Next1
      <3>1. CASE m = n + 1
        BY <2>2, <3>1
      <3>2. CASE m \in 0 .. n
        <4>1. g[m] = IF m = 0 THEN s ELSE Next1(m, g[m - 1])
          BY <2>1, <3>2
        <4>2. h[m] = g[m] /\ (m # 0 => h[m - 1] = g[m - 1])
          BY <2>2, <3>2
        <4> QED
          BY <4>1, <4>2
      <3> QED
        BY <2>2, <3>1, <3>2
    <2>4. h = [m \in 0 .. (n + 1) |-> IF m = 0 THEN s ELSE Next1(m, h[m - 1])]
      <3> HIDE DEF Next1
      <3> QED
        BY <2>3
    <2>5. Applying(h, s, d, r, batch, verdict, n + 1)
      <3> HIDE DEF h
      <3> QED
        BY <2>4 DEF Applying
    <2> QED
      BY <2>2, <2>5
  <1> HIDE DEF S
  <1>3. S = Nat
    BY <1>1, <1>2, FromZero DEF S
  <1> QED
    BY <1>3 DEF S

\* g holds the channels after each call of the batch.
Stepwise(g, s, d, r, batch, verdict) ==
    /\ g[0] = s
    /\ g[Len(batch)] = Applied(s, d, r, batch, verdict)
    /\ \A n \in 1 .. Len(batch) : g[n] = Effect(g[n - 1], s, d, r, batch[n], verdict)

LEMMA AppliedIsStepwise ==
    ASSUME NEW s, NEW d, NEW r, NEW batch, NEW verdict, Len(batch) \in Nat
    PROVE  \E g : Stepwise(g, s, d, r, batch, verdict)
  <1> DEFINE g == CHOOSE f : Applying(f, s, d, r, batch, verdict, Len(batch))
  <1>1. Applying(g, s, d, r, batch, verdict, Len(batch))
    BY ApplyingExists
  <1>2. Applied(s, d, r, batch, verdict) = g[Len(batch)]
    BY DEF Applied, Applying
  <1> HIDE DEF g
  <1>3. g[0] = s
    BY <1>1 DEF Applying
  <1>4. \A n \in 1 .. Len(batch) : g[n] = Effect(g[n - 1], s, d, r, batch[n], verdict)
    BY <1>1 DEF Applying
  <1> QED
    BY <1>2, <1>3, <1>4 DEF Stepwise

\* The first n calls have been applied to s, and t is the result.
Progressed(n, s, t, d, r, batch) ==
    /\ Channels(t)
    /\ SameElsewhere(s, t)
    /\ s.confirmed => t.confirmed
    /\ OneStop(batch) =>
          t.humans = s.humans + (IF \E i \in 1 .. n : Talks(s, d, r, batch[i]) THEN 1 ELSE 0)
    /\ \/ t.rounds = s.rounds /\ t.report = s.report
       \/ ~CritiqueRefused(s) /\ \E i \in 1 .. n : batch[i].tool = "run_critique"
    /\ t.draft = s.draft \/ t.draft # Blank
    /\ DOMAIN s.nodes \subseteq DOMAIN t.nodes
    /\ \A i \in 1 .. n : batch[i].tool = "note" => batch[i].id \in DOMAIN t.nodes

LEMMA TalkersStop == Talkers \subseteq InterruptBearing
  BY StopsAreRanked DEF Talkers

LEMMA ProgressStep ==
    ASSUME NEW s, NEW t, NEW d, NEW r, NEW batch, NEW verdict \in {"pass", "fail"},
           Len(batch) \in Nat, NEW n \in Nat, n + 1 <= Len(batch),
           Channels(s), Progressed(n, s, t, d, r, batch)
    PROVE  Progressed(n + 1, s, Effect(t, s, d, r, batch[n + 1], verdict), d, r, batch)
  <1> DEFINE call == batch[n + 1]
             e == Effect(t, s, d, r, call, verdict)
  <1>1. /\ Channels(e)
        /\ SameElsewhere(t, e)
        /\ t.confirmed => e.confirmed
        /\ e.humans = t.humans + (IF Talks(s, d, r, call) THEN 1 ELSE 0)
        /\ \/ e.rounds = t.rounds /\ e.report = t.report
           \/ call.tool = "run_critique" /\ ~CritiqueRefused(s)
        /\ e.draft = t.draft \/ e.draft # Blank
        /\ DOMAIN t.nodes \subseteq DOMAIN e.nodes
        /\ call.tool = "note" => call.id \in DOMAIN e.nodes
    BY EffectFacts DEF Progressed
  <1> HIDE DEF e
  <1>2. \A i \in 1 .. (n + 1) : i \in 1 .. n \/ i = n + 1
    OBVIOUS
  <1>3. n + 1 \in 1 .. (n + 1) /\ \A i \in 1 .. n : i \in 1 .. (n + 1)
    OBVIOUS
  <1>4. ASSUME OneStop(batch)
        PROVE  e.humans = s.humans
                  + (IF \E i \in 1 .. (n + 1) : Talks(s, d, r, batch[i]) THEN 1 ELSE 0)
    <2>1. t.humans = s.humans + (IF \E i \in 1 .. n : Talks(s, d, r, batch[i]) THEN 1 ELSE 0)
      BY <1>4 DEF Progressed
    <2>2. s.humans \in Nat
      BY DEF Channels
    <2>3. CASE Talks(s, d, r, call)
      <3>1. \A i \in 1 .. n : ~Talks(s, d, r, batch[i])
        BY <1>4, <2>3, TalkersStop DEF Talks, OneStop
      <3> QED
        BY <1>1, <1>3, <2>1, <2>2, <2>3, <3>1
    <2>4. CASE ~Talks(s, d, r, call)
      <3>1. (\E i \in 1 .. (n + 1) : Talks(s, d, r, batch[i]))
               <=> \E i \in 1 .. n : Talks(s, d, r, batch[i])
        BY <1>2, <1>3, <2>4
      <3> QED
        BY <1>1, <2>1, <2>2, <2>4, <3>1
    <2> QED
      BY <2>3, <2>4
  <1>5. \/ e.rounds = s.rounds /\ e.report = s.report
        \/ ~CritiqueRefused(s) /\ \E i \in 1 .. (n + 1) : batch[i].tool = "run_critique"
    BY <1>1, <1>3 DEF Progressed
  <1>6. \A i \in 1 .. (n + 1) : batch[i].tool = "note" => batch[i].id \in DOMAIN e.nodes
    BY <1>1, <1>2 DEF Progressed
  <1>7. /\ SameElsewhere(s, e)
        /\ s.confirmed => e.confirmed
        /\ e.draft = s.draft \/ e.draft # Blank
        /\ DOMAIN s.nodes \subseteq DOMAIN e.nodes
    BY <1>1 DEF Progressed, SameElsewhere
  <1>8. Progressed(n + 1, s, e, d, r, batch)
    BY <1>1, <1>4, <1>5, <1>6, <1>7 DEF Progressed
  <1> QED
    BY <1>8 DEF e

(* The updates of a whole batch.                                           *)
LEMMA AppliedFacts ==
    ASSUME NEW s, NEW d, NEW r, NEW batch, NEW verdict \in {"pass", "fail"},
           Len(batch) \in Nat, Channels(s)
    PROVE  Progressed(Len(batch), s, Applied(s, d, r, batch, verdict), d, r, batch)
  <1>1. PICK g : Stepwise(g, s, d, r, batch, verdict)
    BY AppliedIsStepwise
  <1> DEFINE N == Len(batch)
  <1> DEFINE S == {n \in Nat : n <= N => Progressed(n, s, g[n], d, r, batch)}
  <1>2. 0 \in S
    <2>1. \A i \in 1 .. 0 : FALSE
      OBVIOUS
    <2>2. Progressed(0, s, s, d, r, batch)
      BY <2>1 DEF Progressed, SameElsewhere, Channels
    <2> QED
      BY <1>1, <2>2 DEF Stepwise
  <1>3. ASSUME NEW n \in S PROVE n + 1 \in S
    <2> SUFFICES ASSUME n + 1 <= N PROVE Progressed(n + 1, s, g[n + 1], d, r, batch)
      OBVIOUS
    <2>1. n \in Nat /\ Progressed(n, s, g[n], d, r, batch)
      OBVIOUS
    <2>2. g[n + 1] = Effect(g[n], s, d, r, batch[n + 1], verdict)
      <3>1. n + 1 \in 1 .. N /\ (n + 1) - 1 = n
        BY <2>1
      <3> QED
        BY <1>1, <3>1 DEF Stepwise
    <2> HIDE DEF S
    <2> QED
      BY <2>1, <2>2, ProgressStep
  <1> HIDE DEF S
  <1>4. S = Nat
    BY <1>2, <1>3, FromZero DEF S
  <1> QED
    BY <1>1, <1>4 DEF S, Stepwise

(* The only section writer of a batch leaves its section behind.           *)
LEMMA OnlySection ==
    ASSUME NEW s, NEW d, NEW r, NEW batch, NEW verdict \in {"pass", "fail"},
           Len(batch) \in Nat, Channels(s),
           NEW k \in 1 .. Len(batch), batch[k].tool = "write_draft_section",
           \A j \in 1 .. Len(batch) : batch[j].tool = "write_draft_section" => j = k
    PROVE  Applied(s, d, r, batch, verdict).sections =
              Merge(s.sections, Put(s.sections, batch[k].heading, Section(s, batch[k])))
  <1>1. PICK g : Stepwise(g, s, d, r, batch, verdict)
    BY AppliedIsStepwise
  <1> DEFINE N == Len(batch)
             after == Merge(s.sections, Put(s.sections, batch[k].heading, Section(s, batch[k])))
             Held(n) == /\ Progressed(n, s, g[n], d, r, batch)
                        /\ g[n].sections = IF n < k THEN s.sections ELSE after
             S == {n \in Nat : n <= N => Held(n)}
  <1>2. 0 \in S
    <2>1. Progressed(0, s, s, d, r, batch)
      <3>1. \A i \in 1 .. 0 : FALSE
        OBVIOUS
      <3> QED
        BY <3>1 DEF Progressed, SameElsewhere, Channels
    <2>2. 0 < k
      OBVIOUS
    <2> HIDE DEF after
    <2> QED
      BY <1>1, <2>1, <2>2 DEF Stepwise
  <1>3. ASSUME NEW n \in S PROVE n + 1 \in S
    <2> SUFFICES ASSUME n + 1 <= N PROVE Held(n + 1)
      OBVIOUS
    <2>1. n \in Nat /\ Held(n)
      OBVIOUS
    <2>2. n + 1 \in 1 .. N /\ g[n + 1] = Effect(g[n], s, d, r, batch[n + 1], verdict)
      <3>1. n + 1 \in 1 .. N /\ (n + 1) - 1 = n
        BY <2>1
      <3> QED
        BY <1>1, <3>1 DEF Stepwise
    <2>3. Progressed(n + 1, s, g[n + 1], d, r, batch)
      BY <2>1, <2>2, ProgressStep
    <2>4. g[n + 1].sections =
             IF batch[n + 1].tool = "write_draft_section"
             THEN Merge(g[n].sections,
                        Put(s.sections, batch[n + 1].heading, Section(s, batch[n + 1])))
             ELSE g[n].sections
      BY <2>1, <2>2, EffectFacts DEF Progressed
    <2>5. CASE n + 1 = k
      BY <2>1, <2>3, <2>4, <2>5
    <2>6. CASE n + 1 # k
      <3>1. batch[n + 1].tool # "write_draft_section"
        BY <2>2, <2>6
      <3>2. n + 1 < k <=> n < k
        BY <2>1, <2>6
      <3> HIDE DEF after
      <3> QED
        BY <2>1, <2>3, <2>4, <3>1, <3>2
    <2> QED
      BY <2>5, <2>6
  <1> HIDE DEF S
  <1>4. S = Nat
    BY <1>2, <1>3, FromZero DEF S
  <1>5. g[N].sections = after
    <2> HIDE DEF after
    <2> QED
      BY <1>4 DEF S
  <1> QED
    BY <1>1, <1>5 DEF Stepwise

-----------------------------------------------------------------------------
(* The inductive invariant *)

Shapes ==
    /\ node \in {"idle", "triage", "converse", "orchestrator", "analyze", "tools", "summarize"}
    /\ pause \in {"none", "waiting", "answered"}
    /\ pause # "none" => node \in {"converse", "tools"}
    /\ Channels(ws)
    /\ ws.phase \in Phases \cup {NoPhase}
    /\ ws.open \in BOOLEAN /\ ws.dangling \in BOOLEAN /\ ws.torn \in BOOLEAN
    /\ DOMAIN db = {"body", "life", "preds"}
    /\ emptied \in BOOLEAN
    /\ DOMAIN rows = {"proposal", "audit", "message"}
    /\ \A key \in DOMAIN rows : rows[key] \in {0, 1}
    /\ calls \in Seq(Range(calls))

\* The intent was confirmed before any later phase, and no critique is older
\* than the phases that offer it, unless the document was emptied under it.
Phased(s, lost) ==
    /\ s.phase \notin {NoPhase, "intent"} => s.confirmed
    /\ s.phase = "intent" => ~CritiqueStarted(s)
    /\ s.phase = "elicit" => ~CritiqueStarted(s) \/ lost

\* A critique judged something: a node, which stays, or a body that the
\* document has until it is emptied from outside.
Founded(s, body, lost) ==
    CritiqueStarted(s) => /\ s.confirmed
                          /\ \/ DOMAIN s.nodes # {}
                             \/ s.draft # Blank /\ body # Blank
                             \/ lost

\* What analyze leaves to the tools: calls the phase allows, one stop, and the
\* body it has loaded.
InTools ==
    /\ node \in {"analyze", "tools"} => ws.phase # NoPhase
    /\ node = "tools" =>
          /\ OneStop(calls)
          /\ \A i \in 1 .. Len(calls) : calls[i].tool \notin ExcludedIn(ws.phase)
          /\ ws.draft # Blank => db.body # Blank \/ emptied

\* What the human is asked about passed the checks of its tool.
Asked ==
    node = "tools" /\ pause = "waiting" =>
        /\ \A i \in 1 .. Len(calls) :
              calls[i].tool = "write_draft" => ProposedBody(ws, calls[i].text) # Blank
        /\ \A i \in 1 .. Len(calls) :
              calls[i].tool = "finalize" => GateOpen(ws) /\ Whole(Body(ws))

\* Only the tools node, or one that raised there, has a call without result.
Closed ==
    /\ node \notin {"idle", "tools"} => ~ws.open
    /\ node = "idle" /\ ws.open => ws.torn
    /\ ws.dangling => ws.torn

Inv == Shapes /\ Phased(ws, emptied) /\ Founded(ws, db.body, emptied) /\ InTools /\ Asked /\ Closed

\* Of ws only counters and marks change.
SameWork(s, t) ==
    /\ t.phase = s.phase /\ t.confirmed = s.confirmed
    /\ t.rounds = s.rounds /\ t.report = s.report
    /\ t.nodes = s.nodes /\ t.draft = s.draft

LEMMA SameWorkKeeps ==
    ASSUME NEW s, NEW t, NEW body, NEW lost, SameWork(s, t),
           Phased(s, lost), Founded(s, body, lost)
    PROVE  Phased(t, lost) /\ Founded(t, body, lost)
  BY DEF SameWork, Phased, Founded, CritiqueStarted

LEMMA InitInv == Init => Inv
  <1> SUFFICES ASSUME Init PROVE Inv
    OBVIOUS
  <1>1. Channels(Fresh) /\ Fresh.phase = NoPhase /\ ~CritiqueStarted(Fresh)
        /\ Fresh.open = FALSE /\ Fresh.dangling = FALSE /\ Fresh.torn = FALSE
    BY DEF Fresh, Channels, Names, CritiqueStarted
  <1>2. calls \in Seq(Range(calls))
    BY EmptySeq DEF Init
  <1>3. DOMAIN rows = {"proposal", "audit", "message"} /\ \A key \in DOMAIN rows : rows[key] \in {0, 1}
    BY DEF Init, NoRows
  <1>4. DOMAIN db = {"body", "life", "preds"}
    BY DEF Init
  <1>5. Shapes
    BY <1>1, <1>2, <1>3, <1>4 DEF Init, Shapes
  <1>6. Phased(ws, emptied) /\ Founded(ws, db.body, emptied)
    BY <1>1 DEF Init, Phased, Founded, NoPhase
  <1>7. InTools /\ Asked /\ Closed
    BY <1>1 DEF Init, InTools, Asked, Closed
  <1> QED
    BY <1>5, <1>6, <1>7 DEF Inv

-----------------------------------------------------------------------------
(* Every step *)

LEMMA BeginInv == ASSUME Inv, Begin PROVE Inv'
  <1>1. /\ DOMAIN ws' = Names
        /\ ws'.phase = NoPhase /\ ws'.confirmed = FALSE /\ ws'.elicited = ws.elicited
        /\ ws'.humans = ws.humans + 1 /\ ws'.rounds = 0 /\ ws'.report = "none"
        /\ ws'.open = FALSE /\ ws'.torn = ws.torn
        /\ ws'.dangling = (ws.dangling \/ ws.open)
    BY DEF Begin, Rebuilt, Fresh, Names
  <1>2. /\ UNCHANGED <<pause, calls, db, rows, emptied>> /\ node = "idle" /\ node' = "triage"
    BY DEF Begin
  <1>3. Channels(ws)'
    <2>1. Channels(ws)
      BY DEF Inv, Shapes
    <2>2. ws'.humans \in Nat /\ ws'.rounds \in Nat
      BY <1>1, <2>1 DEF Channels
    <2>3. ws'.confirmed \in BOOLEAN /\ ws'.elicited \in BOOLEAN
      BY <1>1, <2>1 DEF Channels
    <2> QED
      BY <1>1, <2>2, <2>3 DEF Channels
  <1>4. Shapes'
    <2>1. ws'.dangling \in BOOLEAN
      BY <1>1
    <2> QED
      BY <1>1, <1>2, <1>3, <2>1 DEF Inv, Shapes
  <1>5. Phased(ws, emptied)' /\ Founded(ws, db.body, emptied)'
    BY <1>1 DEF Phased, Founded, CritiqueStarted, NoPhase
  <1>6. InTools' /\ Asked' /\ Closed'
    BY <1>1, <1>2 DEF Inv, InTools, Asked, Closed
  <1> QED
    BY <1>4, <1>5, <1>6 DEF Inv

LEMMA RestartInv == ASSUME Inv, Restart PROVE Inv'
  <1>1. /\ DOMAIN ws' = Names
        /\ SameWork(ws, ws') /\ ws'.elicited = ws.elicited
        /\ ws'.humans = ws.humans + 1
        /\ ws'.open = FALSE /\ ws'.torn = ws.torn
        /\ ws'.dangling = (ws.dangling \/ ws.open)
    BY DEF Inv, Shapes, Channels, Restart, Retried, Names, SameWork
  <1>2. /\ UNCHANGED <<pause, calls, db, rows, emptied>> /\ node = "idle" /\ node' = "triage"
    BY DEF Restart
  <1>3. Channels(ws)'
    <2>1. Channels(ws)
      BY DEF Inv, Shapes
    <2>2. ws'.humans \in Nat /\ ws'.rounds \in Nat
      BY <1>1, <2>1 DEF Channels, SameWork
    <2>3. ws'.confirmed \in BOOLEAN /\ ws'.elicited \in BOOLEAN
      BY <1>1, <2>1 DEF Channels, SameWork
    <2> QED
      BY <1>1, <2>2, <2>3 DEF Channels
  <1>4. Shapes'
    <2>1. ws'.dangling \in BOOLEAN
      BY <1>1
    <2> QED
      BY <1>1, <1>2, <1>3, <2>1 DEF Inv, Shapes, SameWork
  <1>5. Phased(ws, emptied)' /\ Founded(ws, db.body, emptied)'
    BY <1>1, <1>2, SameWorkKeeps DEF Inv
  <1>6. InTools' /\ Asked' /\ Closed'
    BY <1>1, <1>2 DEF Inv, InTools, Asked, Closed
  <1> QED
    BY <1>4, <1>5, <1>6 DEF Inv

(* A body of the document may change; an outside change may empty it.      *)
LEMMA BodyStays ==
    ASSUME Phased(ws, emptied), Founded(ws, db.body, emptied), SameWork(ws, ws'),
           emptied => emptied', db.body # Blank => db'.body # Blank \/ emptied'
    PROVE  Phased(ws, emptied)' /\ Founded(ws, db.body, emptied)'
  BY DEF Phased, Founded, SameWork, CritiqueStarted

LEMMA OutsideChangeInv == ASSUME Inv, OutsideChange PROVE Inv'
  <1>1. UNCHANGED <<node, pause, calls, ws, rows>>
    BY DEF OutsideChange
  <1>2. DOMAIN db' = {"body", "life", "preds"}
    BY DEF OutsideChange, Inv, Shapes
  <1>3. /\ emptied' \in BOOLEAN
        /\ emptied => emptied'
        /\ db.body # Blank => db'.body # Blank \/ emptied'
    BY DEF OutsideChange
  <1>4. Shapes'
    BY <1>1, <1>2, <1>3 DEF Inv, Shapes
  <1>5. Phased(ws, emptied)' /\ Founded(ws, db.body, emptied)'
    <2>1. SameWork(ws, ws')
      BY <1>1 DEF SameWork
    <2> QED
      BY <1>3, <2>1, BodyStays DEF Inv
  <1>6. InTools' /\ Asked' /\ Closed'
    BY <1>1, <1>3 DEF Inv, InTools, Asked, Closed
  <1> QED
    BY <1>4, <1>5, <1>6 DEF Inv

LEMMA CallsFacts ==
    ASSUME Shapes
    PROVE  /\ Len(calls) \in Nat
           /\ DOMAIN calls = 1 .. Len(calls)
  BY LenProperties DEF Shapes

LEMMA AnswerInv == ASSUME Inv, Answer PROVE Inv'
  <1>1. /\ DOMAIN ws' = Names
        /\ SameWork(ws, ws') /\ ws'.elicited = ws.elicited /\ ws'.humans = ws.humans
        /\ ws'.open = ws.open /\ ws'.torn = ws.torn /\ ws'.dangling = ws.dangling
    BY DEF Inv, Shapes, Channels, Answer, Names, SameWork
  <1>2. UNCHANGED <<node, calls, rows, emptied>> /\ pause = "waiting" /\ pause' = "answered"
    BY DEF Answer
  <1>3. /\ DOMAIN db' = {"body", "life", "preds"}
        /\ db.body # Blank => db'.body # Blank
    <2>1. CASE UNCHANGED db
      BY <2>1 DEF Inv, Shapes
    <2>2. ASSUME NEW i \in DOMAIN calls, NEW life \in Lives,
                 node = "tools", calls[i].tool = "write_draft",
                 db' = [db EXCEPT !.body = ProposedBody(ws, calls[i].text), !.life = life]
          PROVE  DOMAIN db' = {"body", "life", "preds"} /\ db'.body # Blank
      <3>1. ProposedBody(ws, calls[i].text) # Blank
        BY <1>2, <2>2, CallsFacts DEF Inv, Asked
      <3> QED
        BY <2>2, <3>1 DEF Inv, Shapes
    <2> QED
      BY <2>1, <2>2 DEF Answer
  <1>4. Shapes'
    <2>1. Channels(ws)'
      BY <1>1 DEF Inv, Shapes, Channels, SameWork
    <2> QED
      BY <1>1, <1>2, <1>3, <2>1 DEF Inv, Shapes, SameWork
  <1>5. Phased(ws, emptied)'
    BY <1>1, <1>2, <1>3, BodyStays DEF Inv
  <1>6. Founded(ws, db.body, emptied)'
    BY <1>1, <1>2, <1>3, BodyStays DEF Inv
  <1>7. InTools'
    BY <1>1, <1>2, <1>3 DEF Inv, InTools, SameWork
  <1>8. Asked' /\ Closed'
    BY <1>1, <1>2 DEF Inv, Asked, Closed
  <1> QED
    BY <1>4, <1>5, <1>6, <1>7, <1>8 DEF Inv

LEMMA TriageInv == ASSUME Inv, Triage PROVE Inv'
  <1>1. /\ UNCHANGED <<pause, calls, ws, db, rows, emptied>>
        /\ node = "triage" /\ node' \in {"converse", "orchestrator"}
    BY DEF Triage, Running
  <1> QED
    BY <1>1 DEF Inv, Shapes, InTools, Asked, Closed

LEMMA SummarizeInv == ASSUME Inv, Summarize PROVE Inv'
  <1>1. /\ UNCHANGED <<pause, calls, ws, db, rows, emptied>>
        /\ node = "summarize" /\ node' = "orchestrator"
    BY DEF Summarize, Running
  <1> QED
    BY <1>1 DEF Inv, Shapes, InTools, Asked, Closed

LEMMA ConverseInv == ASSUME Inv, Converse PROVE Inv'
  <1>1. /\ DOMAIN ws' = Names
        /\ SameWork(ws, ws') /\ ws'.elicited = ws.elicited /\ ws'.humans \in Nat
        /\ ws'.open = ws.open /\ ws'.torn = ws.torn /\ ws'.dangling = ws.dangling
    BY DEF Inv, Shapes, Channels, Converse, Names, SameWork
  <1>2. /\ UNCHANGED <<calls, db, rows, emptied>> /\ node = "converse"
        /\ \/ node' = "converse" /\ pause' = "waiting"
           \/ node' = "orchestrator" /\ pause' = "none"
    BY DEF Converse, Running
  <1>3. Shapes'
    <2>1. Channels(ws)'
      BY <1>1 DEF Inv, Shapes, Channels, SameWork
    <2> QED
      BY <1>1, <1>2, <2>1 DEF Inv, Shapes, SameWork
  <1>4. Phased(ws, emptied)' /\ Founded(ws, db.body, emptied)'
    BY <1>1, <1>2, SameWorkKeeps DEF Inv
  <1>5. InTools' /\ Asked' /\ Closed'
    BY <1>1, <1>2 DEF Inv, InTools, Asked, Closed
  <1> QED
    BY <1>3, <1>4, <1>5 DEF Inv

LEMMA RaiseInv == ASSUME Inv, Raise PROVE Inv'
  <1> DEFINE torn == ws.torn \/ node = "tools"
  <1>1. /\ DOMAIN ws' = Names
        /\ SameWork(ws, ws') /\ ws'.elicited = ws.elicited /\ ws'.humans = ws.humans
        /\ ws'.open = ws.open /\ ws'.torn = torn /\ ws'.dangling = ws.dangling
    BY DEF Inv, Shapes, Channels, Raise, Names, SameWork
  <1>2. UNCHANGED <<calls, db, emptied>> /\ node # "idle" /\ node' = "idle" /\ pause' = "none"
    BY DEF Raise
  <1>3. DOMAIN rows' = {"proposal", "audit", "message"} /\ \A key \in DOMAIN rows' : rows'[key] \in {0, 1}
    BY DEF Raise, Written, Kept, Inv, Shapes
  <1>4. Shapes'
    <2>1. Channels(ws)'
      BY <1>1 DEF Inv, Shapes, Channels, SameWork
    <2>2. torn \in BOOLEAN
      OBVIOUS
    <2> HIDE DEF torn
    <2> QED
      BY <1>1, <1>2, <1>3, <2>1, <2>2 DEF Inv, Shapes, SameWork
  <1>5. Phased(ws, emptied)' /\ Founded(ws, db.body, emptied)'
    BY <1>1, <1>2, SameWorkKeeps DEF Inv
  <1>6. InTools' /\ Asked' /\ Closed'
    BY <1>1, <1>2 DEF Inv, Shapes, InTools, Asked, Closed
  <1> QED
    BY <1>4, <1>5, <1>6 DEF Inv

LEMMA DerivedFacts ==
    ASSUME NEW s, Channels(s)
    PROVE  /\ DerivedPhase(s) \in Phases
           /\ DerivedPhase(s) = "intent" <=> ~s.confirmed
           /\ DerivedPhase(s) = "elicit" => DOMAIN s.nodes = {} /\ s.draft = Blank
           /\ DerivedPhase(s) \in {"review", "finalize"} => CritiqueStarted(s)
  BY DEF Channels, DerivedPhase, Phases, HasDraft, Body

LEMMA OrchestrateInv == ASSUME Inv, Orchestrate PROVE Inv'
  <1>1. /\ DOMAIN ws' = Names
        /\ ws'.phase = DerivedPhase(ws)
        /\ ws'.confirmed = ws.confirmed /\ ws'.rounds = ws.rounds /\ ws'.report = ws.report
        /\ ws'.nodes = ws.nodes /\ ws'.draft = ws.draft
        /\ ws'.elicited = ws.elicited /\ ws'.humans = ws.humans
        /\ ws'.open = ws.open /\ ws'.torn = ws.torn /\ ws'.dangling = ws.dangling
    BY DEF Inv, Shapes, Channels, Orchestrate, Names
  <1>2. /\ UNCHANGED <<pause, calls, db, rows, emptied>>
        /\ node = "orchestrator" /\ node' = "analyze"
    BY DEF Orchestrate, Running
  <1>3. Channels(ws)
    BY DEF Inv, Shapes
  <1>4. DerivedPhase(ws) \in Phases /\ NoPhase \notin Phases
    BY <1>3, DerivedFacts DEF Phases, NoPhase
  <1>5. Shapes'
    <2>1. Channels(ws)'
      BY <1>1, <1>3 DEF Channels
    <2> QED
      BY <1>1, <1>2, <1>4, <2>1 DEF Inv, Shapes
  <1>6. CritiqueStarted(ws)' = CritiqueStarted(ws)
    BY <1>1 DEF CritiqueStarted
  <1>7. Founded(ws, db.body, emptied)'
    BY <1>1, <1>2, <1>6 DEF Inv, Founded
  <1>8. Phased(ws, emptied)'
    <2>1. CritiqueStarted(ws) => ws.confirmed /\ (DOMAIN ws.nodes # {} \/ ws.draft # Blank \/ emptied)
      BY DEF Inv, Founded
    <2>2. ws'.phase = "intent" <=> ~ws.confirmed
      BY <1>1, <1>3, DerivedFacts
    <2>3. ws'.phase = "elicit" => DOMAIN ws.nodes = {} /\ ws.draft = Blank
      BY <1>1, <1>3, DerivedFacts
    <2>4. /\ ws'.phase = "intent" => ~CritiqueStarted(ws)
          /\ ws'.phase = "elicit" => ~CritiqueStarted(ws) \/ emptied
      BY <2>1, <2>2, <2>3
    <2> QED
      BY <1>1, <1>2, <1>3, <1>6, <2>2, <2>4 DEF Phased, Channels
  <1>9. InTools' /\ Asked' /\ Closed'
    BY <1>1, <1>2, <1>4 DEF Inv, InTools, Asked, Closed
  <1> QED
    BY <1>5, <1>7, <1>8, <1>9 DEF Inv

(* A batch that is dispatched: gated, or what the model has said.          *)
LEMMA DispatchedFacts ==
    ASSUME NEW s, s.phase \in Phases, NEW life, NEW request \in Requests,
           NEW batch \in Dispatched(Gated(s, life, request))
    PROVE  /\ batch \in Seq(Range(batch))
           /\ OneStop(batch)
           /\ \A i \in 1 .. Len(batch) : batch[i].tool \notin ExcludedIn(s.phase)
  <1> DEFINE gated == Gated(s, life, request)
             allowed == {c \in Range(request) : GateAllows(s, life, c)}
  <1>1. CASE gated # <<>>
    <2>1. batch = gated
      BY <1>1 DEF Dispatched
    <2> HIDE DEF gated, allowed
    <2>2. gated \in Seq(allowed) /\ OneStop(gated)
      BY GatedFacts DEF gated, allowed
    <2>3. gated \in Seq(Range(gated))
      BY <2>2, LenProperties DEF Range
    <2>4. \A c \in allowed : c.tool \notin ExcludedIn(s.phase)
      BY DEF allowed, GateAllows, CurrentPhase, Phases, NoPhase
    <2> QED
      BY <2>1, <2>2, <2>3, <2>4, ElementOfSeq
  <1>2. CASE gated = <<>>
    <2>1. batch \in Spoken \cup {<<>>}
      BY <1>2 DEF Dispatched
    <2>2. \A phase \in Phases : "respond" \notin ExcludedIn(phase) /\ "ask_user" \notin ExcludedIn(phase)
      BY DEF Phases, ExcludedIn
    <2>3. CASE batch = <<>>
      BY <2>3, EmptySeq DEF OneStop
    <2>4. ASSUME NEW tool \in {"respond", "ask_user"}, batch = <<[tool |-> tool]>>
          PROVE  /\ batch \in Seq(Range(batch))
                 /\ OneStop(batch)
                 /\ \A i \in 1 .. Len(batch) : batch[i].tool \notin ExcludedIn(s.phase)
      <3>1. Len(batch) = 1 /\ batch[1] = [tool |-> tool] /\ DOMAIN batch = 1 .. 1
        BY <2>4
      <3>2. [tool |-> tool] \in Range(batch)
        BY <3>1 DEF Range
      <3>3. batch \in Seq(Range(batch))
        BY <2>4, <3>2
      <3> QED
        BY <2>2, <3>1, <3>3 DEF OneStop
    <2> QED
      BY <2>1, <2>3, <2>4 DEF Spoken
  <1> QED
    BY <1>1, <1>2

\* analyze has dispatched this batch.
Dispatches(batch) ==
    LET after == Counted(Loaded(ws, db), batch)
    IN  /\ ws' = [after EXCEPT !.open = LeftOpen(after, batch)]
        /\ calls' = batch
        /\ node' = IF batch = <<>> \/ LoopStops(after) THEN "idle" ELSE "tools"

LEMMA AnalyzeInv == ASSUME Inv, Analyze PROVE Inv'
  <1>0. PICK request \in Requests :
           \E batch \in Dispatched(Gated(ws, db.life, request)) : Dispatches(batch)
    BY DEF Analyze, Dispatches
  <1>1. PICK batch \in Dispatched(Gated(ws, db.life, request)) : Dispatches(batch)
    BY <1>0
  <1> DEFINE after == Counted(Loaded(ws, db), batch)
  <1>2. /\ UNCHANGED <<pause, db, emptied>> /\ node = "analyze" /\ pause # "waiting" /\ rows' = NoRows
    BY DEF Analyze, Running
  <1>3. /\ DOMAIN after = Names
        /\ after.phase = ws.phase /\ after.confirmed = ws.confirmed
        /\ after.rounds = ws.rounds /\ after.report = ws.report
        /\ after.nodes = ws.nodes /\ after.draft = db.body
        /\ after.elicited = ws.elicited /\ after.humans = ws.humans
        /\ after.torn = ws.torn /\ after.dangling = ws.dangling
    BY DEF Inv, Shapes, Channels, Counted, Loaded, Names
  <1> HIDE DEF after
  <1>4. ws' = [after EXCEPT !.open = LeftOpen(after, batch)]
    BY <1>1 DEF after, Dispatches
  <1>5. /\ DOMAIN ws' = Names
        /\ ws'.phase = ws.phase /\ ws'.confirmed = ws.confirmed
        /\ ws'.rounds = ws.rounds /\ ws'.report = ws.report
        /\ ws'.nodes = ws.nodes /\ ws'.draft = db.body
        /\ ws'.elicited = ws.elicited /\ ws'.humans = ws.humans
        /\ ws'.torn = ws.torn /\ ws'.dangling = ws.dangling
        /\ ws'.open = LeftOpen(after, batch)
    BY <1>3, <1>4 DEF Names
  <1>6. calls' = batch /\ node' = IF batch = <<>> \/ LoopStops(after) THEN "idle" ELSE "tools"
    BY <1>1 DEF after, Dispatches
  <1>7. ws.phase \in Phases
    BY <1>2 DEF Inv, Shapes, InTools
  <1>8. /\ batch \in Seq(Range(batch))
        /\ OneStop(batch)
        /\ \A i \in 1 .. Len(batch) : batch[i].tool \notin ExcludedIn(ws.phase)
    BY <1>7, DispatchedFacts
  <1>9. ws'.open \in BOOLEAN /\ (ws'.open => node' = "tools")
    BY <1>5, <1>6 DEF LeftOpen
  <1>10. pause = "none"
    BY <1>2 DEF Inv, Shapes
  <1>11. Shapes'
    <2>1. Channels(ws)
      BY DEF Inv, Shapes
    <2>2. Channels(ws)'
      BY <1>5, <2>1 DEF Channels
    <2>3. DOMAIN NoRows = {"proposal", "audit", "message"} /\ \A key \in DOMAIN NoRows : NoRows[key] \in {0, 1}
      BY DEF NoRows
    <2> QED
      BY <1>2, <1>5, <1>6, <1>8, <1>9, <1>10, <2>2, <2>3 DEF Inv, Shapes
  <1>12. Phased(ws, emptied)' /\ Founded(ws, db.body, emptied)'
    BY <1>2, <1>5 DEF Inv, Phased, Founded, CritiqueStarted
  <1>13. InTools' /\ Asked' /\ Closed'
    <2>1. NoPhase \notin Phases
      BY DEF NoPhase, Phases
    <2>2. node' \in {"idle", "tools"}
      BY <1>6
    <2>3. InTools'
      BY <1>2, <1>5, <1>6, <1>7, <1>8, <2>1 DEF InTools
    <2>4. Asked'
      BY <1>2, <1>10 DEF Asked
    <2>5. Closed'
      BY <1>5, <1>9, <2>2 DEF Inv, Closed
    <2> QED
      BY <2>3, <2>4, <2>5
  <1> QED
    BY <1>11, <1>12, <1>13 DEF Inv

LEMMA ToolsInterruptInv == ASSUME Inv, ToolsInterrupt PROVE Inv'
  <1>1. PICK i \in Stops(calls) : rows' = Written(rows, calls[i])
    BY DEF ToolsInterrupt
  <1>2. /\ UNCHANGED <<node, calls, ws, db, emptied>>
        /\ node = "tools" /\ pause' = "waiting"
    BY DEF ToolsInterrupt, Running
  <1>3. /\ i \in 1 .. Len(calls)
        /\ calls[i].tool \in InterruptBearing
        /\ ~Refused(ws, db, rows, calls[i])
    BY CallsFacts DEF Inv, Stops, Interrupts
  <1>4. \A j \in 1 .. Len(calls) : calls[j].tool \in {"write_draft", "finalize"} => j = i
    BY <1>2, <1>3, StopsAreRanked DEF Inv, InTools, OneStop
  <1>5. calls[i].tool = "write_draft" => ProposedBody(ws, calls[i].text) # Blank
    BY <1>3 DEF Refused, DraftRefused
  <1>6. calls[i].tool = "finalize" => GateOpen(ws) /\ Whole(Body(ws))
    BY <1>3 DEF Refused, FinalizeRefused
  <1>7. Asked'
    BY <1>2, <1>4, <1>5, <1>6 DEF Asked
  <1>8. DOMAIN rows' = {"proposal", "audit", "message"} /\ \A key \in DOMAIN rows' : rows'[key] \in {0, 1}
    BY <1>1 DEF Written, Kept, Inv, Shapes
  <1>9. Shapes'
    BY <1>2, <1>8 DEF Inv, Shapes
  <1>10. Phased(ws, emptied)' /\ Founded(ws, db.body, emptied)' /\ InTools' /\ Closed'
    BY <1>2 DEF Inv, InTools, Closed
  <1> QED
    BY <1>7, <1>9, <1>10 DEF Inv

(* The calls of a batch that stopped, or returned at once.                 *)
LEMMA StopsFacts ==
    ASSUME Shapes
    PROVE  Stops(calls) = {i \in 1 .. Len(calls) :
              calls[i].tool \in InterruptBearing /\ ~Refused(ws, db, rows, calls[i])}
  BY CallsFacts DEF Stops, Interrupts

\* The batch has returned with this verdict of the judge.
Returns(verdict) ==
    LET after == Applied(ws, db, rows, calls, verdict)
    IN  /\ ws' = [after EXCEPT !.open = FALSE]
        /\ node' = IF SummaryDue(after, calls) /\ Stops(calls) # {} THEN "summarize"
                   ELSE "orchestrator"

(* What the checkpoint holds when the batch has returned.                  *)
LEMMA ReturnFacts ==
    ASSUME Inv, ToolsReturn
    PROVE  /\ Channels(ws)'
           /\ ws'.open = FALSE
           /\ \E verdict \in {"pass", "fail"} :
                 LET after == Applied(ws, db, rows, calls, verdict)
                 IN  /\ Progressed(Len(calls), ws, after, db, rows, calls)
                     /\ ws'.phase = ws.phase
                     /\ ws'.dangling = ws.dangling /\ ws'.torn = ws.torn
                     /\ \A name \in Names \ {"open"} : ws'[name] = after[name]
  <1>1. PICK verdict \in {"pass", "fail"} : Returns(verdict)
    BY DEF ToolsReturn, Returns
  <1> DEFINE after == Applied(ws, db, rows, calls, verdict)
  <1>2. Channels(ws) /\ Len(calls) \in Nat
    BY CallsFacts DEF Inv, Shapes
  <1>3. Progressed(Len(calls), ws, after, db, rows, calls)
    BY <1>2, AppliedFacts
  <1>4. ws' = [after EXCEPT !.open = FALSE]
    BY <1>1 DEF Returns
  <1> HIDE DEF after
  <1>5. DOMAIN after = Names /\ Channels(after) /\ SameElsewhere(ws, after)
    BY <1>3 DEF Progressed, Channels
  <1>6. DOMAIN ws' = Names /\ ws'.open = FALSE /\ \A name \in Names \ {"open"} : ws'[name] = after[name]
    BY <1>4, <1>5 DEF Names
  <1>7. Channels(ws)'
    BY <1>5, <1>6 DEF Channels, Names
  <1>8. ws'.phase = ws.phase /\ ws'.dangling = ws.dangling /\ ws'.torn = ws.torn
    BY <1>5, <1>6 DEF SameElsewhere, Names
  <1> QED
    BY <1>3, <1>6, <1>7, <1>8 DEF after

LEMMA ToolsReturnInv == ASSUME Inv, ToolsReturn PROVE Inv'
  <1>1. PICK verdict \in {"pass", "fail"} :
           LET after == Applied(ws, db, rows, calls, verdict)
           IN  /\ Progressed(Len(calls), ws, after, db, rows, calls)
               /\ ws'.phase = ws.phase
               /\ ws'.dangling = ws.dangling /\ ws'.torn = ws.torn
               /\ \A name \in Names \ {"open"} : ws'[name] = after[name]
    BY ReturnFacts
  <1> DEFINE after == Applied(ws, db, rows, calls, verdict)
  <1> HIDE DEF after
  <1>2. Progressed(Len(calls), ws, after, db, rows, calls)
    BY <1>1 DEF after
  <1>3. /\ ws'.phase = ws.phase /\ ws'.dangling = ws.dangling /\ ws'.torn = ws.torn
        /\ ws'.confirmed = after.confirmed /\ ws'.rounds = after.rounds
        /\ ws'.report = after.report /\ ws'.nodes = after.nodes /\ ws'.draft = after.draft
    BY <1>1 DEF after, Names
  <1>4. /\ UNCHANGED <<calls, db, emptied>> /\ node = "tools" /\ pause' = "none"
        /\ node' \in {"summarize", "orchestrator"}
    BY DEF ToolsReturn, Running
  <1>5. Channels(ws)' /\ ws'.open = FALSE
    BY ReturnFacts
  <1>6. DOMAIN rows' = {"proposal", "audit", "message"} /\ \A key \in DOMAIN rows' : rows'[key] \in {0, 1}
    BY DEF ToolsReturn, Written, Kept, Inv, Shapes
  <1>7. Shapes'
    BY <1>3, <1>4, <1>5, <1>6 DEF Inv, Shapes
  <1>8. ws.confirmed => ws'.confirmed
    BY <1>2, <1>3 DEF Progressed
  <1>9. \/ CritiqueStarted(ws)' = CritiqueStarted(ws)
        \/ ~CritiqueRefused(ws) /\ ws.phase \notin {NoPhase, "intent", "elicit"}
    <2>1. CASE ws'.rounds = ws.rounds /\ ws'.report = ws.report
      BY <2>1 DEF CritiqueStarted
    <2>2. CASE ~CritiqueRefused(ws) /\ \E i \in 1 .. Len(calls) : calls[i].tool = "run_critique"
      <3>1. "run_critique" \notin ExcludedIn(ws.phase) /\ ws.phase # NoPhase
        BY <1>4, <2>2 DEF Inv, InTools
      <3>2. "run_critique" \in ExcludedIn("intent") /\ "run_critique" \in ExcludedIn("elicit")
        BY DEF ExcludedIn
      <3> QED
        BY <2>2, <3>1, <3>2
    <2> QED
      BY <1>2, <1>3, <2>1, <2>2 DEF Progressed
  <1>10. Phased(ws, emptied)'
    BY <1>3, <1>4, <1>8, <1>9 DEF Inv, Phased
  <1>11. DOMAIN ws.nodes \subseteq DOMAIN ws'.nodes /\ (ws'.draft = ws.draft \/ ws'.draft # Blank)
    BY <1>2, <1>3 DEF Progressed
  <1>12. Founded(ws, db.body, emptied)'
    <2>1. CASE CritiqueStarted(ws)' = CritiqueStarted(ws)
      BY <1>4, <1>8, <1>11, <2>1 DEF Inv, Founded
    <2>2. CASE ~CritiqueRefused(ws) /\ ws.phase \notin {NoPhase, "intent", "elicit"}
      <3>1. ws'.confirmed
        BY <1>8, <2>2 DEF Inv, Phased
      <3>2. DOMAIN ws.nodes # {} \/ ws.draft # Blank
        BY <2>2 DEF CritiqueRefused, HasDraft, Body
      <3>3. ws.draft # Blank => db.body # Blank \/ emptied
        BY <1>4 DEF Inv, InTools
      <3> QED
        BY <1>4, <1>11, <3>1, <3>2, <3>3 DEF Founded
    <2> QED
      BY <1>9, <2>1, <2>2
  <1>13. InTools' /\ Asked' /\ Closed'
    BY <1>3, <1>4, <1>5 DEF Inv, InTools, Asked, Closed
  <1> QED
    BY <1>7, <1>10, <1>12, <1>13 DEF Inv

LEMMA NextInv == ASSUME Inv, [Next]_vars PROVE Inv'
  <1>1. CASE UNCHANGED vars
    BY <1>1 DEF vars, Inv, Shapes, InTools, Asked, Closed
  <1> QED
    BY <1>1, BeginInv, RestartInv, AnswerInv, TriageInv, ConverseInv, OrchestrateInv, AnalyzeInv,
       ToolsInterruptInv, ToolsReturnInv, SummarizeInv, RaiseInv, OutsideChangeInv DEF Next, Step

LEMMA Invariance == Spec => []Inv
  BY InitInv, NextInv, PTL DEF Spec

-----------------------------------------------------------------------------
(* What follows *)

\* One call of the batch was a human's turn to talk.
Heard == \E i \in Stops(calls) : calls[i].tool \in Talkers

LEMMA OnlyToolsApply ==
    ASSUME Inv, [Next]_vars, BatchApplied
    PROVE  ToolsReturn
  <1> USE DEF BatchApplied
  <1>1. ~UNCHANGED vars
    BY DEF vars
  <1>2. ~Begin /\ ~Restart /\ ~Answer /\ ~OutsideChange /\ ~Raise
    BY DEF Begin, Restart, Answer, OutsideChange, Raise
  <1>3. ~Triage /\ ~Converse /\ ~Orchestrate /\ ~Analyze /\ ~ToolsInterrupt /\ ~Summarize
    BY DEF Triage, Converse, Orchestrate, Analyze, ToolsInterrupt, Summarize, Running
  <1> QED
    BY <1>1, <1>2, <1>3 DEF Next, Step

LEMMA ReturnHears ==
    ASSUME Inv, ToolsReturn
    PROVE  ws'.humans - ws.humans = IF pause = "answered" /\ Heard THEN 1 ELSE 0
  <1>1. PICK verdict \in {"pass", "fail"} :
           LET after == Applied(ws, db, rows, calls, verdict)
           IN  /\ Progressed(Len(calls), ws, after, db, rows, calls)
               /\ ws'.phase = ws.phase
               /\ ws'.dangling = ws.dangling /\ ws'.torn = ws.torn
               /\ \A name \in Names \ {"open"} : ws'[name] = after[name]
    BY ReturnFacts
  <1> DEFINE after == Applied(ws, db, rows, calls, verdict)
  <1> HIDE DEF after
  <1>2. ws'.humans = after.humans /\ Progressed(Len(calls), ws, after, db, rows, calls)
    BY <1>1 DEF after, Names
  <1>3. OneStop(calls)
    BY DEF Inv, InTools, ToolsReturn, Running
  <1>4. Heard <=> \E i \in 1 .. Len(calls) : Talks(ws, db, rows, calls[i])
    BY StopsFacts, TalkersStop DEF Inv, Heard, Talks
  <1>5. Heard => pause = "answered"
    BY DEF Heard, ToolsReturn
  <1>6. ws.humans \in Nat
    BY DEF Inv, Shapes, Channels
  <1>7. after.humans = ws.humans
                + (IF \E i \in 1 .. Len(calls) : Talks(ws, db, rows, calls[i]) THEN 1 ELSE 0)
    BY <1>2, <1>3 DEF Progressed
  <1>8. CASE Heard
    <2>1. after.humans = ws.humans + 1
      BY <1>4, <1>7, <1>8
    <2> QED
      BY <1>2, <1>5, <1>6, <1>8, <2>1
  <1>9. CASE ~Heard
    <2>1. after.humans = ws.humans
      BY <1>4, <1>6, <1>7, <1>9
    <2> QED
      BY <1>2, <1>6, <1>9, <2>1
  <1> QED
    BY <1>8, <1>9

(* One answer of the human is one message, whatever the model asked for in *)
(* the batch and however often the tool node was executed again.           *)
THEOREM AnswersAreHeardOnce == Spec => HeardOnce
  <1> DEFINE Step1 == BatchApplied =>
                 ws'.humans - ws.humans
                    = IF pause = "answered" /\ (\E i \in Stops(calls) : calls[i].tool \in Talkers)
                      THEN 1 ELSE 0
  <1>1. Inv /\ [Next]_vars => [Step1]_vars
    BY OnlyToolsApply, ReturnHears DEF Heard
  <1> QED
    BY <1>1, Invariance, PTL DEF Spec, HeardOnce

(* An agent run leaves one row of each kind, and only a tools step that    *)
(* raised leaves a call without a result: the caps and the pauses do not.  *)
THEOREM RunsAreClean == Spec => []RunsLeaveOneOfEach
  <1>1. Inv => RunsLeaveOneOfEach
    BY DEF Inv, Shapes, Closed, RunsLeaveOneOfEach
  <1> QED
    BY <1>1, Invariance, PTL

(* No draft is proposed before the intent is confirmed, and what the human *)
(* is asked to finalize is the body the judge passed.                      *)
THEOREM ProposalsPassGates == Spec => []ProposalsAreGated
  <1>1. Inv => ProposalsAreGated
    <2> SUFFICES ASSUME Inv, node = "tools"
                 PROVE  /\ Called("write_draft") # {} => ws.confirmed
                        /\ pause = "waiting" /\ Called("finalize") # {} =>
                              ws.report = "pass" /\ ws.scored = Body(ws) /\ Whole(Body(ws))
      BY DEF ProposalsAreGated
    <2>1. DOMAIN calls = 1 .. Len(calls)
      BY CallsFacts DEF Inv
    <2>2. "write_draft" \in ExcludedIn("intent")
      BY DEF ExcludedIn
    <2>3. Called("write_draft") # {} => ws.confirmed
      BY <2>1, <2>2 DEF Inv, InTools, Phased, Called
    <2>4. pause = "waiting" /\ Called("finalize") # {} => GateOpen(ws) /\ Whole(Body(ws))
      BY <2>1 DEF Inv, Asked, Called
    <2> QED
      BY <2>3, <2>4 DEF GateOpen, DraftIsStale
  <1> QED
    BY <1>1, Invariance, PTL

(* orchestrator_node adopts an illegal edge only out of elicit, in a session *)
(* whose document was emptied from outside after a critique.                 *)
THEOREM PhasesMoveLegally == Spec => PhaseEdgesAreLegal
  <1> DEFINE Legal == ws'.phase # ws.phase =>
                 \/ NoPhase \in {ws.phase, ws'.phase}
                 \/ <<ws.phase, ws'.phase>> \in LegalEdges
                 \/ FellBack /\ ws'.phase \in {"review", "finalize"}
  <1>1. ASSUME Inv, Next PROVE Legal
    <2>1. CASE Orchestrate
      <3>1. Channels(ws) /\ ws.phase \in Phases \cup {NoPhase} /\ Phased(ws, emptied)
        BY <1>1 DEF Inv, Shapes
      <3>2. ws'.phase = DerivedPhase(ws)
        BY <2>1, <3>1 DEF Orchestrate, Channels, Names
      <3>3. ws'.phase \in Phases
        BY <3>1, <3>2, DerivedFacts
      <3>4. ws.phase \in {"intent", "elicit"} /\ ws'.phase \in {"review", "finalize"} => FellBack
        BY <3>1, <3>2, DerivedFacts DEF Phased, FellBack
      <3> QED
        BY <3>1, <3>3, <3>4 DEF Phases, LegalEdges
    <2>2. CASE Begin
      BY <2>2 DEF Begin, Rebuilt, Fresh
    <2>3. CASE ToolsReturn
      BY <1>1, <2>3, ReturnFacts
    <2>4. CASE Restart \/ Answer \/ Converse \/ Raise
      BY <1>1, <2>4 DEF Restart, Retried, Answer, Converse, Raise, Inv, Shapes, Channels, Names
    <2>5. CASE Analyze
      BY <1>1, <2>5 DEF Analyze, Counted, Loaded, Inv, Shapes, Channels, Names
    <2>6. CASE Triage \/ ToolsInterrupt \/ Summarize \/ OutsideChange
      BY <2>6 DEF Triage, ToolsInterrupt, Summarize, OutsideChange
    <2> QED
      BY <1>1, <2>1, <2>2, <2>3, <2>4, <2>5, <2>6 DEF Next, Step
  <1>2. Inv /\ [Next]_vars => [Legal]_vars
    BY <1>1
  <1> QED
    BY <1>2, Invariance, PTL DEF Spec, PhaseEdgesAreLegal

(* Outside the tools, the nodes stay as they are.                          *)
LEMMA NodesStay ==
    ASSUME Inv, [Next]_vars, ~ToolsReturn
    PROVE  ws'.nodes = ws.nodes
  <1>1. CASE UNCHANGED vars
    BY <1>1 DEF vars
  <1>2. CASE Begin
    BY <1>2 DEF Begin, Rebuilt, Fresh
  <1>3. CASE Restart \/ Answer \/ Converse \/ Raise \/ Orchestrate
    BY <1>3 DEF Restart, Retried, Answer, Converse, Raise, Orchestrate, Inv, Shapes, Channels, Names
  <1>4. CASE Analyze
    BY <1>4 DEF Analyze, Counted, Loaded, Inv, Shapes, Channels, Names
  <1>5. CASE Triage \/ ToolsInterrupt \/ Summarize \/ OutsideChange
    BY <1>5 DEF Triage, ToolsInterrupt, Summarize, OutsideChange
  <1> QED
    BY <1>1, <1>2, <1>3, <1>4, <1>5 DEF Next, Step

\* The section that the i-th call writes holds what it held and the new batch.
SectionGrows(i) ==
    LET h == calls[i].heading
    IN  /\ h \in DOMAIN ws'.sections
        /\ calls[i].append /\ h \in DOMAIN ws.sections =>
              ws.sections[h].content \cup {calls[i].chunk} \subseteq ws'.sections[h].content

LEMMA ReturnKeeps ==
    ASSUME Inv, ToolsReturn
    PROVE  /\ DOMAIN ws.nodes \subseteq DOMAIN ws'.nodes
           /\ \A i \in Called("note") : calls[i].id \in DOMAIN ws'.nodes
           /\ Cardinality(Called("write_draft_section")) = 1 =>
                 \A i \in Called("write_draft_section") : SectionGrows(i)
  <1>1. PICK verdict \in {"pass", "fail"} :
           LET after == Applied(ws, db, rows, calls, verdict)
           IN  /\ Progressed(Len(calls), ws, after, db, rows, calls)
               /\ ws'.phase = ws.phase
               /\ ws'.dangling = ws.dangling /\ ws'.torn = ws.torn
               /\ \A name \in Names \ {"open"} : ws'[name] = after[name]
    BY ReturnFacts
  <1> DEFINE after == Applied(ws, db, rows, calls, verdict)
             writers == Called("write_draft_section")
  <1> HIDE DEF after
  <1>2. /\ ws'.nodes = after.nodes /\ ws'.sections = after.sections
        /\ Progressed(Len(calls), ws, after, db, rows, calls)
    BY <1>1 DEF after, Names
  <1>3. Len(calls) \in Nat /\ DOMAIN calls = 1 .. Len(calls) /\ Channels(ws)
    BY CallsFacts DEF Inv, Shapes
  <1>4. ASSUME Cardinality(writers) = 1, NEW k \in writers PROVE SectionGrows(k)
    <2> DEFINE call == calls[k]
               h == call.heading
    <2>1. \A j \in writers : j = k
      <3>1. IsFiniteSet(writers)
        <4>1. writers \subseteq 1 .. Len(calls) /\ IsFiniteSet(1 .. Len(calls))
          BY <1>3, FS_Interval DEF Called
        <4> QED
          BY <4>1, FS_Subset
      <3>2. \E x : writers = {x}
        <4> HIDE DEF writers
        <4> QED
          BY <1>4, <3>1, FS_Singleton
      <3> QED
        BY <1>4, <3>2
    <2>2. /\ k \in 1 .. Len(calls) /\ calls[k].tool = "write_draft_section"
          /\ \A j \in 1 .. Len(calls) : calls[j].tool = "write_draft_section" => j = k
      BY <1>3, <1>4, <2>1 DEF Called
    <2>3. ws'.sections = Merge(ws.sections, Put(ws.sections, h, Section(ws, call)))
      BY <1>2, <1>3, <2>2, OnlySection DEF after
    <2> HIDE DEF call, h
    <2>4. h \in DOMAIN ws'.sections /\ ws'.sections[h] = Section(ws, call)
      BY <2>3 DEF Merge, Put
    <2>5. call.append /\ h \in DOMAIN ws.sections =>
             ws.sections[h].content \cup {call.chunk} \subseteq Section(ws, call).content
      BY DEF Section, h
    <2> QED
      BY <2>4, <2>5 DEF SectionGrows, call, h
  <1>5. /\ DOMAIN ws.nodes \subseteq DOMAIN ws'.nodes
        /\ \A i \in Called("note") : calls[i].id \in DOMAIN ws'.nodes
    BY <1>2, <1>3 DEF Progressed, Called
  <1> QED
    BY <1>4, <1>5

(* What a batch records is in the checkpoint when it is over: its notes,   *)
(* all the nodes there were, and the earlier batches of a section.         *)
THEOREM RecordsAreKept == Spec => NothingVanishes
  <1> DEFINE Keeps == /\ DOMAIN ws.nodes \subseteq DOMAIN ws'.nodes
                      /\ BatchApplied =>
                           /\ \A i \in Called("note") : calls[i].id \in DOMAIN ws'.nodes
                           /\ Cardinality(Called("write_draft_section")) = 1 =>
                                \A i \in Called("write_draft_section") :
                                  LET h == calls[i].heading IN
                                  /\ h \in DOMAIN ws'.sections
                                  /\ calls[i].append /\ h \in DOMAIN ws.sections =>
                                       ws.sections[h].content \cup {calls[i].chunk}
                                           \subseteq ws'.sections[h].content
  <1>1. ASSUME Inv, [Next]_vars PROVE Keeps
    <2>1. CASE ToolsReturn
      BY <1>1, <2>1, ReturnKeeps DEF SectionGrows
    <2>2. CASE ~ToolsReturn
      BY <1>1, <2>2, NodesStay, OnlyToolsApply
    <2> QED
      BY <2>1, <2>2
  <1>2. Inv /\ [Next]_vars => [Keeps]_vars
    <2> HIDE DEF Keeps
    <2> QED
      BY <1>1
  <1> QED
    BY <1>2, Invariance, PTL DEF Spec, NothingVanishes

=============================================================================
