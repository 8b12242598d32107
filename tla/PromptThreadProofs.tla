------------------------- MODULE PromptThreadProofs -------------------------
(***************************************************************************)
(* Proofs about PromptThread, for any words, answers of the provider,      *)
(* tools and limits.                                                       *)
(***************************************************************************)
EXTENDS PromptThread, SequenceTheorems, FiniteSetTheorems, WellFoundedInduction, TLAPS

(* Natural numbers: a set of them that is not empty has a least member, and *)
(* one that contains 0 and every successor is the whole.                   *)
LEMMA LeastNumber ==
    ASSUME NEW T \in SUBSET Nat, T # {}
    PROVE  \E x \in T : \A y \in T : x <= y
  <1> DEFINE R == {ss \in Nat \X Nat : ss[1] < ss[2]}
  <1>1. IsWellFoundedOn(R, Nat)
    BY NatLessThanWellFounded DEF OpToRel
  <1>2. \E x \in T : \A y \in T : ~ (<<y, x>> \in R)
    <2> HIDE DEF R
    <2> QED
      BY <1>1, WFMin
  <1>3. \A x, y \in T : <<y, x>> \notin R => x <= y
    OBVIOUS
  <1> QED
    BY <1>2, <1>3

LEMMA FromZero ==
    ASSUME NEW S \in SUBSET Nat, 0 \in S, \A n \in S : n + 1 \in S
    PROVE  S = Nat
  <1> SUFFICES ASSUME Nat \ S # {} PROVE FALSE
    OBVIOUS
  <1>1. PICK x \in Nat \ S : \A y \in Nat \ S : x <= y
    BY LeastNumber
  <1>2. x - 1 \in Nat /\ x - 1 \in S
    BY <1>1
  <1> QED
    BY <1>1, <1>2

(* A step that stays in V can be taken N times.                            *)
Steps(g, V, v, step, N) ==
    /\ g \in [0 .. N -> V]
    /\ g[0] = v
    /\ \A n \in 1 .. N : g[n] = step[<<n, g[n - 1]>>]

LEMMA StepsExist ==
    ASSUME NEW V, NEW v \in V, NEW step \in [Nat \X V -> V], NEW N \in Nat
    PROVE  \E g : Steps(g, V, v, step, N)
  <1> DEFINE S == {n \in Nat : \E g : Steps(g, V, v, step, n)}
  <1>1. 0 \in S
    <2> DEFINE g == [n \in 0 .. 0 |-> v]
    <2>1. Steps(g, V, v, step, 0)
      BY DEF Steps
    <2> QED
      BY <2>1
  <1>2. ASSUME NEW n \in S PROVE n + 1 \in S
    <2>1. PICK g : Steps(g, V, v, step, n)
      BY <1>2
    <2> DEFINE last == step[<<n + 1, g[n]>>]
               h == [m \in 0 .. n + 1 |-> IF m = n + 1 THEN last ELSE g[m]]
    <2>2. n \in Nat /\ g[n] \in V /\ last \in V
      BY <2>1 DEF Steps
    <2> HIDE DEF last
    <2>3. h \in [0 .. n + 1 -> V] /\ h[0] = v
      BY <2>1, <2>2 DEF Steps
    <2>4. ASSUME NEW m \in 1 .. n + 1 PROVE h[m] = step[<<m, h[m - 1]>>]
      <3>1. CASE m = n + 1
        <4>1. m \in 0 .. n + 1 /\ m - 1 \in 0 .. n + 1 /\ m - 1 = n /\ m - 1 # n + 1
          BY <2>2, <3>1
        <4>2. h[m] = last /\ h[m - 1] = g[m - 1]
          BY <3>1, <4>1
        <4> HIDE DEF h
        <4>3. last = step[<<m, g[m - 1]>>]
          BY <3>1, <4>1 DEF last
        <4> QED
          BY <4>2, <4>3
      <3>2. CASE m \in 1 .. n
        <4>1. g[m] = step[<<m, g[m - 1]>>]
          BY <2>1, <3>2 DEF Steps
        <4>2. h[m] = g[m] /\ h[m - 1] = g[m - 1]
          BY <2>2, <3>2
        <4> QED
          BY <4>1, <4>2
      <3> QED
        BY <2>2, <3>1, <3>2
    <2>5. Steps(h, V, v, step, n + 1)
      <3> HIDE DEF h
      <3> QED
        BY <2>3, <2>4 DEF Steps
    <2> QED
      BY <2>2, <2>5
  <1> HIDE DEF S
  <1>3. S = Nat
    BY <1>1, <1>2, FromZero DEF S
  <1> QED
    BY <1>3 DEF S

-----------------------------------------------------------------------------
(* From an answer to its calls *)

(* What is left of a sequence are its members that are good.               *)
LEMMA SiftFacts ==
    ASSUME NEW C, NEW seq \in Seq(C), NEW good
    PROVE  Sift(seq, good) \in Seq(C \cap good)
  <1> DEFINE N == Len(seq)
             V == Seq(C \cap good)
             next(n, out) == IF seq[n] \in good THEN Append(out, seq[n]) ELSE out
             step == [p \in Nat \X V |-> IF p[1] \in 1 .. N THEN next(p[1], p[2]) ELSE <<>>]
             Sifting(f) == f = [n \in 0 .. N |-> IF n = 0 THEN <<>> ELSE next(n, f[n - 1])]
             g == CHOOSE f : Sifting(f)
  <1>1. N \in Nat /\ <<>> \in V
    BY LenProperties, EmptySeq
  <1>2. step \in [Nat \X V -> V]
    <2>1. ASSUME NEW n \in 1 .. N, NEW out \in V PROVE next(n, out) \in V
      <3>1. seq[n] \in C
        BY ElementOfSeq
      <3>2. seq[n] \in good => Append(out, seq[n]) \in V
        BY <3>1, AppendProperties
      <3> QED
        BY <3>2
    <2> HIDE DEF V, next
    <2> QED
      BY <1>1, <2>1
  <1> HIDE DEF V, N, step
  <1>3. PICK f : Steps(f, V, <<>>, step, N)
    BY <1>1, <1>2, StepsExist
  <1>4. f = [n \in 0 .. N |-> IF n = 0 THEN <<>> ELSE next(n, f[n - 1])]
    <2>1. ASSUME NEW n \in 1 .. N PROVE f[n] = next(n, f[n - 1])
      <3>1. n - 1 \in 0 .. N /\ n \in Nat
        BY <1>1
      <3>2. f[n - 1] \in V /\ f[n] = step[<<n, f[n - 1]>>]
        BY <1>3, <3>1 DEF Steps
      <3> QED
        BY <3>1, <3>2 DEF step
    <2>2. f[0] = <<>> /\ f \in [0 .. N -> V]
      BY <1>3 DEF Steps
    <2> HIDE DEF next
    <2> QED
      BY <1>1, <2>1, <2>2
  <1>5. Sifting(g)
    BY <1>4
  <1>6. Sift(seq, good) = g[N]
    BY DEF Sift, N
  <1> HIDE DEF g
  <1>7. g[0] = <<>> /\ \A n \in 1 .. N : g[n] = next(n, g[n - 1])
    <2> HIDE DEF next
    <2>1. g = [n \in 0 .. N |-> IF n = 0 THEN <<>> ELSE next(n, g[n - 1])]
      BY <1>5
    <2> QED
      BY <1>1, <2>1
  <1> DEFINE S == {n \in Nat : n <= N => g[n] \in V}
  <1>8. 0 \in S
    BY <1>1, <1>7
  <1>9. ASSUME NEW n \in S PROVE n + 1 \in S
    <2> SUFFICES ASSUME n + 1 <= N PROVE g[n + 1] \in V
      OBVIOUS
    <2>1. n + 1 \in 1 .. N /\ (n + 1) - 1 = n /\ n + 1 \in Nat
      BY <1>1
    <2>2. g[n] \in V
      BY <1>1, <2>1
    <2>3. g[n + 1] = step[<<n + 1, g[n]>>]
      BY <1>7, <2>1, <2>2 DEF step
    <2> QED
      BY <1>2, <2>1, <2>2, <2>3
  <1> HIDE DEF S
  <1>10. S = Nat
    BY <1>8, <1>9, FromZero DEF S
  <1> QED
    BY <1>1, <1>6, <1>10 DEF S, V

-----------------------------------------------------------------------------
(* Types *)

AnyPart == UNION {ToSet(answer.parts) : answer \in Answers}
Names == {p.name : p \in AnyPart} \cup Talkers \cup {""}
Sigs == {p.sig : p \in AnyPart} \cup {NoSig}
Texts == Words \cup {"GREETING", "DONE", "STOPPED", "PROMPT", ""}
Id == Nat \X Nat
Parts == [name : Names, given : BOOLEAN, sig : Sigs]
Call == [id : Id, name : Names, given : BOOLEAN, sig : Sigs, origin : Nat]
Entry == [by : {"human", "ai", "tool"}, text : Texts, call : Id,
          calls : Seq(Call), asked : Seq(Parts)]
Block == [type : {"text", "use", "result"}, text : Texts, call : Id,
          name : Names, given : BOOLEAN, sig : Sigs]
Message == [role : {"user", "assistant"}, plain : BOOLEAN, blocks : Seq(Block)]

LEMMA BlockTypes ==
    /\ \A t \in Texts : Text(t) \in Block
    /\ \A c \in Call : Use(c) \in Block
    /\ \A m \in Entry : \A sent : ResultBlock(m, sent) \in Block
  <1>1. NoCall \in Id /\ NoSig \in Sigs /\ "" \in Names /\ "" \in Texts
    BY DEF NoCall, Id, Sigs, Names, Texts
  <1>2. \A t \in Texts : Text(t) \in Block
    BY <1>1 DEF Text, Block
  <1>3. \A c \in Call : Use(c) \in Block
    BY <1>1 DEF Use, Block, Call
  <1>4. ASSUME NEW m \in Entry, NEW sent PROVE ResultBlock(m, sent) \in Block
    <2> DEFINE given == \E c \in {c \in sent : c.id = m.call} : c.given
    <2>1. given \in BOOLEAN
      OBVIOUS
    <2>2. ResultBlock(m, sent) = [type |-> "result", text |-> m.text, call |-> m.call, name |-> "",
                                  sig |-> NoSig, given |-> given]
      BY Zenon DEF ResultBlock
    <2>3. m.text \in Texts /\ m.call \in Id
      BY DEF Entry
    <2>4. \A d \in BOOLEAN : [type |-> "result", text |-> m.text, call |-> m.call, name |-> "",
                              sig |-> NoSig, given |-> d] \in Block
      BY <1>1, <2>3 DEF Block
    <2> HIDE DEF given
    <2> QED
      BY <2>1, <2>2, <2>4, Zenon
  <1> QED
    BY <1>2, <1>3, <1>4

(* _client_message_from_state: a result, the calls of a batch, or a text.  *)
LEMMA ClientMessageFacts ==
    ASSUME NEW m \in Entry, NEW sent
    PROVE  /\ ClientMessage(m, sent) \in Message
           /\ m.by = "tool" =>
                ClientMessage(m, sent) = [role |-> "user", plain |-> FALSE,
                                          blocks |-> <<ResultBlock(m, sent)>>]
           /\ m.by # "tool" /\ m.calls # <<>> =>
                ClientMessage(m, sent) = [role |-> "assistant", plain |-> FALSE,
                                          blocks |-> [i \in DOMAIN m.calls |-> Use(m.calls[i])]]
           /\ m.by # "tool" /\ m.calls = <<>> =>
                ClientMessage(m, sent) = [role |-> IF m.by = "human" THEN "user" ELSE "assistant",
                                          plain |-> TRUE, blocks |-> <<Text(m.text)>>]
  <1>1. ResultBlock(m, sent) \in Block /\ Text(m.text) \in Block
    BY BlockTypes DEF Entry
  <1>2. [i \in DOMAIN m.calls |-> Use(m.calls[i])] \in Seq(Block)
    <2>1. m.calls \in Seq(Call)
      BY DEF Entry
    <2>2. \A i \in 1 .. Len(m.calls) : Use(m.calls[i]) \in Block
      BY <2>1, ElementOfSeq, BlockTypes
    <2>3. DOMAIN m.calls = 1 .. Len(m.calls) /\ Len(m.calls) \in Nat
      BY <2>1, LenProperties
    <2> QED
      BY <2>2, <2>3, IsASeq
  <1>3. <<ResultBlock(m, sent)>> \in Seq(Block) /\ <<Text(m.text)>> \in Seq(Block)
    BY <1>1
  <1>4. CASE m.by = "tool"
    <2> DEFINE blocks == <<ResultBlock(m, sent)>>
    <2>1. ClientMessage(m, sent) = [role |-> "user", plain |-> FALSE, blocks |-> blocks]
      BY <1>4 DEF ClientMessage
    <2>2. ClientMessage(m, sent) \in Message
      <3> HIDE DEF blocks
      <3>1. blocks \in Seq(Block)
        BY <1>3 DEF blocks
      <3> QED
        BY <2>1, <3>1 DEF Message
    <2> QED
      BY <1>4, <2>1, <2>2
  <1>5. CASE m.by # "tool" /\ m.calls # <<>>
    <2> DEFINE uses == [i \in DOMAIN m.calls |-> Use(m.calls[i])]
    <2>1. ClientMessage(m, sent) = [role |-> "assistant", plain |-> FALSE, blocks |-> uses]
      BY <1>5 DEF ClientMessage
    <2> HIDE DEF uses
    <2>2. ClientMessage(m, sent) \in Message
      <3>1. uses \in Seq(Block)
        BY <1>2 DEF uses
      <3> QED
        BY <2>1, <3>1 DEF Message
    <2> QED
      BY <1>5, <2>1, <2>2 DEF uses
  <1>6. CASE m.by # "tool" /\ m.calls = <<>>
    <2> DEFINE role == IF m.by = "human" THEN "user" ELSE "assistant"
               said == <<Text(m.text)>>
    <2>1. ClientMessage(m, sent) = [role |-> role, plain |-> TRUE, blocks |-> said]
      BY <1>6 DEF ClientMessage
    <2>2. role \in {"user", "assistant"} /\ said \in Seq(Block)
      BY <1>3
    <2>3. ClientMessage(m, sent) \in Message
      <3> HIDE DEF role, said
      <3> QED
        BY <2>1, <2>2 DEF Message
    <2> QED
      BY <1>6, <2>1, <2>3
  <1> QED
    BY <1>4, <1>5, <1>6

(* The blocks of the last message of the user grow.                        *)
Grown(ms, blocks) == WithLast(ms, Extended(Last(ms), blocks))

LEMMA GrownFacts ==
    ASSUME NEW ms \in Seq(Message), ms # <<>>, NEW blocks \in Seq(Block)
    PROVE  /\ Grown(ms, blocks) \in Seq(Message) /\ Len(Grown(ms, blocks)) = Len(ms)
           /\ \A i \in 1 .. Len(ms) - 1 : Grown(ms, blocks)[i] = ms[i]
           /\ Grown(ms, blocks)[Len(ms)].role = ms[Len(ms)].role
           /\ Grown(ms, blocks)[Len(ms)].blocks = ms[Len(ms)].blocks \o blocks
  <1>1. Len(ms) \in Nat /\ Len(ms) # 0 /\ Len(ms) \in 1 .. Len(ms)
    BY EmptySeq, LenProperties
  <1>2. ms[Len(ms)] \in Message
    BY <1>1, ElementOfSeq
  <1>3. ms[Len(ms)].blocks \o blocks \in Seq(Block)
    BY <1>2, ConcatProperties DEF Message
  <1>4. /\ Extended(ms[Len(ms)], blocks) \in Message
        /\ Extended(ms[Len(ms)], blocks).role = ms[Len(ms)].role
        /\ Extended(ms[Len(ms)], blocks).blocks = ms[Len(ms)].blocks \o blocks
    BY <1>2, <1>3 DEF Extended, Message
  <1>5. Grown(ms, blocks) = [ms EXCEPT ![Len(ms)] = Extended(ms[Len(ms)], blocks)]
    BY DEF Grown, WithLast, Last
  <1> QED
    BY <1>1, <1>4, <1>5, ExceptSeq

(* _append_client_message: a new message, or a result or text that joins   *)
(* the last message of the user, or words that are already there.          *)
LEMMA AppendedFacts ==
    ASSUME NEW ms \in Seq(Message), NEW m \in Message
    PROVE  /\ Appended(ms, m) \in Seq(Message)
           /\ Appended(ms, m) # <<>>
           /\ \/ Appended(ms, m) = Append(ms, m)
              \/ /\ ms # <<>> /\ m.role = "user" /\ Last(ms).role = "user"
                 /\ \/ Appended(ms, m) = ms /\ m.plain
                    \/ Appended(ms, m) = Grown(ms, m.blocks)
  <1>1. m.blocks \in Seq(Block)
    BY DEF Message
  <1>2. Append(ms, m) \in Seq(Message) /\ Append(ms, m) # <<>>
    BY AppendProperties, EmptySeq
  <1>3. ms # <<>> => Grown(ms, m.blocks) \in Seq(Message) /\ Grown(ms, m.blocks) # <<>>
    BY <1>1, GrownFacts, EmptySeq
  <1> QED
    BY <1>2, <1>3 DEF Appended, Grown, Duplicates

-----------------------------------------------------------------------------
(* Merging a history *)

SentBefore(ms, n) == UNION {ToSet(ms[i].calls) : i \in 1 .. (n - 1)}

(* g holds the messages after each entry of the history.                   *)
Merging(g, ms) ==
    /\ g[0] = <<>>
    /\ \A n \in 0 .. Len(ms) : g[n] \in Seq(Message)
    /\ \A n \in 1 .. Len(ms) :
          g[n] = Appended(g[n - 1], ClientMessage(ms[n], SentBefore(ms, n)))
    /\ g[Len(ms)] = Merged(ms)

LEMMA MergingExists ==
    ASSUME NEW ms \in Seq(Entry)
    PROVE  \E g : Merging(g, ms)
  <1> DEFINE N == Len(ms)
             V == Seq(Message)
             next(n, out) == Appended(out, ClientMessage(ms[n], SentBefore(ms, n)))
             step == [p \in Nat \X V |-> IF p[1] \in 1 .. N THEN next(p[1], p[2]) ELSE <<>>]
             Equation(f) == f = [n \in 0 .. N |-> IF n = 0 THEN <<>> ELSE next(n, f[n - 1])]
             g == CHOOSE f : Equation(f)
  <1>1. N \in Nat /\ <<>> \in V
    BY LenProperties, EmptySeq
  <1>2. step \in [Nat \X V -> V]
    <2>1. ASSUME NEW n \in 1 .. N, NEW out \in V PROVE next(n, out) \in V
      <3>1. ms[n] \in Entry
        BY ElementOfSeq
      <3> QED
        BY <3>1, ClientMessageFacts, AppendedFacts
    <2> HIDE DEF V, next
    <2> QED
      BY <1>1, <2>1
  <1> HIDE DEF V, N, step
  <1>3. PICK f : Steps(f, V, <<>>, step, N)
    BY <1>1, <1>2, StepsExist
  <1>4. f = [n \in 0 .. N |-> IF n = 0 THEN <<>> ELSE next(n, f[n - 1])]
    <2>1. ASSUME NEW n \in 1 .. N PROVE f[n] = next(n, f[n - 1])
      <3>1. n - 1 \in 0 .. N /\ n \in Nat
        BY <1>1
      <3>2. f[n - 1] \in V /\ f[n] = step[<<n, f[n - 1]>>]
        BY <1>3, <3>1 DEF Steps
      <3> HIDE DEF next
      <3> QED
        BY <3>1, <3>2 DEF step
    <2>2. f[0] = <<>> /\ f \in [0 .. N -> V]
      BY <1>3 DEF Steps
    <2> HIDE DEF next
    <2> QED
      BY <1>1, <2>1, <2>2
  <1>5. Equation(g)
    BY <1>4
  <1>6. Merged(ms) = g[N]
    BY DEF Merged, N, SentBefore
  <1> HIDE DEF g
  <1>7. g[0] = <<>> /\ \A n \in 1 .. N : g[n] = next(n, g[n - 1])
    <2> HIDE DEF next
    <2>1. g = [n \in 0 .. N |-> IF n = 0 THEN <<>> ELSE next(n, g[n - 1])]
      BY <1>5
    <2> QED
      BY <1>1, <2>1
  <1> DEFINE S == {n \in Nat : n <= N => g[n] \in V}
  <1>8. 0 \in S
    BY <1>1, <1>7
  <1>9. ASSUME NEW n \in S PROVE n + 1 \in S
    <2> SUFFICES ASSUME n + 1 <= N PROVE g[n + 1] \in V
      OBVIOUS
    <2>1. n + 1 \in 1 .. N /\ (n + 1) - 1 = n /\ n + 1 \in Nat
      BY <1>1
    <2>2. g[n] \in V
      BY <1>1, <2>1
    <2> HIDE DEF next
    <2>3. g[n + 1] = step[<<n + 1, g[n]>>]
      BY <1>7, <2>1, <2>2 DEF step
    <2> QED
      BY <1>2, <2>1, <2>2, <2>3
  <1> HIDE DEF S
  <1>10. S = Nat
    BY <1>8, <1>9, FromZero DEF S
  <1>11. \A n \in 0 .. N : g[n] \in V
    BY <1>1, <1>10 DEF S
  <1> QED
    BY <1>6, <1>7, <1>11 DEF Merging, N, V

-----------------------------------------------------------------------------
(* The calls of an answer *)

Model == [name : Names, given : BOOLEAN, sig : Sigs, origin : Nat]

(* What a call says is what the provider said at the place it came from.   *)
Said(c, parts) ==
    /\ c.origin \in 1 .. Len(parts)
    /\ c.name = parts[c.origin].name /\ c.sig = parts[c.origin].sig

LEMMA AnswerParts ==
    ASSUME NEW answer \in Answers
    PROVE  answer.parts \in Seq(Parts)
  <1> DEFINE parts == answer.parts
             N == Len(parts)
  <1>1. parts \in Seq([name : STRING, given : BOOLEAN, sig : STRING])
    BY ThreadConstants
  <1>2. N \in Nat /\ DOMAIN parts = 1 .. N /\ parts = [i \in 1 .. N |-> parts[i]]
    BY <1>1, LenProperties
  <1>3. ASSUME NEW i \in 1 .. N PROVE parts[i] \in Parts
    <2>1. parts[i] \in [name : STRING, given : BOOLEAN, sig : STRING]
      BY <1>1, ElementOfSeq
    <2>2. parts[i] \in ToSet(parts)
      BY <1>2 DEF ToSet
    <2>3. parts[i] \in AnyPart
      BY <2>2 DEF AnyPart
    <2>4. parts[i].name \in Names /\ parts[i].sig \in Sigs
      BY <2>3 DEF Names, Sigs
    <2> QED
      BY <2>1, <2>4 DEF Parts
  <1> HIDE DEF N, parts
  <1>4. parts \in Seq(Parts)
    BY <1>2, <1>3, IsASeq
  <1> QED
    BY <1>4 DEF parts

LEMMA ModelCallsFacts ==
    ASSUME NEW parts \in Seq(Parts)
    PROVE  ModelCalls(parts) \in Seq({c \in Model : Said(c, parts)})
  <1> DEFINE N == Len(parts)
             call(i) == [name |-> parts[i].name, given |-> parts[i].given,
                         sig |-> Metadata(parts)[Key(parts, i)], origin |-> i]
  <1>1. N \in Nat /\ DOMAIN parts = 1 .. N
    BY LenProperties
  <1>2. ASSUME NEW i \in 1 .. N PROVE call(i) \in {c \in Model : Said(c, parts)}
    <2>1. parts[i] \in Parts
      BY ElementOfSeq
    <2>2. \A j \in 1 .. N : Key(parts, j) = Key(parts, i) => j = i
      BY DEF Key
    <2>3. Metadata(parts)[Key(parts, i)] = parts[i].sig
      <3> DEFINE k == Key(parts, i)
                 at == CHOOSE j \in DOMAIN parts : Key(parts, j) = k
      <3>1. at \in DOMAIN parts /\ Key(parts, at) = k
        BY <1>1
      <3>2. at = i
        BY <1>1, <2>2, <3>1
      <3>3. k \in {Key(parts, j) : j \in DOMAIN parts}
        BY <1>1
      <3>4. Metadata(parts)[k] = parts[at].sig
        BY <3>3 DEF Metadata
      <3> QED
        BY <3>2, <3>4
    <2>4. call(i).sig = parts[i].sig /\ call(i).origin = i /\ call(i).name = parts[i].name
      BY <2>3
    <2>5. Said(call(i), parts)
      BY <2>4 DEF Said
    <2>6. call(i) = [name |-> parts[i].name, given |-> parts[i].given,
                     sig |-> parts[i].sig, origin |-> i]
      BY <2>3
    <2>7. call(i) \in Model
      <3> HIDE DEF call
      <3> QED
        BY <1>1, <2>1, <2>6 DEF Model, Parts
    <2> QED
      BY <2>5, <2>7
  <1>3. ModelCalls(parts) = [i \in 1 .. N |-> call(i)]
    BY <1>1 DEF ModelCalls
  <1> HIDE DEF call, N
  <1> QED
    BY <1>1, <1>2, <1>3, IsASeq

(* Of the calls that stop for the human one is the first by priority.      *)
LEMMA SoloFacts ==
    ASSUME NEW C, NEW batch \in Seq(C)
    PROVE  Solo(batch) \in Seq(C)
  <1> DEFINE stops == {i \in DOMAIN batch : batch[i].name \in ToSet(Priority)}
             rank(c) == CHOOSE k \in DOMAIN Priority : Priority[k] = c.name
             First(i) == \A j \in stops :
                            \/ rank(batch[i]) < rank(batch[j])
                            \/ rank(batch[i]) = rank(batch[j]) /\ i <= j
             kept == CHOOSE i \in stops : First(i)
  <1>1. \A tools : OfTools(batch, tools) \in Seq(C)
    <2> TAKE tools
    <2>1. OfTools(batch, tools) \in Seq(C \cap {c \in ToSet(batch) : c.name \in tools})
      BY SiftFacts DEF OfTools
    <2> QED
      BY <2>1, SeqMonotonic
  <1>2. stops # {} => \E i \in stops : First(i)
    <2> SUFFICES ASSUME stops # {} PROVE \E i \in stops : First(i)
      OBVIOUS
    <2> DEFINE R == {rank(batch[i]) : i \in stops}
    <2>1. \A i \in stops : rank(batch[i]) \in Nat
      <3> TAKE i \in stops
      <3>1. \E k \in DOMAIN Priority : Priority[k] = batch[i].name
        BY DEF ToSet
      <3>2. rank(batch[i]) \in DOMAIN Priority
        BY <3>1
      <3>3. DOMAIN Priority \subseteq Nat
        BY ThreadConstants, LenProperties
      <3> QED
        BY <3>2, <3>3
    <2>2. stops \subseteq Nat
      BY LenProperties
    <2> HIDE DEF rank
    <2>3. PICK r \in R : \A q \in R : r <= q
      <3>1. R \in SUBSET Nat /\ R # {}
        BY <2>1
      <3> HIDE DEF R
      <3> QED
        BY <3>1, LeastNumber
    <2> DEFINE T == {i \in stops : rank(batch[i]) = r}
    <2>4. PICK i \in T : \A j \in T : i <= j
      <3>1. T \in SUBSET Nat /\ T # {}
        BY <2>2, <2>3
      <3> HIDE DEF T
      <3> QED
        BY <3>1, LeastNumber
    <2>5. i \in stops /\ rank(batch[i]) = r
      BY <2>4
    <2>6. ASSUME NEW j \in stops
          PROVE  \/ rank(batch[i]) < rank(batch[j])
                 \/ rank(batch[i]) = rank(batch[j]) /\ i <= j
      <3>1. r <= rank(batch[j]) /\ r \in Nat /\ rank(batch[j]) \in Nat
        BY <2>1, <2>3, <2>6
      <3>2. rank(batch[j]) = r => i <= j
        BY <2>4, <2>6
      <3> QED
        BY <2>5, <3>1, <3>2
    <2> QED
      BY <2>5, <2>6
  <1>3. stops # {} => <<batch[kept]>> \in Seq(C)
    <2> HIDE DEF First
    <2> SUFFICES ASSUME stops # {} PROVE <<batch[kept]>> \in Seq(C)
      OBVIOUS
    <2>1. kept \in stops
      BY <1>2
    <2>2. batch[kept] \in C
      BY <2>1, ElementOfSeq, LenProperties
    <2> QED
      BY <2>2
  <1>4. Solo(batch) = CASE stops = {} -> batch
                        [] Cardinality(stops) = 1 -> OfTools(batch, ToSet(Priority) \cup Riders)
                        [] OTHER -> <<batch[kept]>> \o OfTools(batch, Riders)
    BY DEF Solo
  <1>5. Cardinality({}) = 0
    BY FS_EmptySet
  <1> HIDE DEF stops, kept
  <1>6. stops # {} => <<batch[kept]>> \o OfTools(batch, Riders) \in Seq(C)
    BY <1>1, <1>3, ConcatProperties
  <1> QED
    BY <1>1, <1>4, <1>5, <1>6

(* record_run_and_dispatch: every call has an id of its own, and says what *)
(* the provider said, or is the one made of a plain text.                  *)
Faithful(c, parts) ==
    \/ Said(c, parts)
    \/ c.origin = 0 /\ c.sig = NoSig /\ c.name \in {"respond", "ask_user"}

LEMMA DispatchedFacts ==
    ASSUME NEW answer \in Answers, NEW n \in Nat
    PROVE  LET batch == Dispatched(answer, n)
           IN  /\ batch \in Seq({c \in Call : Faithful(c, answer.parts)})
               /\ \A i \in 1 .. Len(batch) : batch[i].id[1] = n
               /\ \A i, j \in 1 .. Len(batch) : batch[i].id = batch[j].id => i = j
  <1> DEFINE parts == answer.parts
             kept == Gated(ModelCalls(parts))
             C == {c \in Model : Said(c, parts)}
             D == {c \in Call : Faithful(c, parts)}
             N == Len(kept)
             said == [id |-> <<n, 0>>, name |-> answer.says, given |-> FALSE,
                      sig |-> NoSig, origin |-> 0]
             renamed == [i \in DOMAIN kept |-> Renamed(kept[i], <<n, i>>)]
  <1>1. kept \in Seq(C)
    <2>1. ModelCalls(parts) \in Seq(C)
      BY AnswerParts, ModelCallsFacts
    <2> HIDE DEF C
    <2>2. OfTools(ModelCalls(parts), Menu) \in Seq(C)
      <3> DEFINE good == {c \in ToSet(ModelCalls(parts)) : c.name \in Menu}
      <3>1. Sift(ModelCalls(parts), good) \in Seq(C \cap good)
        BY <2>1, SiftFacts
      <3> QED
        BY <3>1, SeqMonotonic DEF OfTools
    <2> QED
      BY <2>2, SoloFacts DEF Gated
  <1>2. N \in Nat /\ DOMAIN kept = 1 .. N
    BY <1>1, LenProperties
  <1>3. CASE kept # <<>>
    <2>1. Dispatched(answer, n) = renamed
      BY <1>3 DEF Dispatched
    <2>2. ASSUME NEW i \in 1 .. N
          PROVE  renamed[i] \in D /\ renamed[i].id = <<n, i>>
      <3> DEFINE c == kept[i]
      <3>1. c \in Model /\ Said(c, parts)
        BY <1>1, ElementOfSeq
      <3>2. renamed[i] = [id |-> <<n, i>>, name |-> c.name, given |-> c.given,
                          sig |-> c.sig, origin |-> c.origin]
        BY <1>2 DEF Renamed
      <3> HIDE DEF c, renamed
      <3>3. <<n, i>> \in Id
        BY <1>2 DEF Id
      <3>4. renamed[i] \in Call
        BY <3>1, <3>2, <3>3 DEF Call, Model
      <3>5. Said(renamed[i], parts)
        BY <3>1, <3>2 DEF Said
      <3> QED
        BY <3>2, <3>4, <3>5 DEF Faithful
    <2>3. renamed \in Seq(D) /\ Len(renamed) = N
      <3>1. renamed = [i \in 1 .. N |-> renamed[i]]
        BY <1>2
      <3> HIDE DEF renamed, D, N
      <3> QED
        BY <1>2, <2>2, <3>1, IsASeq, LenProperties
    <2> HIDE DEF renamed, N
    <2>4. \A i, j \in 1 .. N : renamed[i].id = renamed[j].id => i = j
      BY <2>2
    <2>5. \A i \in 1 .. N : renamed[i].id[1] = n
      BY <2>2
    <2> QED
      BY <2>1, <2>3, <2>4, <2>5
  <1>4. CASE kept = <<>> /\ answer.says \in Talkers
    <2>1. Dispatched(answer, n) = <<said>>
      BY <1>4 DEF Dispatched
    <2>2. answer.says \in {"respond", "ask_user"}
      BY <1>4, ThreadConstants
    <2>3. <<n, 0>> \in Id /\ NoSig \in Sigs /\ answer.says \in Names
      BY <1>4 DEF Id, Sigs, Names
    <2>4. said \in Call
      BY <2>3 DEF Call
    <2>5. Faithful(said, parts)
      BY <2>2 DEF Faithful
    <2> HIDE DEF said
    <2>6. <<said>> \in Seq(D) /\ Len(<<said>>) = 1 /\ <<said>>[1] = said
      BY <2>4, <2>5
    <2>7. said.id[1] = n
      BY DEF said
    <2> QED
      BY <2>1, <2>6, <2>7
  <1>5. CASE kept = <<>> /\ answer.says \notin Talkers
    <2>1. Dispatched(answer, n) = <<>>
      BY <1>5 DEF Dispatched
    <2>2. <<>> \in Seq(D) /\ Len(<<>>) = 0
      BY EmptySeq
    <2> QED
      BY <2>1, <2>2
  <1> QED
    BY <1>3, <1>4, <1>5

-----------------------------------------------------------------------------
(* Where the blocks of the messages come from *)

Known(b, role, ms, n) ==
    /\ b.type = "use" =>
          /\ role = "assistant"
          /\ \E j \in 1 .. n : \E x \in 1 .. Len(ms[j].calls) : b = Use(ms[j].calls[x])
    /\ b.type = "result" =>
          /\ role = "user"
          /\ \E j \in 1 .. n : ms[j].by = "tool" /\ b = ResultBlock(ms[j], SentBefore(ms, j))

AllKnown(m, ms, n) == \A k \in 1 .. Len(m.blocks) : Known(m.blocks[k], m.role, ms, n)

LEMMA NewIsKnown ==
    ASSUME NEW ms \in Seq(Entry), NEW n \in 1 .. Len(ms)
    PROVE  AllKnown(ClientMessage(ms[n], SentBefore(ms, n)), ms, n)
  <1> DEFINE m == ms[n]
             sent == SentBefore(ms, n)
             new == ClientMessage(m, sent)
  <1>1. m \in Entry /\ n \in 1 .. n
    BY ElementOfSeq, LenProperties
  <1> HIDE DEF sent
  <1>2. CASE m.by = "tool"
    <2> DEFINE b == ResultBlock(m, sent)
    <2>1. new = [role |-> "user", plain |-> FALSE, blocks |-> <<b>>]
      BY <1>1, <1>2, ClientMessageFacts
    <2>2. b.type = "result"
      BY DEF ResultBlock
    <2>3. Known(b, "user", ms, n)
      BY <1>1, <1>2, <2>2 DEF Known, sent
    <2> HIDE DEF b, new
    <2>4. Len(new.blocks) = 1 /\ new.blocks[1] = b /\ new.role = "user"
      BY <2>1
    <2> QED
      BY <2>3, <2>4 DEF AllKnown, new, sent
  <1>3. CASE m.by # "tool" /\ m.calls # <<>>
    <2> DEFINE uses == [i \in DOMAIN m.calls |-> Use(m.calls[i])]
    <2>1. new = [role |-> "assistant", plain |-> FALSE, blocks |-> uses]
      BY <1>1, <1>3, ClientMessageFacts
    <2>2. m.calls \in Seq(Call) /\ Len(m.calls) \in Nat /\ DOMAIN m.calls = 1 .. Len(m.calls)
      BY <1>1, LenProperties DEF Entry
    <2>3. Len(uses) = Len(m.calls)
      BY <2>2
    <2>4. ASSUME NEW x \in 1 .. Len(m.calls) PROVE Known(uses[x], "assistant", ms, n)
      <3>1. uses[x] = Use(m.calls[x])
        BY <2>2
      <3>2. Use(m.calls[x]).type = "use"
        BY DEF Use
      <3> HIDE DEF uses
      <3> QED
        BY <1>1, <3>1, <3>2 DEF Known
    <2> HIDE DEF uses, new
    <2>5. new.blocks = uses /\ new.role = "assistant"
      BY <2>1
    <2> QED
      BY <2>3, <2>4, <2>5 DEF AllKnown, new, sent
  <1>4. CASE m.by # "tool" /\ m.calls = <<>>
    <2> DEFINE b == Text(m.text)
               role == IF m.by = "human" THEN "user" ELSE "assistant"
    <2>1. new = [role |-> role, plain |-> TRUE, blocks |-> <<b>>]
      BY <1>1, <1>4, ClientMessageFacts
    <2>2. b.type = "text"
      BY DEF Text
    <2> HIDE DEF b, new, role
    <2>3. Known(b, role, ms, n)
      BY <2>2 DEF Known
    <2>4. Len(new.blocks) = 1 /\ new.blocks[1] = b /\ new.role = role
      BY <2>1
    <2> QED
      BY <2>3, <2>4 DEF AllKnown, new, sent
  <1> QED
    BY <1>2, <1>3, <1>4

LEMMA KnownLonger ==
    ASSUME NEW m, NEW ms, NEW n \in Nat, AllKnown(m, ms, n)
    PROVE  AllKnown(m, ms, n + 1)
  <1>1. \A j \in 1 .. n : j \in 1 .. n + 1
    OBVIOUS
  <1> QED
    BY <1>1 DEF AllKnown, Known

LEMMA MergedIsKnown ==
    ASSUME NEW ms \in Seq(Entry), NEW g, Merging(g, ms)
    PROVE  \A n \in 0 .. Len(ms) : \A i \in 1 .. Len(g[n]) : AllKnown(g[n][i], ms, n)
  <1> DEFINE N == Len(ms)
             Fine(n) == \A i \in 1 .. Len(g[n]) : AllKnown(g[n][i], ms, n)
             S == {n \in Nat : n <= N => Fine(n)}
  <1>1. N \in Nat
    BY LenProperties
  <1>2. 0 \in S
    <2>1. Len(g[0]) = 0
      BY EmptySeq DEF Merging
    <2> QED
      BY <2>1
  <1>3. ASSUME NEW n \in S PROVE n + 1 \in S
    <2> SUFFICES ASSUME n + 1 <= N PROVE Fine(n + 1)
      OBVIOUS
    <2> DEFINE old == g[n]
               m == ClientMessage(ms[n + 1], SentBefore(ms, n + 1))
               new == g[n + 1]
    <2>1. n \in Nat /\ n + 1 \in 1 .. N /\ n \in 0 .. N /\ (n + 1) - 1 = n
      BY <1>1
    <2>2. new = Appended(old, m) /\ old \in Seq(Message)
      BY <2>1 DEF Merging
    <2>3. m \in Message /\ AllKnown(m, ms, n + 1)
      <3>1. ms[n + 1] \in Entry
        BY <2>1, ElementOfSeq
      <3> QED
        BY <2>1, <3>1, ClientMessageFacts, NewIsKnown
    <2>4. \A i \in 1 .. Len(old) : AllKnown(old[i], ms, n + 1)
      <3>1. Fine(n)
        BY <1>1, <2>1
      <3> QED
        BY <2>1, <3>1, KnownLonger
    <2> HIDE DEF old, m, new
    <2>5. CASE new = Append(old, m)
      <3>1. /\ Len(new) = Len(old) + 1 /\ Len(old) \in Nat
            /\ \A i \in 1 .. Len(old) : new[i] = old[i]
            /\ new[Len(old) + 1] = m
        BY <2>2, <2>3, <2>5, AppendProperties, LenProperties
      <3>2. \A i \in 1 .. Len(new) : AllKnown(new[i], ms, n + 1)
        BY <2>3, <2>4, <3>1
      <3> QED
        BY <3>2 DEF new
    <2>6. CASE new = old
      BY <2>4, <2>6 DEF new
    <2>7. CASE /\ old # <<>> /\ m.role = "user" /\ Last(old).role = "user"
               /\ new = Grown(old, m.blocks)
      <3> DEFINE L == Len(old)
      <3>0. m.blocks \in Seq(Block) /\ Len(m.blocks) \in Nat
        BY <2>3, LenProperties DEF Message
      <3>1. L \in Nat /\ L \in 1 .. L /\ old[L] \in Message /\ old[L].blocks \in Seq(Block)
        <4>1. L \in Nat /\ L # 0
          BY <2>2, <2>7, EmptySeq, LenProperties
        <4>2. old[L] \in Message
          BY <2>2, <4>1, ElementOfSeq
        <4> HIDE DEF L
        <4> QED
          BY <4>1, <4>2 DEF Message
      <3>2. /\ Len(new) = L
            /\ \A i \in 1 .. L - 1 : new[i] = old[i]
            /\ new[L].role = "user"
            /\ new[L].blocks = old[L].blocks \o m.blocks
        <4>1. /\ Len(Grown(old, m.blocks)) = Len(old)
              /\ \A i \in 1 .. Len(old) - 1 : Grown(old, m.blocks)[i] = old[i]
              /\ Grown(old, m.blocks)[Len(old)].role = old[Len(old)].role
              /\ Grown(old, m.blocks)[Len(old)].blocks = old[Len(old)].blocks \o m.blocks
          BY <2>2, <2>7, <3>0, GrownFacts
        <4> QED
          BY <2>7, <4>1 DEF Last
      <3>3. old[L].role = "user"
        BY <2>7 DEF Last
      <3> HIDE DEF L
      <3>4. ASSUME NEW k \in 1 .. Len(new[L].blocks)
            PROVE  Known(new[L].blocks[k], "user", ms, n + 1)
        <4> DEFINE a == old[L].blocks
                   K == Len(a)
        <4>1. K \in Nat /\ Len(new[L].blocks) = K + Len(m.blocks)
          BY <3>0, <3>1, <3>2, ConcatProperties, LenProperties
        <4>2. CASE k <= K
          <5>1. new[L].blocks[k] = a[k] /\ k \in 1 .. K
            BY <3>0, <3>1, <3>2, <4>1, <4>2, ConcatProperties
          <5>2. AllKnown(old[L], ms, n + 1)
            BY <2>4, <3>1 DEF L
          <5> QED
            BY <3>3, <5>1, <5>2 DEF AllKnown
        <4>3. CASE k > K
          <5>1. k - K \in 1 .. Len(m.blocks)
            <6>1. k \in 1 .. (K + Len(m.blocks))
              BY <4>1
            <6> HIDE DEF K
            <6> QED
              BY <3>0, <4>1, <4>3, <6>1
          <5>2. (a \o m.blocks)[k] = m.blocks[k - K]
            <6>1. k \in 1 .. K + Len(m.blocks) /\ a \in Seq(Block)
              BY <3>1, <4>1
            <6> HIDE DEF a
            <6> QED
              BY <3>0, <4>1, <4>3, <6>1, ConcatProperties DEF K
          <5> QED
            BY <2>3, <2>7, <3>2, <5>1, <5>2 DEF AllKnown
        <4> QED
          BY <4>1, <4>2, <4>3
      <3>5. ASSUME NEW i \in 1 .. L PROVE AllKnown(new[i], ms, n + 1)
        <4>1. CASE i = L
          BY <3>2, <3>4, <4>1 DEF AllKnown
        <4>2. CASE i \in 1 .. L - 1
          BY <2>4, <3>1, <3>2, <4>2 DEF L
        <4> QED
          BY <3>1, <4>1, <4>2
      <3> QED
        BY <3>2, <3>5 DEF new
    <2> QED
      BY <2>2, <2>3, <2>5, <2>6, <2>7, AppendedFacts
  <1> HIDE DEF S
  <1>4. S = Nat
    BY <1>2, <1>3, FromZero DEF S
  <1> QED
    BY <1>1, <1>4 DEF S

-----------------------------------------------------------------------------
(* Where the history begins *)

LEMMA Upto ==
    ASSUME NEW N \in Nat, NEW S \in SUBSET (1 .. N)
    PROVE  IsFiniteSet(S) /\ Cardinality(S) \in Nat
  <1>1. IsFiniteSet(1 .. N)
    BY FS_Interval
  <1>2. IsFiniteSet(S)
    BY <1>1, FS_Subset
  <1> QED
    BY <1>2, FS_CardinalityType

(* Of N places, one is the k-th from the end.                              *)
From(S, i) == {j \in S : j >= i}

LEMMA PlaceFromEnd ==
    ASSUME NEW N \in Nat, NEW S \in SUBSET (1 .. N), NEW k \in 1 .. Cardinality(S)
    PROVE  \E i \in S : Cardinality({j \in S : j >= i}) = k
  <1> DEFINE f(i) == Cardinality(From(S, i))
             T == {d \in 0 .. N : f(N + 1 - d) >= k}
  <1>1. \A i \in Int : IsFiniteSet(From(S, i)) /\ f(i) \in Nat
    <2> TAKE i \in Int
    <2>1. From(S, i) \in SUBSET (1 .. N)
      BY DEF From
    <2> QED
      BY <2>1, Upto
  <1>2. k \in Nat /\ k >= 1 /\ k <= Cardinality(S)
    BY Upto
  <1>3. From(S, 1) = S
    <2>1. \A j \in S : j \in 1 .. N
      OBVIOUS
    <2>2. \A j \in S : j >= 1
      BY <2>1
    <2> QED
      BY <2>2 DEF From
  <1>4. f(N + 1) = 0
    <2>1. \A j \in S : j \in 1 .. N
      OBVIOUS
    <2>2. \A j \in S : ~ (j >= N + 1)
      BY <2>1
    <2>3. From(S, N + 1) = {}
      BY <2>2 DEF From
    <2> QED
      BY <2>3, FS_EmptySet
  <1>5. \A i \in Int : i \notin S => From(S, i) = From(S, i + 1)
    <2> TAKE i \in Int
    <2> HAVE i \notin S
    <2>1. \A j \in S : j \in Int /\ j # i
      OBVIOUS
    <2>2. \A j \in S : j >= i <=> j >= i + 1
      BY <2>1
    <2> QED
      BY <2>2 DEF From
  <1>6. \A i \in S : From(S, i) = From(S, i + 1) \cup {i} /\ i \notin From(S, i + 1)
    <2> TAKE i \in S
    <2>1. \A j \in S : j >= i <=> j >= i + 1 \/ j = i
      OBVIOUS
    <2>2. ~ (i >= i + 1) /\ i >= i
      OBVIOUS
    <2> QED
      BY <2>1, <2>2 DEF From
  <1>7. N \in T
    <2>1. N + 1 - N = 1
      OBVIOUS
    <2> QED
      BY <1>2, <1>3, <2>1
  <1> HIDE DEF f
  <1>8. PICK d \in T : \A e \in T : d <= e
    <2>1. T \in SUBSET Nat
      OBVIOUS
    <2> HIDE DEF T
    <2> QED
      BY <1>7, <2>1, LeastNumber
  <1>9. d \in 0 .. N /\ f(N + 1 - d) >= k
    OBVIOUS
  <1>10. \A e \in 0 .. N : e < d => ~ (f(N + 1 - e) >= k)
    BY <1>8
  <1> HIDE DEF T
  <1> DEFINE i == N + 1 - d
  <1>11. d # 0
    <2> SUFFICES ASSUME d = 0 PROVE FALSE
      OBVIOUS
    <2>1. N + 1 - d = N + 1
      OBVIOUS
    <2> QED
      BY <1>2, <1>4, <1>9, <2>1
  <1>12. i \in 1 .. N /\ i + 1 \in Int /\ i \in Int
    BY <1>9, <1>11
  <1>13. ~ (f(i + 1) >= k)
    <2>1. d - 1 \in 0 .. N /\ d - 1 < d
      BY <1>9, <1>11
    <2>2. N + 1 - (d - 1) = i + 1
      BY <1>9
    <2>3. ~ (f(N + 1 - (d - 1)) >= k)
      BY <1>10, <2>1
    <2> HIDE DEF i
    <2> QED
      BY <2>2, <2>3
  <1>14. f(i) >= k
    BY <1>9
  <1> HIDE DEF i
  <1>15. i \in S
    BY <1>5, <1>12, <1>13, <1>14 DEF f
  <1>16. f(i) = f(i + 1) + 1
    <2>1. IsFiniteSet(From(S, i + 1)) /\ i \notin From(S, i + 1)
      BY <1>1, <1>6, <1>12, <1>15
    <2>2. Cardinality(From(S, i + 1) \cup {i}) = Cardinality(From(S, i + 1)) + 1
      BY <2>1, FS_AddElement
    <2> QED
      BY <1>6, <1>15, <2>2 DEF f
  <1>17. f(i) \in Nat /\ f(i + 1) \in Nat
    BY <1>1, <1>12
  <1>18. f(i) = k
    BY <1>2, <1>13, <1>14, <1>16, <1>17
  <1> QED
    BY <1>15, <1>18 DEF f, From

LEMMA Latest ==
    ASSUME NEW N \in Nat, NEW S \in SUBSET (1 .. N), S # {}
    PROVE  Max(S) \in S /\ \A j \in S : j <= Max(S)
  <1> DEFINE T == {d \in Nat : N - d \in S}
  <1>1. PICK d \in T : \A e \in T : d <= e
    <2>1. PICK i \in S : TRUE
      OBVIOUS
    <2>2. N - i \in T
      BY <2>1
    <2> HIDE DEF T
    <2>3. T \in SUBSET Nat
      BY DEF T
    <2> QED
      BY <2>2, <2>3, LeastNumber
  <1>2. N - d \in S /\ \A j \in S : N - d >= j
    <2>1. \A j \in S : N - j \in T
      OBVIOUS
    <2> QED
      BY <1>1, <2>1
  <1>3. \E x \in S : \A y \in S : x >= y
    BY <1>2
  <1>4. Max(S) \in S /\ \A j \in S : Max(S) >= j
    BY <1>3 DEF Max
  <1> QED
    BY <1>4

LEMMA HumansFacts ==
    ASSUME NEW ms \in Seq(Entry)
    PROVE  /\ Humans(ms) \in SUBSET (1 .. Len(ms)) /\ Len(ms) \in Nat
           /\ IsFiniteSet(Humans(ms)) /\ Cardinality(Humans(ms)) \in Nat
           /\ Humans(ms) # {} => /\ Max(Humans(ms)) \in Humans(ms)
                                 /\ \A j \in Humans(ms) : j <= Max(Humans(ms))
  <1>1. Len(ms) \in Nat /\ DOMAIN ms = 1 .. Len(ms)
    BY LenProperties
  <1>2. Humans(ms) \in SUBSET (1 .. Len(ms))
    BY <1>1 DEF Humans
  <1> QED
    BY <1>1, <1>2, Upto, Latest

(* _bounded_history_start: everything, or the last turns of the human.     *)
LEMMA BoundedFacts ==
    ASSUME NEW ms \in Seq(Entry)
    PROVE  \/ BoundedStart(ms) = 1 /\ Cardinality(Humans(ms)) <= SummaryEvery
           \/ /\ BoundedStart(ms) \in Humans(ms)
              /\ Cardinality({j \in Humans(ms) : j >= BoundedStart(ms)}) = SummaryEvery
  <1>1. Cardinality(Humans(ms)) \in Nat /\ SummaryEvery \in Nat \ {0, 1}
    BY HumansFacts, ThreadConstants
  <1>2. CASE Cardinality(Humans(ms)) <= SummaryEvery
    BY <1>2 DEF BoundedStart
  <1>3. CASE ~ (Cardinality(Humans(ms)) <= SummaryEvery)
    <2>1. \E i \in Humans(ms) : Cardinality({j \in Humans(ms) : j >= i}) = SummaryEvery
      <3>1. SummaryEvery \in 1 .. Cardinality(Humans(ms))
        BY <1>1, <1>3
      <3>2. Humans(ms) \in SUBSET (1 .. Len(ms)) /\ Len(ms) \in Nat
        BY HumansFacts
      <3> QED
        BY <3>1, <3>2, PlaceFromEnd
    <2> QED
      BY <1>3, <2>1 DEF BoundedStart
  <1> QED
    BY <1>2, <1>3

LEMMA MatchingFacts ==
    ASSUME NEW ms \in Seq(Entry), NEW id, NEW before \in 1 .. Len(ms)
    PROVE  LET at == MatchingUse(ms, id, before)
               Here(i) == \E k \in DOMAIN ms[i].calls : ms[i].calls[k].id = id
           IN  /\ at \in 1 .. before
               /\ (\E i \in 1 .. before - 1 : Here(i)) => at < before /\ Here(at)
  <1> DEFINE Here(i) == \E k \in DOMAIN ms[i].calls : ms[i].calls[k].id = id
             uses == {i \in 1 .. (before - 1) : Here(i)}
  <1>1. before \in Nat /\ before >= 1
    BY LenProperties
  <1>2. MatchingUse(ms, id, before) = IF uses = {} THEN before ELSE Max(uses)
    BY DEF MatchingUse
  <1>3. uses # {} => Max(uses) \in uses
    <2>1. uses \in SUBSET (1 .. before - 1) /\ before - 1 \in Nat
      BY <1>1
    <2> HIDE DEF uses
    <2> QED
      BY <2>1, Latest
  <1> HIDE DEF Here
  <1>4. CASE uses = {}
    <2>1. ~ \E i \in 1 .. before - 1 : Here(i)
      BY <1>4
    <2> QED
      BY <1>1, <1>2, <1>4, <2>1 DEF Here
  <1>5. CASE uses # {}
    <2>1. Max(uses) \in 1 .. before - 1 /\ Here(Max(uses))
      BY <1>3, <1>5
    <2> HIDE DEF uses
    <2>2. MatchingUse(ms, id, before) = Max(uses)
      BY <1>2, <1>5
    <2> QED
      BY <1>1, <2>1, <2>2 DEF Here
  <1> QED
    BY <1>4, <1>5

LEMMA StartFacts ==
    ASSUME log \in Seq(Entry)
    PROVE  /\ HistoryStart \in Nat \ {0}
           /\ log # <<>> => HistoryStart <= Len(log)
  <1> DEFINE H == Humans(log)
             h == Max(H)
  <1>1. Len(log) \in Nat /\ (log # <<>> => Len(log) > 0)
    BY LenProperties, EmptySeq
  <1>2. H # {} => h \in 1 .. Len(log)
    BY HumansFacts
  <1>3. CASE ~summary
    <2>1. HistoryStart = 1 \/ HistoryStart \in H
      BY <1>3, BoundedFacts DEF HistoryStart
    <2>2. H \subseteq 1 .. Len(log)
      BY HumansFacts
    <2> QED
      BY <1>1, <2>1, <2>2
  <1>4. CASE summary /\ (H = {} \/ h = 1)
    <2>1. HistoryStart = 1
      BY <1>4 DEF HistoryStart, CompactedStart
    <2> QED
      BY <1>1, <2>1
  <1>5. CASE summary /\ H # {} /\ h # 1
    <2>1. h - 1 \in 1 .. Len(log) /\ h \in 1 .. Len(log)
      BY <1>1, <1>2, <1>5
    <2>2. MatchingUse(log, log[h - 1].call, h - 1) \in 1 .. h - 1
      BY <2>1, MatchingFacts
    <2>3. HistoryStart \in {MatchingUse(log, log[h - 1].call, h - 1), h - 1, h}
      BY <1>5 DEF HistoryStart, CompactedStart
    <2> HIDE DEF h
    <2> QED
      BY <1>1, <2>1, <2>2, <2>3
  <1> QED
    BY <1>3, <1>4, <1>5

(* The history is the log from its start on.                               *)
LEMMA HistoryFacts ==
    ASSUME log \in Seq(Entry)
    PROVE  /\ History \in Seq(Entry)
           /\ \/ Len(History) = Len(log) - (HistoryStart - 1)
              \/ log = <<>> /\ History = <<>>
           /\ \A n \in 1 .. Len(History) : /\ History[n] = log[HistoryStart + n - 1]
                                           /\ HistoryStart + n - 1 \in 1 .. Len(log)
  <1>1. Len(log) \in Nat /\ HistoryStart \in Nat \ {0}
    BY StartFacts, LenProperties
  <1>2. CASE log = <<>>
    <2>1. Len(log) = 0
      BY <1>2, EmptySeq
    <2>2. History = <<>>
      BY <1>1, <2>1 DEF History
    <2> QED
      BY <1>2, <2>2, EmptySeq
  <1>3. CASE log # <<>>
    <2>1. HistoryStart \in 1 .. Len(log) /\ Len(log) \in HistoryStart .. Len(log)
      BY <1>1, <1>3, StartFacts
    <2>2. /\ History \in Seq(Entry)
          /\ Len(History) = Len(log) - HistoryStart + 1
          /\ \A n \in 1 .. Len(log) - HistoryStart + 1 : History[n] = log[HistoryStart + n - 1]
      BY <1>1, <2>1, SubSeqProperties DEF History
    <2> QED
      BY <1>1, <2>1, <2>2
  <1> QED
    BY <1>2, <1>3

-----------------------------------------------------------------------------
(* The end of the thread *)

(* What is added to the messages are texts.                                *)
Tailed(ms, out) ==
    /\ out \in Seq(Message) /\ out # <<>> /\ Len(ms) <= Len(out)
    /\ \A i \in 1 .. Len(ms) :
          /\ out[i].role = ms[i].role
          /\ Len(ms[i].blocks) <= Len(out[i].blocks)
          /\ \A k \in 1 .. Len(ms[i].blocks) : out[i].blocks[k] = ms[i].blocks[k]
    /\ \A i \in 1 .. Len(out) : \A k \in 1 .. Len(out[i].blocks) :
          \/ out[i].blocks[k].type = "text"
          \/ i <= Len(ms) /\ k <= Len(ms[i].blocks)

LEMMA GrownIsTailed ==
    ASSUME NEW ms \in Seq(Message), ms # <<>>, NEW b \in Block, b.type = "text"
    PROVE  Tailed(ms, Grown(ms, <<b>>))
  <1> DEFINE out == Grown(ms, <<b>>)
             N == Len(ms)
             blocks == ms[N].blocks
             K == Len(blocks)
  <1>1. <<b>> \in Seq(Block) /\ Len(<<b>>) = 1 /\ <<b>>[1] = b
    OBVIOUS
  <1>2. N \in Nat /\ N # 0 /\ N \in 1 .. N
    BY EmptySeq, LenProperties
  <1>3. ASSUME NEW i \in 1 .. N PROVE ms[i].blocks \in Seq(Block) /\ Len(ms[i].blocks) \in Nat
    <2>1. ms[i] \in Message
      BY ElementOfSeq
    <2> QED
      BY <2>1, LenProperties DEF Message
  <1>4. /\ out \in Seq(Message) /\ Len(out) = N
        /\ \A i \in 1 .. N - 1 : out[i] = ms[i]
        /\ out[N].role = ms[N].role
        /\ out[N].blocks = blocks \o <<b>>
    BY <1>1, GrownFacts
  <1>5. out # <<>>
    BY <1>2, <1>4, EmptySeq
  <1> HIDE DEF out
  <1>6. /\ K \in Nat /\ Len(out[N].blocks) = K + 1
        /\ \A k \in 1 .. K : out[N].blocks[k] = blocks[k]
        /\ out[N].blocks[K + 1] = b
    <2>1. blocks \in Seq(Block)
      BY <1>2, <1>3
    <2> HIDE DEF blocks
    <2>2. K \in Nat /\ blocks \o <<b>> = Append(blocks, b)
      BY <2>1, LenProperties, AppendIsConcat
    <2> QED
      BY <1>4, <2>1, <2>2, AppendProperties
  <1>7. K = Len(ms[N].blocks) /\ blocks = ms[N].blocks
    OBVIOUS
  <1> HIDE DEF N, K, blocks
  <1>8. ASSUME NEW i \in 1 .. N
        PROVE  /\ out[i].role = ms[i].role
               /\ Len(ms[i].blocks) <= Len(out[i].blocks)
               /\ \A k \in 1 .. Len(ms[i].blocks) : out[i].blocks[k] = ms[i].blocks[k]
    <2>1. CASE i = N
      BY <1>4, <1>6, <1>7, <2>1
    <2>2. CASE i # N
      BY <1>2, <1>3, <1>4, <2>2
    <2> QED
      BY <2>1, <2>2
  <1>9. ASSUME NEW i \in 1 .. N, NEW k \in 1 .. Len(out[i].blocks)
        PROVE  out[i].blocks[k].type = "text" \/ (i <= N /\ k <= Len(ms[i].blocks))
    <2>1. CASE i = N
      <3>1. k = K + 1 \/ k <= K
        BY <1>6, <2>1
      <3> QED
        BY <1>2, <1>6, <1>7, <2>1, <3>1
    <2>2. CASE i # N
      BY <1>2, <1>3, <1>4, <2>2
    <2> QED
      BY <2>1, <2>2
  <1>10. Len(ms) = N
    BY DEF N
  <1>11. Tailed(ms, out)
    BY <1>2, <1>4, <1>5, <1>8, <1>9, <1>10 DEF Tailed
  <1> QED
    BY <1>11 DEF out

LEMMA AppendedIsTailed ==
    ASSUME NEW ms \in Seq(Message), NEW b \in Block, b.type = "text"
    PROVE  Tailed(ms, Append(ms, [role |-> "user", plain |-> TRUE, blocks |-> <<b>>]))
  <1> DEFINE m == [role |-> "user", plain |-> TRUE, blocks |-> <<b>>]
             out == Append(ms, m)
             N == Len(ms)
  <1>1. m \in Message
    <2>1. <<b>> \in Seq(Block)
      OBVIOUS
    <2> QED
      BY <2>1 DEF Message
  <1>2. Len(m.blocks) = 1 /\ m.blocks[1].type = "text"
    OBVIOUS
  <1> HIDE DEF m
  <1>3. /\ out \in Seq(Message) /\ out # <<>> /\ N \in Nat /\ Len(out) = N + 1
        /\ \A i \in 1 .. N : out[i] = ms[i]
        /\ out[N + 1] = m
    BY <1>1, AppendProperties, LenProperties
  <1>4. \A i \in 1 .. N : Len(ms[i].blocks) \in Nat
    BY ElementOfSeq, LenProperties DEF Message
  <1> HIDE DEF out
  <1>5. ASSUME NEW i \in 1 .. N + 1, NEW k \in 1 .. Len(out[i].blocks)
        PROVE  out[i].blocks[k].type = "text" \/ (i <= N /\ k <= Len(ms[i].blocks))
    <2>1. CASE i = N + 1
      BY <1>2, <1>3, <2>1
    <2>2. CASE i \in 1 .. N
      BY <1>3, <1>4, <2>2
    <2> QED
      BY <1>3, <2>1, <2>2
  <1>6. Tailed(ms, out)
    BY <1>3, <1>4, <1>5 DEF Tailed
  <1> QED
    BY <1>6 DEF out, m

LEMMA TailedTwice ==
    ASSUME NEW ms \in Seq(Message), NEW mid, NEW out, Tailed(ms, mid), Tailed(mid, out)
    PROVE  Tailed(ms, out)
  <1>1. Len(ms) \in Nat /\ Len(mid) \in Nat /\ Len(out) \in Nat
    BY LenProperties DEF Tailed
  <1>2. \A i \in 1 .. Len(ms) : Len(ms[i].blocks) \in Nat
    BY ElementOfSeq, LenProperties DEF Message
  <1>3. \A i \in 1 .. Len(mid) : Len(mid[i].blocks) \in Nat
    <2>1. mid \in Seq(Message)
      BY DEF Tailed
    <2> QED
      BY <2>1, ElementOfSeq, LenProperties DEF Message
  <1>4. \A i \in 1 .. Len(out) : Len(out[i].blocks) \in Nat
    <2>1. out \in Seq(Message)
      BY DEF Tailed
    <2> QED
      BY <2>1, ElementOfSeq, LenProperties DEF Message
  <1>5. Len(ms) <= Len(mid) /\ Len(mid) <= Len(out) /\ out \in Seq(Message) /\ out # <<>>
    BY DEF Tailed
  <1>6. ASSUME NEW i \in 1 .. Len(ms)
        PROVE  /\ out[i].role = ms[i].role
               /\ Len(ms[i].blocks) <= Len(out[i].blocks)
               /\ \A k \in 1 .. Len(ms[i].blocks) : out[i].blocks[k] = ms[i].blocks[k]
    <2>1. i \in 1 .. Len(mid) /\ i \in 1 .. Len(out)
      BY <1>1, <1>5
    <2>2. /\ mid[i].role = ms[i].role
          /\ Len(ms[i].blocks) <= Len(mid[i].blocks)
          /\ \A k \in 1 .. Len(ms[i].blocks) : mid[i].blocks[k] = ms[i].blocks[k]
      BY DEF Tailed
    <2>3. /\ out[i].role = mid[i].role
          /\ Len(mid[i].blocks) <= Len(out[i].blocks)
          /\ \A k \in 1 .. Len(mid[i].blocks) : out[i].blocks[k] = mid[i].blocks[k]
      BY <2>1 DEF Tailed
    <2>4. Len(ms[i].blocks) \in Nat /\ Len(mid[i].blocks) \in Nat /\ Len(out[i].blocks) \in Nat
      BY <1>2, <1>3, <1>4, <2>1
    <2>5. Len(ms[i].blocks) <= Len(out[i].blocks)
      <3> DEFINE a == Len(ms[i].blocks)
                 b == Len(mid[i].blocks)
                 c == Len(out[i].blocks)
      <3>1. a \in Nat /\ b \in Nat /\ c \in Nat /\ a <= b
        BY <2>2, <2>4
      <3>2. b <= c
        BY <2>3
      <3> HIDE DEF a, b, c
      <3>3. a <= c
        BY <3>1, <3>2
      <3> QED
        BY <3>3 DEF a, c
    <2>6. ASSUME NEW k \in 1 .. Len(ms[i].blocks)
          PROVE  out[i].blocks[k] = ms[i].blocks[k]
      <3>1. k \in 1 .. Len(mid[i].blocks)
        BY <2>2, <2>4
      <3>2. out[i].blocks[k] = mid[i].blocks[k]
        BY <2>3, <3>1
      <3>3. mid[i].blocks[k] = ms[i].blocks[k]
        BY <2>2
      <3> QED
        BY <3>2, <3>3
    <2>7. out[i].role = ms[i].role
      BY <2>2, <2>3
    <2> QED
      BY <2>5, <2>6, <2>7
  <1>7. ASSUME NEW i \in 1 .. Len(out), NEW k \in 1 .. Len(out[i].blocks)
        PROVE  out[i].blocks[k].type = "text" \/ (i <= Len(ms) /\ k <= Len(ms[i].blocks))
    <2> SUFFICES ASSUME out[i].blocks[k].type # "text"
                 PROVE  i <= Len(ms) /\ k <= Len(ms[i].blocks)
      OBVIOUS
    <2>1. i <= Len(mid) /\ k <= Len(mid[i].blocks)
      BY DEF Tailed
    <2>2. i \in 1 .. Len(mid) /\ k \in 1 .. Len(mid[i].blocks)
      BY <1>1, <1>3, <1>4, <2>1
    <2>3. out[i].blocks[k] = mid[i].blocks[k]
      BY <2>2 DEF Tailed
    <2> QED
      BY <2>2, <2>3 DEF Tailed
  <1> QED
    BY <1>1, <1>5, <1>6, <1>7 DEF Tailed

(* _append_analyzer_prompt and _append_latest_user_emphasis.               *)
LEMMA ThreadIsTailed ==
    ASSUME log \in Seq(Entry), NEW ms \in Seq(Message)
    PROVE  Tailed(ms, Emphasised(Prompted(ms)))
  <1> DEFINE b == Text("PROMPT")
             mid == Prompted(ms)
             h == Max(Humans(log))
             e == Text(log[h].text)
  <1>1. b \in Block /\ b.type = "text"
    <2>1. "PROMPT" \in Texts
      BY DEF Texts
    <2> QED
      BY <2>1, BlockTypes DEF Text
  <1>2. Tailed(ms, mid)
    <2> HIDE DEF b
    <2>1. CASE ms # <<>> /\ Last(ms).role = "user" /\ Holds(Last(ms), "result")
      <3>1. mid = Grown(ms, <<b>>)
        BY <2>1 DEF Prompted, Grown, b
      <3> QED
        BY <1>1, <2>1, <3>1, GrownIsTailed
    <2>2. CASE ~ (ms # <<>> /\ Last(ms).role = "user" /\ Holds(Last(ms), "result"))
      <3>1. mid = Append(ms, [role |-> "user", plain |-> TRUE, blocks |-> <<b>>])
        BY <2>2 DEF Prompted, b
      <3> QED
        BY <1>1, <3>1, AppendedIsTailed
    <2> QED
      BY <2>1, <2>2
  <1> HIDE DEF mid
  <1>3. CASE Humans(log) = {}
    BY <1>2, <1>3 DEF Emphasised, mid
  <1>4. CASE Humans(log) # {}
    <2>1. e \in Block /\ e.type = "text"
      <3>1. h \in 1 .. Len(log)
        BY <1>4, HumansFacts
      <3>2. log[h] \in Entry
        BY <3>1, ElementOfSeq
      <3> QED
        BY <3>2, BlockTypes DEF Text, Entry
    <2>2. Emphasised(mid) = Grown(mid, <<e>>)
      BY <1>4 DEF Emphasised, Grown
    <2> HIDE DEF e
    <2>3. Tailed(mid, Emphasised(mid))
      <3>1. mid \in Seq(Message) /\ mid # <<>>
        BY <1>2 DEF Tailed
      <3> QED
        BY <2>1, <2>2, <3>1, GrownIsTailed
    <2> QED
      BY <1>2, <2>3, TailedTwice DEF mid
  <1> QED
    BY <1>3, <1>4

LEMMA ThreadFacts ==
    ASSUME log \in Seq(Entry)
    PROVE  \E g : /\ Merging(g, History)
                  /\ Merged(History) = g[Len(History)]
                  /\ Merged(History) \in Seq(Message)
                  /\ Tailed(Merged(History), Thread)
  <1>1. History \in Seq(Entry)
    BY HistoryFacts
  <1>2. PICK g : Merging(g, History)
    BY <1>1, MergingExists
  <1>3. Len(History) \in 0 .. Len(History)
    BY <1>1, LenProperties
  <1>4. Merged(History) = g[Len(History)] /\ Merged(History) \in Seq(Message)
    BY <1>2, <1>3 DEF Merging
  <1>5. Tailed(Merged(History), Thread)
    BY <1>4, ThreadIsTailed DEF Thread
  <1> QED
    BY <1>2, <1>4, <1>5


-----------------------------------------------------------------------------
(* What the history holds *)

Holder(e, id) == \E k \in 1 .. Len(e.calls) : e.calls[k].id = id

(* Only the model calls tools, with what the provider said.                *)
Source(e) ==
    /\ e.by # "ai" => e.calls = <<>>
    /\ e.by = "human" => e.text # "DONE"
    /\ \A k \in 1 .. Len(e.calls) : Faithful(e.calls[k], e.asked)

(* A result answers a call before it, and the words of the human follow    *)
(* their call with nothing but results in between.                         *)
Answered(ms, j) ==
    ms[j].by = "tool" =>
        \E u \in 1 .. j - 1 :
            /\ Holder(ms[u], ms[j].call)
            /\ ms[j].text # "DONE" => \A k \in u + 1 .. j : ms[k].by = "tool"

Sound(ms) ==
    /\ ms \in Seq(Entry)
    /\ \A j \in 1 .. Len(ms) : Source(ms[j]) /\ Answered(ms, j)

SoundLog == Sound(log) /\ answers \in Nat /\ (stage = "tools" => log # <<>>)

LEMMA EntryTypes ==
    /\ \A w \in Words : Human(w) \in Entry /\ Source(Human(w))
    /\ Spoken("GREETING") \in Entry /\ Source(Spoken("GREETING"))
    /\ \A id \in Id, t \in Texts : Result(id, t) \in Entry /\ Source(Result(id, t))
    /\ \A answer \in Answers, n \in Nat :
          LET e == Calling(Dispatched(answer, n), answer)
          IN  e \in Entry /\ Source(e)
  <1>1. NoCall \in Id /\ <<>> \in Seq(Call) /\ <<>> \in Seq(Parts) /\ Len(<<>>) = 0
    BY EmptySeq DEF NoCall, Id
  <1>2. "" \in Texts /\ "GREETING" \in Texts /\ Words \subseteq Texts
    BY DEF Texts
  <1>3. ASSUME NEW w \in Words PROVE Human(w) \in Entry /\ Source(Human(w))
    <2>1. Human(w) \in Entry
      BY <1>1, <1>2 DEF Human, Entry
    <2>2. w # "DONE"
      BY ThreadConstants
    <2>3. Source(Human(w))
      BY <1>1, <2>2 DEF Human, Source
    <2> QED
      BY <2>1, <2>3
  <1>4. Spoken("GREETING") \in Entry /\ Source(Spoken("GREETING"))
    <2>1. Spoken("GREETING") \in Entry
      BY <1>1, <1>2 DEF Spoken, Entry
    <2>2. Source(Spoken("GREETING"))
      BY <1>1 DEF Spoken, Source
    <2> QED
      BY <2>1, <2>2
  <1>5. \A id \in Id, t \in Texts : Result(id, t) \in Entry /\ Source(Result(id, t))
    BY <1>1 DEF Result, Entry, Source
  <1>6. ASSUME NEW answer \in Answers, NEW n \in Nat
        PROVE  LET e == Calling(Dispatched(answer, n), answer)
               IN  e \in Entry /\ Source(e)
    <2> DEFINE batch == Dispatched(answer, n)
               D == {c \in Call : Faithful(c, answer.parts)}
    <2>1. batch \in Seq(D) /\ answer.parts \in Seq(Parts)
      BY DispatchedFacts, AnswerParts
    <2> HIDE DEF batch
    <2>2. batch \in Seq(Call)
      <3>1. D \subseteq Call
        OBVIOUS
      <3> HIDE DEF D
      <3> QED
        BY <2>1, <3>1, SeqMonotonic
    <2>3. \A k \in 1 .. Len(batch) : batch[k] \in D
      <3> HIDE DEF D
      <3> QED
        BY <2>1, ElementOfSeq
    <2>4. Calling(batch, answer) \in Entry
      BY <1>1, <1>2, <2>1, <2>2 DEF Calling, Entry
    <2>5. Source(Calling(batch, answer))
      BY <2>3 DEF Calling, Source
    <2> QED
      BY <2>4, <2>5 DEF batch
  <1> QED
    BY <1>3, <1>4, <1>5, <1>6

(* Entries that answer the calls of entry u, or answer none.               *)
LEMMA Continued ==
    ASSUME NEW ms, Sound(ms), NEW more \in Seq(Entry), NEW u \in Nat,
           \A j \in 1 .. Len(more) :
              /\ Source(more[j])
              /\ more[j].by = "tool" =>
                    /\ u \in 1 .. Len(ms) /\ Holder(ms[u], more[j].call)
                    /\ more[j].text # "DONE" =>
                          /\ \A k \in u + 1 .. Len(ms) : ms[k].by = "tool"
                          /\ \A k \in 1 .. j : more[k].by = "tool"
    PROVE  Sound(ms \o more)
  <1> DEFINE N == Len(ms)
             M == Len(more)
             out == ms \o more
  <1>1. ms \in Seq(Entry)
    BY DEF Sound
  <1>2. N \in Nat /\ M \in Nat /\ out \in Seq(Entry) /\ Len(out) = N + M
    BY <1>1, LenProperties, ConcatProperties
  <1>3. \A i \in 1 .. N : out[i] = ms[i]
    BY <1>1, <1>2, ConcatProperties
  <1>4. \A i \in 1 .. M : out[N + i] = more[i]
    <2> TAKE i \in 1 .. M
    <2>1. N + i \in 1 .. N + M /\ N + i > N /\ (N + i) - N = i
      BY <1>2
    <2>2. out[N + i] = IF N + i <= N THEN ms[N + i] ELSE more[(N + i) - N]
      BY <1>1, <2>1, ConcatProperties
    <2> QED
      BY <2>1, <2>2
  <1>5. \A j \in 1 .. N : Source(ms[j]) /\ Answered(ms, j)
    BY DEF Sound
  <1> HIDE DEF out, N, M
  <1>6. ASSUME NEW j \in 1 .. N PROVE Source(out[j]) /\ Answered(out, j)
    <2>1. Source(out[j])
      BY <1>3, <1>5
    <2>2. \A k \in 1 .. j : k \in 1 .. N
      BY <1>2
    <2>3. out[j] = ms[j] /\ \A k \in 1 .. j : out[k] = ms[k]
      BY <1>3, <2>2
    <2>4. Answered(out, j)
      <3> SUFFICES ASSUME ms[j].by = "tool" PROVE Answered(out, j)
        BY <2>3 DEF Answered
      <3>1. PICK v \in 1 .. j - 1 :
                /\ Holder(ms[v], ms[j].call)
                /\ ms[j].text # "DONE" => \A k \in v + 1 .. j : ms[k].by = "tool"
        BY <1>5 DEF Answered
      <3>2. j \in Nat /\ v \in 1 .. j /\ \A k \in v + 1 .. j : k \in 1 .. j
        BY <1>2
      <3>3. Holder(out[v], out[j].call)
        BY <2>3, <3>1, <3>2
      <3>4. out[j].text # "DONE" => \A k \in v + 1 .. j : out[k].by = "tool"
        BY <2>3, <3>1, <3>2
      <3> QED
        BY <3>3, <3>4 DEF Answered
    <2> QED
      BY <2>1, <2>4
  <1>7. ASSUME NEW i \in 1 .. M PROVE Source(out[N + i]) /\ Answered(out, N + i)
    <2>1. Source(out[N + i])
      BY <1>4 DEF M
    <2>2. SUFFICES ASSUME more[i].by = "tool" PROVE Answered(out, N + i)
      BY <1>4, <2>1 DEF Answered
    <2>3. /\ u \in 1 .. N /\ Holder(ms[u], more[i].call)
          /\ more[i].text # "DONE" =>
                /\ \A k \in u + 1 .. N : ms[k].by = "tool"
                /\ \A k \in 1 .. i : more[k].by = "tool"
      BY <2>2 DEF N, M
    <2>4. u \in 1 .. (N + i) - 1 /\ Holder(out[u], out[N + i].call)
      BY <1>2, <1>3, <1>4, <2>3
    <2>5. ASSUME out[N + i].text # "DONE", NEW k \in u + 1 .. N + i PROVE out[k].by = "tool"
      <3>0. more[i].text # "DONE"
        BY <1>4, <2>5
      <3>1. CASE k <= N
        <4>1. k \in 1 .. N /\ k \in u + 1 .. N
          BY <1>2, <2>3, <3>1
        <4> QED
          BY <1>3, <2>3, <3>0, <4>1
      <3>2. CASE k > N
        <4>1. k - N \in 1 .. i /\ k - N \in 1 .. M /\ N + (k - N) = k
          BY <1>2, <2>3, <3>2
        <4>2. out[N + (k - N)] = more[k - N]
          BY <1>4, <4>1
        <4>3. more[k - N].by = "tool"
          BY <2>3, <3>0, <4>1
        <4> QED
          BY <4>1, <4>2, <4>3
      <3> QED
        BY <1>2, <2>3, <3>1, <3>2
    <2> QED
      BY <2>4, <2>5 DEF Answered
  <1>8. \A j \in 1 .. N + M : j \in 1 .. N \/ (j - N \in 1 .. M /\ N + (j - N) = j)
    BY <1>2
  <1>9. \A j \in 1 .. Len(out) : Source(out[j]) /\ Answered(out, j)
    <2> TAKE j \in 1 .. Len(out)
    <2>1. j \in 1 .. N \/ (j - N \in 1 .. M /\ N + (j - N) = j)
      BY <1>2, <1>8 DEF out
    <2>2. CASE j \in 1 .. N
      BY <1>6, <2>2
    <2>3. CASE j - N \in 1 .. M /\ N + (j - N) = j
      <3>1. Source(out[N + (j - N)]) /\ Answered(out, N + (j - N))
        BY <1>7, <2>3
      <3> QED
        BY <2>3, <3>1
    <2> QED
      BY <2>1, <2>2, <2>3
  <1> QED
    BY <1>2, <1>9 DEF Sound, out


(* Entries that hold no result.                                            *)
LEMMA Spoke ==
    ASSUME NEW ms, Sound(ms), NEW more \in Seq(Entry),
           \A j \in 1 .. Len(more) : Source(more[j]) /\ more[j].by # "tool"
    PROVE  Sound(ms \o more)
  BY Continued, 0 \in Nat

LEMMA SpokeOnce ==
    ASSUME NEW ms, Sound(ms), NEW e \in Entry, Source(e), e.by # "tool"
    PROVE  Sound(ms \o <<e>>)
  <1> DEFINE more == <<e>>
  <1>1. more \in Seq(Entry) /\ Len(more) = 1 /\ more[1] = e
    OBVIOUS
  <1>2. \A j \in 1 .. 1 : j = 1
    OBVIOUS
  <1> HIDE DEF more
  <1>3. Sound(ms \o more)
    BY <1>1, <1>2, Spoke
  <1> QED
    BY <1>3 DEF more

(* Results of a batch, which are all there is since its calls or are not   *)
(* the words of the human.                                                 *)
LEMMA Returned ==
    ASSUME NEW ms, Sound(ms), NEW more \in Seq(Entry), NEW u \in 1 .. Len(ms),
           \A j \in 1 .. Len(more) :
              /\ Source(more[j]) /\ more[j].by = "tool" /\ Holder(ms[u], more[j].call)
              /\ \/ more[j].text = "DONE"
                 \/ \A k \in u + 1 .. Len(ms) : ms[k].by = "tool"
    PROVE  Sound(ms \o more)
  <1>1. Len(ms) \in Nat /\ u \in Nat
    BY LenProperties DEF Sound
  <1>2. Len(more) \in Nat
    BY LenProperties
  <1>3. \A j \in 1 .. Len(more) : \A k \in 1 .. j : k \in 1 .. Len(more)
    BY <1>2
  <1> QED
    BY <1>1, <1>3, Continued

LEMMA SoundBegin ==
    ASSUME SoundLog, Begin
    PROVE  SoundLog'
  <1>1. PICK w \in Words : log' = Append(log, Human(w))
    BY DEF Begin
  <1> DEFINE m == Human(w)
  <1>2. m \in Entry /\ Source(m) /\ m.by # "tool"
    BY EntryTypes DEF Human
  <1> HIDE DEF m
  <1>3. log \in Seq(Entry) /\ Sound(log)
    BY DEF SoundLog, Sound
  <1>4. log' = log \o <<m>>
    BY <1>1, <1>2, <1>3, AppendIsConcat DEF m
  <1>5. Sound(log')
    BY <1>2, <1>3, <1>4, SpokeOnce
  <1>6. stage' # "tools" /\ answers' = answers
    BY DEF Begin
  <1> QED
    BY <1>5, <1>6 DEF SoundLog, Sound

LEMMA SoundConverse ==
    ASSUME SoundLog, Converse
    PROVE  SoundLog'
  <1>1. PICK w \in Words : log' = log \o <<Spoken("GREETING"), Human(w)>>
    BY DEF Converse
  <1> DEFINE m == Human(w)
             g == Spoken("GREETING")
             more == <<g, m>>
  <1>2. /\ m \in Entry /\ Source(m) /\ m.by # "tool"
        /\ g \in Entry /\ Source(g) /\ g.by # "tool"
    BY EntryTypes DEF Human, Spoken
  <1> HIDE DEF m, g
  <1>3. more \in Seq(Entry) /\ Len(more) = 2 /\ more[1] = g /\ more[2] = m
    BY <1>2
  <1>4. \A j \in 1 .. Len(more) : Source(more[j]) /\ more[j].by # "tool"
    <2>1. \A j \in 1 .. 2 : j = 1 \/ j = 2
      OBVIOUS
    <2> QED
      BY <1>2, <1>3, <2>1
  <1> HIDE DEF more
  <1>5. log' = log \o more
    BY <1>1 DEF more, g, m
  <1>6. Sound(log')
    BY <1>3, <1>4, <1>5, Spoke DEF SoundLog
  <1>7. stage' # "tools" /\ answers' = answers
    BY DEF Converse
  <1> QED
    BY <1>6, <1>7 DEF SoundLog, Sound

LEMMA SoundAnalyze ==
    ASSUME SoundLog, Analyze
    PROVE  SoundLog'
  <1> DEFINE n == answers + 1
  <1>1. n \in Nat /\ answers' = n
    BY DEF SoundLog, Analyze
  <1>2. PICK answer \in Answers, stops \in BOOLEAN :
           LET batch == Dispatched(answer, n)
           IN  /\ log' = IF batch = <<>> THEN log
                         ELSE log \o <<Calling(batch, answer)>>
                                  \o (IF stops THEN Closed(batch) ELSE <<>>)
               /\ stage' = IF batch = <<>> \/ stops THEN "idle" ELSE "tools"
    <2>1. answers' = n
      BY <1>1
    <2> HIDE DEF n
    <2> QED
      BY <2>1, Zenon DEF Analyze
  <1> DEFINE batch == Dispatched(answer, n)
             e == Calling(batch, answer)
             more == IF stops THEN Closed(batch) ELSE <<>>
             mid == log \o <<e>>
             N == Len(log)
  <1>3. batch = <<>> => log' = log /\ stage' = "idle"
    BY <1>2
  <1>4. batch # <<>> => log' = mid \o more
    BY <1>2
  <1>5. e \in Entry /\ Source(e)
    BY <1>1, EntryTypes
  <1>6. batch \in Seq(Call) /\ e.calls = batch /\ e.by # "tool"
    <2>1. e.calls = batch /\ e.by # "tool"
      BY DEF Calling
    <2> HIDE DEF e
    <2> QED
      BY <1>5, <2>1 DEF Entry
  <1> HIDE DEF n, batch, e
  <1>7. log \in Seq(Entry) /\ N \in Nat /\ Sound(log)
    BY LenProperties DEF SoundLog, Sound
  <1>9. Sound(mid)
    BY <1>5, <1>6, <1>7, SpokeOnce
  <1>10. mid \in Seq(Entry) /\ Len(mid) = N + 1 /\ mid[N + 1] = e
    <2>1. mid = Append(log, e)
      BY <1>5, <1>7, AppendIsConcat
    <2> QED
      BY <1>5, <1>7, <2>1, AppendProperties
  <1>11. /\ more \in Seq(Entry)
         /\ \A j \in 1 .. Len(more) : Source(more[j]) /\ more[j].by = "tool" /\ Holder(e, more[j].call)
    <2>1. CASE stops
      <3> DEFINE K == Len(batch)
      <3>1. K \in Nat /\ DOMAIN batch = 1 .. K
        BY <1>6, LenProperties
      <3>2. \A j \in 1 .. K : batch[j] \in Call
        BY <1>6, ElementOfSeq
      <3>3. "STOPPED" \in Texts
        BY DEF Texts
      <3>4. \A j \in 1 .. K : /\ Result(batch[j].id, "STOPPED") \in Entry
                              /\ Source(Result(batch[j].id, "STOPPED"))
                              /\ Result(batch[j].id, "STOPPED").by = "tool"
                              /\ Result(batch[j].id, "STOPPED").call = batch[j].id
        BY <3>2, <3>3, EntryTypes DEF Call, Result
      <3>5. more = [j \in 1 .. K |-> Result(batch[j].id, "STOPPED")]
        BY <2>1, <3>1 DEF Closed
      <3>6. \A j \in 1 .. K : Holder(e, batch[j].id)
        BY <1>6 DEF Holder
      <3> HIDE DEF K, more
      <3>7. more \in Seq(Entry) /\ Len(more) = K
        BY <3>1, <3>4, <3>5, IsASeq, LenProperties
      <3> QED
        BY <3>4, <3>5, <3>6, <3>7
    <2>2. CASE ~stops
      BY <2>2, EmptySeq
    <2> QED
      BY <2>1, <2>2
  <1> HIDE DEF more, mid, N
  <1>12. Sound(mid \o more)
    <2>1. N + 1 \in 1 .. Len(mid)
      BY <1>7, <1>10
    <2>2. ~ \E k \in (N + 1) + 1 .. Len(mid) : TRUE
      BY <1>7, <1>10
    <2> QED
      BY <1>9, <1>10, <1>11, <2>1, <2>2, Returned
  <1>13. mid \o more # <<>>
    <2>1. Len(mid \o more) = Len(mid) + Len(more) /\ Len(mid) \in Nat /\ Len(more) \in Nat
      BY <1>10, <1>11, ConcatProperties, LenProperties
    <2>2. Len(mid \o more) # 0
      BY <1>7, <1>10, <2>1
    <2> QED
      BY <2>2, EmptySeq
  <1> QED
    BY <1>1, <1>3, <1>4, <1>7, <1>12, <1>13 DEF SoundLog, Sound

LEMMA SoundTools ==
    ASSUME SoundLog, Tools
    PROVE  SoundLog'
  <1> DEFINE u == Len(log)
             batch == Last(log).calls
             done == [i \in DOMAIN batch |-> Result(batch[i].id, "DONE")]
             K == Len(batch)
  <1>1. Sound(log) /\ log \in Seq(Entry) /\ log # <<>> /\ stage = "tools"
    BY DEF SoundLog, Sound, Tools
  <1>2. u \in Nat /\ u \in 1 .. u /\ log[u] \in Entry /\ batch = log[u].calls
    <2>1. u \in Nat /\ u # 0
      BY <1>1, EmptySeq, LenProperties
    <2> QED
      BY <1>1, <2>1, ElementOfSeq DEF Last
  <1>3. batch \in Seq(Call) /\ K \in Nat /\ DOMAIN batch = 1 .. K
    <2>1. batch \in Seq(Call)
      BY <1>2 DEF Entry
    <2> QED
      BY <2>1, LenProperties
  <1>4. \A i \in 1 .. K, t \in Texts :
           /\ Result(batch[i].id, t) \in Entry /\ Source(Result(batch[i].id, t))
           /\ Result(batch[i].id, t).by = "tool" /\ Result(batch[i].id, t).text = t
           /\ Holder(log[u], Result(batch[i].id, t).call)
    <2> TAKE i \in 1 .. K, t \in Texts
    <2>1. batch[i] \in Call
      BY <1>3, ElementOfSeq
    <2>2. Holder(log[u], batch[i].id)
      BY <1>2 DEF Holder
    <2> QED
      BY <2>1, <2>2, EntryTypes DEF Call, Result
  <1>5. /\ done \in Seq(Entry) /\ Len(done) = K
        /\ \A i \in 1 .. K : done[i] = Result(batch[i].id, "DONE")
    <2>1. done = [i \in 1 .. K |-> Result(batch[i].id, "DONE")]
      BY <1>3
    <2>2. "DONE" \in Texts
      BY DEF Texts
    <2> HIDE DEF done, K, batch
    <2> QED
      BY <1>3, <1>4, <2>1, <2>2, IsASeq, LenProperties
  <1>6. "DONE" \in Texts /\ Words \subseteq Texts
    BY DEF Texts
  <1>7. \/ log' = log \o done
        \/ \E i \in 1 .. K, w \in Words :
              log' = log \o SubSeq(done, 1, i - 1) \o <<Result(batch[i].id, w), Human(w)>>
                         \o SubSeq(done, i + 1, Len(done))
    BY <1>3 DEF Tools
  <1> HIDE DEF batch, done, u, K
  <1>8. ASSUME NEW ms, Sound(ms), u \in 1 .. Len(ms), ms[u] = log[u],
               NEW a \in 1 .. K + 1, NEW b \in 0 .. K, a <= b + 1
        PROVE  Sound(ms \o SubSeq(done, a, b))
    <2> DEFINE part == SubSeq(done, a, b)
    <2>1. part \in Seq(Entry) /\ \A j \in 1 .. Len(part) : \E i \in 1 .. K : part[j] = done[i]
      <3>1. CASE a = b + 1
        <4>1. a > b
          BY <1>3, <3>1
        <4>2. part = <<>>
          BY <1>3, <1>5, <3>1
        <4> QED
          BY <4>2, EmptySeq
      <3>2. CASE a <= b
        <4>1. a \in 1 .. Len(done) /\ b \in a .. Len(done)
          BY <1>3, <1>5, <3>2
        <4>2. /\ part \in Seq(Entry) /\ Len(part) = b - a + 1
              /\ \A j \in 1 .. b - a + 1 : part[j] = done[a + j - 1]
          BY <1>5, <4>1, SubSeqProperties
        <4>3. \A j \in 1 .. b - a + 1 : a + j - 1 \in 1 .. K
          BY <1>3, <3>2
        <4> QED
          BY <4>2, <4>3
      <3> QED
        BY <1>3, <1>8, <3>1, <3>2
    <2> HIDE DEF part
    <2>2. ASSUME NEW j \in 1 .. Len(part)
          PROVE  /\ Source(part[j]) /\ part[j].by = "tool" /\ Holder(ms[u], part[j].call)
                 /\ part[j].text = "DONE"
      BY <1>4, <1>5, <1>6, <1>8, <2>1
    <2>3. Sound(ms \o part)
      BY <1>8, <2>1, <2>2, Returned
    <2> QED
      BY <2>3 DEF part
  <1>9. \A more \in Seq(Entry) : log \o more \in Seq(Entry)
                                 /\ u \in 1 .. Len(log \o more) /\ (log \o more)[u] = log[u]
    <2> TAKE more \in Seq(Entry)
    <2>1. /\ log \o more \in Seq(Entry)
          /\ Len(log \o more) = u + Len(more) /\ Len(more) \in Nat
      BY <1>1, ConcatProperties, LenProperties DEF u
    <2>2. u \in 1 .. u + Len(more)
      BY <1>2, <2>1
    <2>3. (log \o more)[u] = log[u]
      BY <1>1, <1>2, <2>1, <2>2, ConcatProperties DEF u
    <2> QED
      BY <2>1, <2>2, <2>3
  <1>10. Sound(log')
    <2>1. CASE log' = log \o done
      <3>1. done = SubSeq(done, 1, K)
        BY <1>3, <1>5, SubSeqFull
      <3>2. 1 \in 1 .. K + 1 /\ K \in 0 .. K /\ 1 <= K + 1
        BY <1>3
      <3>3. Sound(log \o SubSeq(done, 1, K))
        <4>1. u \in 1 .. Len(log)
          BY <1>2 DEF u
        <4> QED
          BY <1>1, <1>8, <3>2, <4>1
      <3> QED
        BY <2>1, <3>1, <3>3
    <2>2. ASSUME NEW i \in 1 .. K, NEW w \in Words,
                 log' = log \o SubSeq(done, 1, i - 1) \o <<Result(batch[i].id, w), Human(w)>>
                            \o SubSeq(done, i + 1, Len(done))
          PROVE  Sound(log')
      <3> DEFINE first == SubSeq(done, 1, i - 1)
                 r == Result(batch[i].id, w)
                 m == Human(w)
                 talk == <<r, m>>
                 ms == log \o first
      <3>0. i \in Nat /\ i + 1 \in 1 .. K + 1 /\ 1 \in 1 .. K + 1 /\ i - 1 \in 0 .. K /\ K \in 0 .. K
        BY <1>3
      <3>1. Sound(ms)
        <4>1. u \in 1 .. Len(log)
          BY <1>2 DEF u
        <4>2. 1 <= (i - 1) + 1
          BY <3>0
        <4> QED
          BY <1>1, <1>8, <3>0, <4>1, <4>2
      <3>2. first \in Seq(Entry) /\ \A j \in 1 .. Len(first) : first[j].by = "tool"
        <4>1. \A j \in 1 .. i - 1 : j \in 1 .. K
          BY <1>3, <3>0
        <4>2. \A j \in 1 .. K : done[j].by = "tool" /\ done[j] \in Entry
          BY <1>4, <1>5, <1>6
        <4>3. 1 \in Int /\ i - 1 \in Int /\ \A j \in 1 .. i - 1 : done[j] \in Entry
          BY <3>0, <4>1, <4>2
        <4>4. /\ first \in Seq(Entry)
              /\ Len(first) = IF 1 <= i - 1 THEN (i - 1) - 1 + 1 ELSE 0
              /\ \A j \in 1 .. (i - 1) - 1 + 1 : first[j] = done[1 + j - 1]
          BY <4>3, SubSeqProperties
        <4> HIDE DEF first
        <4>5. Len(first) = i - 1 /\ \A j \in 1 .. i - 1 : first[j] = done[j]
          BY <3>0, <4>4
        <4> QED
          BY <4>1, <4>2, <4>4, <4>5
      <3> HIDE DEF first
      <3>3. ms \in Seq(Entry) /\ u \in 1 .. Len(ms) /\ ms[u] = log[u]
        BY <1>9, <3>2
      <3>4. \A k \in u + 1 .. Len(ms) : ms[k].by = "tool"
        <4> TAKE k \in u + 1 .. Len(ms)
        <4>1. Len(ms) = u + Len(first) /\ Len(first) \in Nat
          BY <1>1, <3>2, ConcatProperties, LenProperties DEF u
        <4>2. k \in 1 .. u + Len(first) /\ ~ (k <= u) /\ k - u \in 1 .. Len(first)
          BY <1>2, <4>1
        <4>3. ms[k] = first[k - u]
          BY <1>1, <3>2, <4>2, ConcatProperties DEF u
        <4> QED
          BY <3>2, <4>2, <4>3
      <3>5. /\ r \in Entry /\ Source(r) /\ r.by = "tool" /\ Holder(ms[u], r.call)
            /\ m \in Entry /\ Source(m) /\ m.by # "tool"
        <4>1. m \in Entry /\ Source(m) /\ m.by # "tool"
          BY EntryTypes DEF Human
        <4> QED
          BY <1>4, <1>6, <3>3, <4>1
      <3> HIDE DEF r, m, ms
      <3>6. talk \in Seq(Entry) /\ Len(talk) = 2 /\ talk[1] = r /\ talk[2] = m
        BY <3>5
      <3> HIDE DEF talk
      <3>7. Sound(ms \o talk)
        <4>1. \A j \in 1 .. Len(talk) : j = 1 \/ j = 2
          BY <3>6
        <4>2. \A k \in 1 .. 1 : talk[k].by = "tool"
          BY <3>5, <3>6
        <4> HIDE DEF talk
        <4>3. ASSUME NEW j \in 1 .. Len(talk)
              PROVE  /\ Source(talk[j])
                     /\ talk[j].by = "tool" =>
                           /\ u \in 1 .. Len(ms) /\ Holder(ms[u], talk[j].call)
                           /\ talk[j].text # "DONE" =>
                                 /\ \A k \in u + 1 .. Len(ms) : ms[k].by = "tool"
                                 /\ \A k \in 1 .. j : talk[k].by = "tool"
          <5>1. CASE j = 1
            BY <3>3, <3>4, <3>5, <3>6, <4>2, <5>1
          <5>2. CASE j = 2
            BY <3>5, <3>6, <5>2
          <5> QED
            BY <4>1, <5>1, <5>2
        <4> QED
          BY <1>2, <3>1, <3>6, <4>3, Continued
      <3>8. u \in 1 .. Len(ms \o talk) /\ (ms \o talk)[u] = log[u]
        <4>1. u \in 1 .. Len(ms) /\ Len(ms) \in Nat /\ Len(talk) \in Nat
          BY <3>3, <3>6, LenProperties
        <4>2. Len(ms \o talk) = Len(ms) + Len(talk)
          BY <3>3, <3>6, ConcatProperties
        <4>3. u \in 1 .. Len(ms) + Len(talk)
          BY <4>1
        <4>4. (ms \o talk)[u] = ms[u]
          BY <3>3, <3>6, <4>1, ConcatProperties
        <4> QED
          BY <3>3, <4>2, <4>3, <4>4
      <3>9. Sound((ms \o talk) \o SubSeq(done, i + 1, K))
        <4>1. i + 1 <= K + 1
          BY <3>0
        <4> QED
          BY <1>8, <3>0, <3>7, <3>8, <4>1
      <3>10. log' = (ms \o talk) \o SubSeq(done, i + 1, K)
        BY <1>5, <2>2 DEF ms, talk, first, r, m
      <3> QED
        BY <3>9, <3>10
    <2> QED
      BY <1>7, <2>1, <2>2
  <1>11. stage' # "tools" /\ answers' = answers
    BY DEF Tools
  <1> QED
    BY <1>10, <1>11 DEF SoundLog

(* The history is sound in every reachable state.                          *)
THEOREM HistorySound == Spec => []SoundLog
  <1>1. Init => SoundLog
    BY EmptySeq DEF Init, SoundLog, Sound
  <1>2. SoundLog /\ [Next]_vars => SoundLog'
    <2> SUFFICES ASSUME SoundLog, [Next]_vars PROVE SoundLog'
      OBVIOUS
    <2>1. CASE Begin
      BY <2>1, SoundBegin
    <2>2. CASE Converse
      BY <2>2, SoundConverse
    <2>3. CASE Analyze
      BY <2>3, SoundAnalyze
    <2>4. CASE Tools
      BY <2>4, SoundTools
    <2>5. CASE Summarize
      BY <2>5 DEF Summarize, SoundLog, Sound
    <2>6. CASE Raise
      BY <2>6 DEF Raise, SoundLog, Sound
    <2>7. CASE UNCHANGED vars
      BY <2>7 DEF vars, SoundLog, Sound
    <2> QED
      BY <2>1, <2>2, <2>3, <2>4, <2>5, <2>6, <2>7 DEF Next
  <1> QED
    BY <1>1, <1>2, PTL DEF Spec


-----------------------------------------------------------------------------
(* Signatures *)

(* A call that is sent is a call of the history, in a message of the model. *)
LEMMA UseIsOurs ==
    ASSUME log \in Seq(Entry), NEW i \in 1 .. Len(Thread), NEW k \in 1 .. Len(Thread[i].blocks),
           Thread[i].blocks[k].type = "use"
    PROVE  \E j \in 1 .. Len(log) : \E x \in 1 .. Len(log[j].calls) :
              Thread[i].blocks[k] = Use(log[j].calls[x])
  <1> DEFINE ms == Merged(History)
             b == Thread[i].blocks[k]
  <1>1. PICK g : /\ Merging(g, History) /\ ms = g[Len(History)] /\ ms \in Seq(Message)
                 /\ Tailed(ms, Thread)
    BY ThreadFacts
  <1>2. History \in Seq(Entry) /\ Len(History) \in 0 .. Len(History)
    BY HistoryFacts, LenProperties
  <1>3. \A n \in 1 .. Len(ms) : AllKnown(ms[n], History, Len(History))
    BY <1>1, <1>2, MergedIsKnown
  <1> HIDE DEF ms
  <1>4. i <= Len(ms) /\ k <= Len(ms[i].blocks)
    BY <1>1 DEF Tailed
  <1>5. i \in 1 .. Len(ms) /\ k \in 1 .. Len(ms[i].blocks)
    <2>1. Len(ms) \in Nat
      BY <1>1, LenProperties
    <2>2. i \in 1 .. Len(ms)
      BY <1>4, <2>1
    <2>3. ms[i] \in Message
      BY <1>1, <2>2, ElementOfSeq
    <2>4. Len(ms[i].blocks) \in Nat
      BY <2>3, LenProperties DEF Message
    <2> QED
      BY <1>4, <2>2, <2>4
  <1>6. b = ms[i].blocks[k]
    BY <1>1, <1>5 DEF Tailed
  <1>7. PICK j \in 1 .. Len(History) : \E x \in 1 .. Len(History[j].calls) : b = Use(History[j].calls[x])
    BY <1>3, <1>5, <1>6 DEF AllKnown, Known
  <1>8. History[j] = log[HistoryStart + j - 1] /\ HistoryStart + j - 1 \in 1 .. Len(log)
    BY HistoryFacts
  <1> QED
    BY <1>7, <1>8

(* What Google gets of a call is the block of the thread, unless it is a    *)
(* call Google never made.                                                  *)
LEMMA GoogleUse ==
    ASSUME NEW ms \in Seq(Message), NEW m \in ToSet(GoogleContents(ms)),
           NEW b \in ToSet(Only(m, "use"))
    PROVE  \E i \in 1 .. Len(ms) : \E k \in 1 .. Len(ms[i].blocks) :
              /\ b = ms[i].blocks[k] /\ b.type = "use" /\ ~Unsigned(b)
  <1> DEFINE G == GoogleContents(ms)
             good == {c \in ToSet(m.blocks) : c.type = "use"}
  <1>1. Len(ms) \in Nat /\ DOMAIN ms = 1 .. Len(ms)
    BY LenProperties
  <1>2. PICK i \in 1 .. Len(ms) : m = G[i]
    BY <1>1 DEF ToSet, GoogleContents
  <1> DEFINE K == Len(ms[i].blocks)
             unmade(k) == \E j \in 1 .. i : \E l \in DOMAIN ms[j].blocks :
                             /\ j < i \/ l < k
                             /\ Unsigned(ms[j].blocks[l])
                             /\ GoogleId(ms[j].blocks[l]) = GoogleId(ms[i].blocks[k])
             textual(k) == \/ Unsigned(ms[i].blocks[k])
                           \/ ms[i].blocks[k].type = "result" /\ unmade(k)
             part(k) == IF textual(k) THEN [ms[i].blocks[k] EXCEPT !.type = "text"]
                        ELSE ms[i].blocks[k]
  <1>3. ms[i].blocks \in Seq(Block) /\ K \in Nat /\ DOMAIN ms[i].blocks = 1 .. K
    <2>1. ms[i] \in Message
      BY ElementOfSeq
    <2> QED
      BY <2>1, LenProperties DEF Message
  <1>4. m.blocks = [k \in 1 .. K |-> part(k)]
    <2>1. G[i] = [role |-> ms[i].role, blocks |-> [k \in DOMAIN ms[i].blocks |-> part(k)]]
      BY <1>1 DEF GoogleContents
    <2> HIDE DEF part, G
    <2> QED
      BY <1>2, <1>3, <2>1
  <1>5. \A k \in 1 .. K : ms[i].blocks[k] \in Block
    BY <1>3, ElementOfSeq
  <1>6. \A k \in 1 .. K : part(k).type = "use" => part(k) = ms[i].blocks[k] /\ ~Unsigned(part(k))
    <2> TAKE k \in 1 .. K
    <2>1. [ms[i].blocks[k] EXCEPT !.type = "text"].type = "text"
      BY <1>5 DEF Block
    <2>2. textual(k) => part(k).type = "text"
      BY <2>1
    <2>3. ~textual(k) => part(k) = ms[i].blocks[k] /\ ~Unsigned(part(k))
      OBVIOUS
    <2> HIDE DEF part, textual
    <2> QED
      BY <2>2, <2>3
  <1> HIDE DEF part, G, K
  <1>7. m.blocks \in Seq({part(k) : k \in 1 .. K})
    BY <1>3, <1>4, IsASeq DEF K
  <1>8. ToSet(Only(m, "use")) \subseteq {part(k) : k \in 1 .. K} \cap good
    <2> DEFINE C == {part(k) : k \in 1 .. K}
               kept == Sift(m.blocks, good)
    <2>1. kept \in Seq(C \cap good)
      <3> HIDE DEF C, good
      <3> QED
        BY <1>7, SiftFacts DEF C
    <2>2. Only(m, "use") = kept
      BY DEF Only
    <2> HIDE DEF C, kept, good
    <2>3. \A x \in DOMAIN kept : kept[x] \in C \cap good
      BY <2>1, ElementOfSeq, LenProperties
    <2> QED
      BY <2>2, <2>3 DEF ToSet, C
  <1>9. PICK k \in 1 .. K : b = part(k)
    BY <1>8
  <1>10. b.type = "use"
    BY <1>8
  <1> QED
    BY <1>6, <1>9, <1>10 DEF K

LEMMA SoundKeepsSignatures ==
    ASSUME SoundLog
    PROVE  SignaturesKept
  <1> SUFFICES ASSUME NEW m \in ToSet(GoogleContents(Thread)), NEW b \in ToSet(Only(m, "use"))
               PROVE  \E e \in ToSet(log) : \E c \in ToSet(e.calls) :
                         /\ c.id = b.call /\ c.origin # 0
                         /\ b.name = e.asked[c.origin].name /\ b.sig = e.asked[c.origin].sig
    BY DEF SignaturesKept
  <1>1. log \in Seq(Entry) /\ Thread \in Seq(Message)
    <2>1. log \in Seq(Entry)
      BY DEF SoundLog, Sound
    <2> QED
      BY <2>1, ThreadFacts DEF Tailed
  <1>2. PICK i \in 1 .. Len(Thread) : \E k \in 1 .. Len(Thread[i].blocks) :
              /\ b = Thread[i].blocks[k] /\ b.type = "use" /\ ~Unsigned(b)
    BY <1>1, GoogleUse
  <1>3. PICK j \in 1 .. Len(log) : \E x \in 1 .. Len(log[j].calls) : b = Use(log[j].calls[x])
    <2>1. PICK k \in 1 .. Len(Thread[i].blocks) : b = Thread[i].blocks[k] /\ b.type = "use"
      BY <1>2
    <2>2. \E j \in 1 .. Len(log) : \E x \in 1 .. Len(log[j].calls) :
              Thread[i].blocks[k] = Use(log[j].calls[x])
      BY <1>1, <2>1, UseIsOurs
    <2> QED
      BY <2>1, <2>2
  <1>4. PICK x \in 1 .. Len(log[j].calls) : b = Use(log[j].calls[x])
    BY <1>3
  <1> DEFINE e == log[j]
             c == e.calls[x]
  <1>5. e \in ToSet(log) /\ c \in ToSet(e.calls)
    <2>1. e \in Entry /\ DOMAIN log = 1 .. Len(log)
      BY <1>1, ElementOfSeq, LenProperties
    <2>2. DOMAIN e.calls = 1 .. Len(e.calls)
      BY <2>1, LenProperties DEF Entry
    <2> QED
      BY <2>1, <2>2 DEF ToSet
  <1>6. Faithful(c, e.asked) /\ e.asked \in Seq(Parts)
    <2>1. Source(e) /\ e \in Entry
      BY <1>1, ElementOfSeq DEF SoundLog, Sound
    <2> QED
      BY <2>1 DEF Source, Entry
  <1> HIDE DEF c, e
  <1>7. b.call = c.id /\ b.name = c.name /\ b.sig = c.sig /\ b.type = "use"
    BY <1>4 DEF Use, c, e
  <1>8. ~ (c.sig = NoSig /\ c.name \in {"respond", "ask_user"})
    BY <1>2, <1>7 DEF Unsigned
  <1>9. Said(c, e.asked)
    BY <1>6, <1>8 DEF Faithful
  <1>10. c.origin # 0
    BY <1>6, <1>9, LenProperties DEF Said
  <1> QED
    BY <1>5, <1>7, <1>9, <1>10 DEF Said

(* llm_clients.py, 1515: a call replayed to Google carries the name and the *)
(* signature it came with, and one Google never made is not replayed.       *)
THEOREM SignaturesAreKept == Spec => []SignaturesKept
  BY HistorySound, SoundKeepsSignatures, PTL


-----------------------------------------------------------------------------
(* What the human answered *)

(* One sequence after the other.                                           *)
Flattening(f, seqs, B) ==
    /\ f[0] = <<>>
    /\ \A i \in 0 .. Len(seqs) : f[i] \in Seq(B)
    /\ \A i \in 1 .. Len(seqs) : f[i] = f[i - 1] \o seqs[i]
    /\ f[Len(seqs)] = FlattenSeq(seqs)

LEMMA FlatteningExists ==
    ASSUME NEW B, NEW seqs \in Seq(Seq(B))
    PROVE  \E f : Flattening(f, seqs, B)
  <1> DEFINE N == Len(seqs)
             V == Seq(B)
             step == [p \in Nat \X V |-> IF p[1] \in 1 .. N THEN p[2] \o seqs[p[1]] ELSE <<>>]
             Equation(f) == f = [i \in 1 .. N |-> IF i = 1 THEN seqs[i] ELSE f[i - 1] \o seqs[i]]
             flat == CHOOSE f : Equation(f)
  <1>1. N \in Nat /\ <<>> \in V
    BY LenProperties, EmptySeq
  <1>2. \A i \in 1 .. N : seqs[i] \in V
    <2> HIDE DEF V
    <2> QED
      BY ElementOfSeq DEF V
  <1>3. step \in [Nat \X V -> V]
    <2>1. ASSUME NEW i \in 1 .. N, NEW out \in V PROVE out \o seqs[i] \in V
      BY <1>2, ConcatProperties
    <2> HIDE DEF V
    <2> QED
      BY <1>1, <2>1
  <1>4. \A out \in V : <<>> \o out = out
    BY ConcatEmptySeq
  <1> HIDE DEF V, N, step
  <1>5. PICK g : Steps(g, V, <<>>, step, N)
    BY <1>1, <1>3, StepsExist
  <1>6. g[0] = <<>> /\ \A i \in 0 .. N : g[i] \in V
    BY <1>5 DEF Steps
  <1>7. ASSUME NEW i \in 1 .. N PROVE g[i] = g[i - 1] \o seqs[i]
    <2>1. i - 1 \in 0 .. N /\ i \in Nat
      BY <1>1
    <2>2. g[i - 1] \in V /\ g[i] = step[<<i, g[i - 1]>>]
      BY <1>5, <1>6, <2>1 DEF Steps
    <2> QED
      BY <2>1, <2>2 DEF step
  <1>8. Equation(flat)
    <2> DEFINE r == [i \in 1 .. N |-> g[i]]
    <2>1. ASSUME NEW i \in 1 .. N PROVE r[i] = IF i = 1 THEN seqs[i] ELSE r[i - 1] \o seqs[i]
      <3>1. CASE i = 1
        <4>0. 1 \in 1 .. N /\ 1 - 1 = 0
          BY <1>1, <3>1
        <4>1. g[1] = g[0] \o seqs[1] /\ 1 \in 1 .. N
          BY <1>7, <4>0
        <4> QED
          BY <1>2, <1>4, <1>6, <3>1, <4>1
      <3>2. CASE i # 1
        <4>1. i - 1 \in 1 .. N
          BY <1>1, <3>2
        <4> QED
          BY <1>7, <3>2, <4>1
      <3> QED
        BY <3>1, <3>2
    <2>2. r = [i \in 1 .. N |-> r[i]]
      OBVIOUS
    <2> HIDE DEF r
    <2>3. Equation(r)
      BY <2>1, <2>2
    <2> QED
      BY <2>3
  <1>9. FlattenSeq(seqs) = IF N = 0 THEN seqs ELSE flat[N]
    BY DEF FlattenSeq, N
  <1> HIDE DEF flat
  <1>10. \A i \in 1 .. N : flat[i] = IF i = 1 THEN seqs[i] ELSE flat[i - 1] \o seqs[i]
    BY <1>8
  <1> DEFINE S == {n \in Nat : n \in 1 .. N => flat[n] = g[n]}
  <1>11. 0 \in S
    OBVIOUS
  <1>12. ASSUME NEW n \in S PROVE n + 1 \in S
    <2> SUFFICES ASSUME n + 1 \in 1 .. N PROVE flat[n + 1] = g[n + 1]
      OBVIOUS
    <2>1. n \in Nat /\ (n + 1) - 1 = n
      OBVIOUS
    <2>2. g[n + 1] = g[n] \o seqs[n + 1]
      BY <1>7, <2>1
    <2>3. CASE n = 0
      <3>1. n + 1 = 1 /\ 1 \in 1 .. N
        BY <2>3
      <3>2. flat[1] = seqs[1]
        BY <1>10, <3>1
      <3>3. g[1] = g[0] \o seqs[1]
        BY <2>2, <2>3, <3>1
      <3>4. <<>> \o seqs[1] = seqs[1]
        BY <1>2, <1>4, <3>1
      <3> QED
        BY <1>6, <3>1, <3>2, <3>3, <3>4
    <2>4. CASE n # 0
      <3>1. n \in 1 .. N /\ n + 1 # 1
        BY <1>1, <2>1, <2>4
      <3>2. flat[n] = g[n]
        BY <3>1
      <3>3. flat[n + 1] = flat[n] \o seqs[n + 1]
        BY <1>10, <2>1, <3>1
      <3> QED
        BY <2>2, <3>2, <3>3
    <2> QED
      BY <2>3, <2>4
  <1> HIDE DEF S
  <1>13. S = Nat
    BY <1>11, <1>12, FromZero DEF S
  <1>14. g[N] = FlattenSeq(seqs)
    <2>1. CASE N = 0
      <3>1. seqs = <<>>
        BY <2>1, EmptySeq DEF N
      <3> QED
        BY <1>6, <1>9, <2>1, <3>1
    <2>2. CASE N # 0
      <3>1. N \in 1 .. N
        BY <1>1, <2>2
      <3> QED
        BY <1>1, <1>9, <1>13, <2>2, <3>1 DEF S
    <2> QED
      BY <2>1, <2>2
  <1> QED
    BY <1>6, <1>7, <1>14 DEF Flattening, N, V

LEMMA FlatHolds ==
    ASSUME NEW B, NEW seqs \in Seq(Seq(B)), NEW i \in 1 .. Len(seqs), NEW k \in 1 .. Len(seqs[i])
    PROVE  \E p \in DOMAIN FlattenSeq(seqs) : FlattenSeq(seqs)[p] = seqs[i][k]
  <1> DEFINE N == Len(seqs)
             x == seqs[i][k]
  <1>1. PICK f : Flattening(f, seqs, B)
    BY FlatteningExists
  <1>2. N \in Nat /\ i \in Nat
    BY LenProperties
  <1> DEFINE In(n) == \E p \in 1 .. Len(f[n]) : f[n][p] = x
             S == {d \in Nat : i + d <= N => In(i + d)}
  <1>3. ASSUME NEW n \in 1 .. N
        PROVE  /\ f[n - 1] \in Seq(B) /\ seqs[n] \in Seq(B) /\ f[n] = f[n - 1] \o seqs[n]
               /\ Len(f[n - 1]) \in Nat /\ Len(seqs[n]) \in Nat
    <2>1. n - 1 \in 0 .. N
      BY <1>2
    <2>2. f[n - 1] \in Seq(B) /\ f[n] = f[n - 1] \o seqs[n]
      BY <1>1, <2>1 DEF Flattening
    <2>3. seqs[n] \in Seq(B)
      BY ElementOfSeq
    <2> QED
      BY <2>2, <2>3, LenProperties
  <1>4. 0 \in S
    <2>1. i \in 1 .. N /\ i + 0 = i
      BY <1>2
    <2> DEFINE a == f[i - 1]
               s == seqs[i]
    <2>2. a \in Seq(B) /\ s \in Seq(B) /\ f[i] = a \o s /\ Len(a) \in Nat /\ Len(s) \in Nat
      BY <1>3, <2>1
    <2>3. k \in 1 .. Len(s) /\ x = s[k]
      OBVIOUS
    <2> HIDE DEF a, s, x
    <2>4. Len(a \o s) = Len(a) + Len(s)
      BY <2>2, ConcatProperties
    <2>5. Len(a) + k \in 1 .. Len(a) + Len(s) /\ ~ (Len(a) + k <= Len(a)) /\ (Len(a) + k) - Len(a) = k
      BY <2>2, <2>3
    <2>6. (a \o s)[Len(a) + k] = s[k]
      BY <2>2, <2>5, ConcatProperties
    <2> QED
      BY <2>1, <2>2, <2>3, <2>4, <2>5, <2>6
  <1>5. ASSUME NEW d \in S PROVE d + 1 \in S
    <2> SUFFICES ASSUME i + (d + 1) <= N PROVE In(i + (d + 1))
      OBVIOUS
    <2>0. d \in Nat
      OBVIOUS
    <2>1. d \in Nat /\ i + d <= N /\ i + d + 1 \in 1 .. N /\ i + (d + 1) = i + d + 1
      <3> HIDE DEF S, In
      <3> QED
        BY <1>2, <2>0
    <2>2. (i + d + 1) - 1 = i + d
      BY <1>2, <2>1
    <2> DEFINE a == f[i + d]
               s == seqs[i + d + 1]
    <2>3. a \in Seq(B) /\ s \in Seq(B) /\ f[i + d + 1] = a \o s /\ Len(a) \in Nat /\ Len(s) \in Nat
      BY <1>3, <2>1, <2>2
    <2>4. PICK p \in 1 .. Len(a) : a[p] = x
      BY <2>1
    <2> HIDE DEF a, s, x, S
    <2>5. Len(a \o s) = Len(a) + Len(s)
      BY <2>3, ConcatProperties
    <2>6. p \in 1 .. Len(a) + Len(s) /\ p <= Len(a)
      BY <2>3
    <2>7. (a \o s)[p] = a[p]
      BY <2>3, <2>6, ConcatProperties
    <2> QED
      BY <2>1, <2>3, <2>4, <2>5, <2>6, <2>7
  <1> HIDE DEF S, In
  <1>6. S = Nat
    BY <1>4, <1>5, FromZero DEF S
  <1>7. N - i \in Nat /\ i + (N - i) = N /\ i \in 1 .. N
    BY <1>2
  <1>8. In(N)
    <2>1. N - i \in S
      BY <1>6, <1>7
    <2> QED
      BY <1>2, <1>7, <2>1 DEF S
  <1>9. f[N] = FlattenSeq(seqs) /\ f[N] \in Seq(B)
    <2>1. N \in 0 .. N
      BY <1>2
    <2> QED
      BY <1>1, <2>1 DEF Flattening
  <1> QED
    BY <1>8, <1>9, LenProperties DEF In


(* A message of the model stays as it is, whatever is merged after it.     *)
LEMMA ModelStays ==
    ASSUME NEW ms \in Seq(Entry), NEW g, Merging(g, ms), NEW n \in 1 .. Len(ms),
           ClientMessage(ms[n], SentBefore(ms, n)).role = "assistant"
    PROVE  \E i \in 1 .. Len(Merged(ms)) : Merged(ms)[i] = ClientMessage(ms[n], SentBefore(ms, n))
  <1> DEFINE N == Len(ms)
             new == ClientMessage(ms[n], SentBefore(ms, n))
             In(m) == \E i \in 1 .. Len(g[m]) : g[m][i] = new
             S == {d \in Nat : n + d <= N => In(n + d)}
  <1>1. N \in Nat /\ n \in Nat
    BY LenProperties
  <1>2. ASSUME NEW m \in 1 .. N
        PROVE  /\ g[m - 1] \in Seq(Message) /\ Len(g[m - 1]) \in Nat
               /\ ClientMessage(ms[m], SentBefore(ms, m)) \in Message
               /\ g[m] = Appended(g[m - 1], ClientMessage(ms[m], SentBefore(ms, m)))
    <2>1. m - 1 \in 0 .. N
      BY <1>1
    <2>2. g[m - 1] \in Seq(Message)
      BY <2>1 DEF Merging
    <2>3. ms[m] \in Entry
      BY ElementOfSeq
    <2> QED
      BY <2>2, <2>3, ClientMessageFacts, LenProperties DEF Merging
  <1>3. 0 \in S
    <2>1. n \in 1 .. N /\ n + 0 = n
      BY <1>1
    <2> DEFINE old == g[n - 1]
    <2>2. old \in Seq(Message) /\ new \in Message /\ g[n] = Appended(old, new) /\ Len(old) \in Nat
      BY <1>2, <2>1
    <2> HIDE DEF old, new
    <2>3. g[n] = Append(old, new)
      <3>1. new.role = "assistant"
        BY DEF new
      <3> QED
        BY <2>2, <3>1, AppendedFacts
    <2>4. Len(g[n]) = Len(old) + 1 /\ g[n][Len(old) + 1] = new
      BY <2>2, <2>3, AppendProperties
    <2>5. Len(old) + 1 \in 1 .. Len(g[n])
      BY <2>2, <2>4
    <2> QED
      BY <2>1, <2>4, <2>5
  <1>4. ASSUME NEW d \in S PROVE d + 1 \in S
    <2> SUFFICES ASSUME n + (d + 1) <= N PROVE In(n + (d + 1))
      OBVIOUS
    <2> DEFINE m == n + d + 1
               old == g[n + d]
               next == ClientMessage(ms[m], SentBefore(ms, m))
    <2>0. d \in Nat
      OBVIOUS
    <2>1. n + d <= N /\ m \in 1 .. N /\ n + (d + 1) = m /\ m - 1 = n + d
      <3> HIDE DEF S, In
      <3> QED
        BY <1>1, <2>0
    <2>2. PICK i \in 1 .. Len(old) : old[i] = new
      BY <2>1
    <2>3. /\ old \in Seq(Message) /\ Len(old) \in Nat
          /\ next \in Message /\ g[m] = Appended(old, next)
      BY <1>2, <2>1
    <2> HIDE DEF old, next, S
    <2>4. \E j \in 1 .. Len(g[m]) : g[m][j] = new
      <3>1. CASE g[m] = Append(old, next)
        <4>1. Len(g[m]) = Len(old) + 1 /\ \A j \in 1 .. Len(old) : g[m][j] = old[j]
          BY <2>3, <3>1, AppendProperties
        <4>2. i \in 1 .. Len(g[m])
          BY <2>3, <4>1
        <4> QED
          BY <2>2, <4>1, <4>2
      <3>2. CASE g[m] = old
        BY <2>2, <3>2
      <3>3. CASE old # <<>> /\ Last(old).role = "user" /\ g[m] = Grown(old, next.blocks)
        <4>1. next.blocks \in Seq(Block)
          BY <2>3 DEF Message
        <4>2. Len(g[m]) = Len(old) /\ \A j \in 1 .. Len(old) - 1 : g[m][j] = old[j]
          BY <2>3, <3>3, <4>1, GrownFacts
        <4>3. i # Len(old)
          <5>1. new.role = "assistant"
            BY DEF new
          <5> QED
            BY <2>2, <3>3, <5>1 DEF Last
        <4>4. i \in 1 .. Len(old) - 1
          BY <2>3, <4>3
        <4> QED
          BY <2>2, <4>2, <4>4
      <3> QED
        BY <2>3, <3>1, <3>2, <3>3, AppendedFacts
    <2> QED
      BY <2>1, <2>4
  <1> HIDE DEF S, In, new
  <1>5. S = Nat
    BY <1>3, <1>4, FromZero DEF S
  <1>6. N - n \in Nat /\ n + (N - n) = N
    BY <1>1
  <1>7. In(N)
    <2>1. N - n \in S
      BY <1>5, <1>6
    <2> QED
      BY <1>1, <1>6, <2>1 DEF S
  <1> QED
    BY <1>7 DEF In, Merging, new

(* What the model said since the history begins is sent.                   *)
Shown(b) == \E p \in DOMAIN ResponseItems(Thread) : ResponseItems(Thread)[p] = b

LEMMA ModelIsShown ==
    ASSUME Sound(log), NEW j \in HistoryStart .. Len(log), log[j].by = "ai"
    PROVE  /\ log[j].calls = <<>> => Shown(Text(log[j].text))
           /\ \A x \in 1 .. Len(log[j].calls) : Shown(Use(log[j].calls[x]))
  <1> DEFINE ms == Merged(History)
             n == j - HistoryStart + 1
             e == log[j]
             new == ClientMessage(History[n], SentBefore(History, n))
  <1>0. log \in Seq(Entry)
    BY DEF Sound
  <1>1. PICK g : /\ Merging(g, History) /\ ms \in Seq(Message) /\ Tailed(ms, Thread)
    BY <1>0, ThreadFacts
  <1>2. History \in Seq(Entry) /\ HistoryStart \in Nat \ {0} /\ Len(log) \in Nat
    BY <1>0, HistoryFacts, StartFacts, LenProperties
  <1>3. n \in 1 .. Len(History)
    <2>1. Len(History) = Len(log) - (HistoryStart - 1)
      <3>1. log # <<>>
        <4>1. Len(log) # 0
          BY <1>2
        <4> QED
          BY <4>1, EmptySeq
      <3> QED
        BY <1>0, <3>1, HistoryFacts
    <2> QED
      BY <1>2, <2>1
  <1>4. History[n] = e /\ e \in Entry /\ e.by = "ai"
    <2>1. History[n] = log[HistoryStart + n - 1] /\ HistoryStart + n - 1 \in 1 .. Len(log)
      BY <1>0, <1>3, HistoryFacts
    <2>2. HistoryStart + n - 1 = j
      BY <1>2
    <2> HIDE DEF n
    <2> QED
      BY <1>0, <2>1, <2>2, ElementOfSeq
  <1> HIDE DEF n, ms, e
  <1>5. /\ e.calls = <<>> => /\ new.role = "assistant"
                             /\ new.blocks = <<Text(e.text)>>
        /\ e.calls # <<>> => /\ new.role = "assistant"
                             /\ new.blocks = [x \in DOMAIN e.calls |-> Use(e.calls[x])]
    <2> DEFINE sent == SentBefore(History, n)
    <2> HIDE DEF sent
    <2>1. e.by # "tool" /\ e.by # "human"
      BY <1>4
    <2>2. /\ e.calls = <<>> => ClientMessage(e, sent) =
                [role |-> IF e.by = "human" THEN "user" ELSE "assistant",
                 plain |-> TRUE, blocks |-> <<Text(e.text)>>]
          /\ e.calls # <<>> => ClientMessage(e, sent) =
                [role |-> "assistant", plain |-> FALSE,
                 blocks |-> [x \in DOMAIN e.calls |-> Use(e.calls[x])]]
      BY <1>4, <2>1, ClientMessageFacts
    <2>3. new = ClientMessage(e, sent)
      BY <1>4 DEF sent
    <2> HIDE DEF new
    <2> QED
      BY <2>1, <2>2, <2>3
  <1>6. new.role = "assistant"
    BY <1>5
  <1>7. PICK i \in 1 .. Len(ms) : ms[i] = new
    BY <1>1, <1>2, <1>3, <1>6, ModelStays DEF ms
  <1> HIDE DEF new
  <1>8. \A k \in 1 .. Len(new.blocks) : Shown(new.blocks[k])
    <2> TAKE k \in 1 .. Len(new.blocks)
    <2>1. Thread \in Seq(Message) /\ Len(ms) <= Len(Thread)
      BY <1>1 DEF Tailed
    <2>2. Len(ms) \in Nat /\ Len(Thread) \in Nat /\ ms[i] \in Message
      BY <1>1, <2>1, LenProperties, ElementOfSeq
    <2>3. i \in 1 .. Len(Thread)
      BY <2>1, <2>2
    <2>4. /\ Len(ms[i].blocks) <= Len(Thread[i].blocks)
          /\ Thread[i].blocks[k] = new.blocks[k]
      BY <1>1, <1>7 DEF Tailed
    <2>5. Len(new.blocks) \in Nat
      BY <1>7, <2>2, LenProperties DEF Message
    <2>6. k \in 1 .. Len(Thread[i].blocks)
      <3>1. Thread[i] \in Message
        BY <2>1, <2>3, ElementOfSeq
      <3>2. Len(Thread[i].blocks) \in Nat
        BY <3>1, LenProperties DEF Message
      <3> QED
        BY <1>7, <2>4, <2>5, <3>2
    <2> DEFINE all == [m \in DOMAIN Thread |-> Thread[m].blocks]
    <2>7. all \in Seq(Seq(Block)) /\ Len(all) = Len(Thread) /\ all[i] = Thread[i].blocks
      <3>1. \A m \in 1 .. Len(Thread) : Thread[m].blocks \in Seq(Block)
        <4> TAKE m \in 1 .. Len(Thread)
        <4>1. Thread[m] \in Message
          BY <2>1, ElementOfSeq
        <4> QED
          BY <4>1 DEF Message
      <3>2. all = [m \in 1 .. Len(Thread) |-> Thread[m].blocks]
        BY <2>1, LenProperties
      <3>3. all \in Seq(Seq(Block))
        <4> HIDE DEF all
        <4> QED
          BY <2>2, <3>1, <3>2, IsASeq
      <3> QED
        BY <2>2, <2>3, <3>2, <3>3, LenProperties
    <2> HIDE DEF all
    <2>8. \E p \in DOMAIN FlattenSeq(all) : FlattenSeq(all)[p] = all[i][k]
      <3>1. i \in 1 .. Len(all) /\ k \in 1 .. Len(all[i]) /\ all \in Seq(Seq(Block))
        BY <2>3, <2>6, <2>7
      <3> HIDE DEF Block
      <3> QED
        BY <3>1, FlatHolds
    <2> QED
      BY <2>4, <2>7, <2>8 DEF Shown, ResponseItems, all
  <1>9. e.calls = <<>> => Shown(Text(e.text))
    <2> SUFFICES ASSUME e.calls = <<>> PROVE Shown(Text(e.text))
      OBVIOUS
    <2> DEFINE b == Text(e.text)
    <2>1. new.blocks = <<b>>
      BY <1>5
    <2> HIDE DEF b
    <2>2. Len(new.blocks) = 1 /\ new.blocks[1] = b
      BY <2>1
    <2>3. Shown(new.blocks[1])
      BY <1>8, <2>2
    <2> QED
      BY <2>2, <2>3 DEF b
  <1>10. \A x \in 1 .. Len(e.calls) : Shown(Use(e.calls[x]))
    <2> TAKE x \in 1 .. Len(e.calls)
    <2>1. e.calls \in Seq(Call) /\ DOMAIN e.calls = 1 .. Len(e.calls) /\ Len(e.calls) \in Nat
      BY <1>4, LenProperties DEF Entry
    <2>2. e.calls # <<>>
      BY <2>1, EmptySeq
    <2> DEFINE uses == [y \in DOMAIN e.calls |-> Use(e.calls[y])]
    <2>3. new.blocks = uses
      BY <1>5, <2>2
    <2>4. uses[x] = Use(e.calls[x]) /\ Len(uses) = Len(e.calls)
      BY <2>1
    <2> HIDE DEF uses
    <2> QED
      BY <1>8, <2>3, <2>4
  <1> QED
    BY <1>9, <1>10 DEF e


(* _bounded_history_start keeps at least two messages of the human, and the *)
(* later one is not the first of the history.                               *)
LEMMA BoundedBefore ==
    ASSUME NEW ms \in Seq(Entry), Humans(ms) # {}, BoundedStart(ms) # 1
    PROVE  BoundedStart(ms) \in Humans(ms) /\ BoundedStart(ms) < Max(Humans(ms))
  <1> DEFINE H == Humans(ms)
             s == BoundedStart(ms)
             h == Max(H)
             kept == {j \in H : j >= s}
  <1>1. s \in H /\ Cardinality(kept) = SummaryEvery
    BY BoundedFacts
  <1>2. H \in SUBSET (1 .. Len(ms)) /\ h \in H /\ \A j \in H : j <= h
    BY HumansFacts
  <1>3. s \in Nat /\ h \in Nat /\ H \subseteq Nat
    BY <1>1, <1>2
  <1> HIDE DEF H, s, h
  <1>4. s # h
    <2> SUFFICES ASSUME s = h PROVE FALSE
      OBVIOUS
    <2>1. \A j \in H : j >= s <=> j = s
      BY <1>2, <1>3
    <2>2. kept = {s}
      BY <1>1, <2>1
    <2>3. Cardinality({s}) = 1
      BY FS_Singleton
    <2> QED
      BY <1>1, <2>2, <2>3, ThreadConstants
  <1>5. s <= h
    BY <1>1, <1>2
  <1> QED
    BY <1>1, <1>3, <1>4, <1>5 DEF H, s, h

(* The history begins before what the human answered last.                 *)
LEMMA StartKeepsQuestion ==
    ASSUME Sound(log), Humans(log) # {}, Max(Humans(log)) > 1
    PROVE  LET h == Max(Humans(log))
           IN  /\ log[h - 1].by = "ai" /\ log[h - 1].calls = <<>> => HistoryStart <= h - 1
               /\ log[h - 1].by = "tool" /\ log[h - 1].text = log[h].text =>
                     \E u \in HistoryStart .. h - 2 : Holder(log[u], log[h - 1].call)
  <1> DEFINE h == Max(Humans(log))
             q == log[h - 1]
  <1>1. log \in Seq(Entry) /\ Len(log) \in Nat
    BY LenProperties DEF Sound
  <1>2. h \in Humans(log) /\ h \in 1 .. Len(log)
    BY <1>1, HumansFacts
  <1>3. h \in Nat /\ h > 1 /\ h - 1 \in 1 .. Len(log) /\ (h - 1) - 1 = h - 2
    BY <1>1, <1>2
  <1>4. log[h].by = "human" /\ log[h].text # "DONE"
    BY <1>2 DEF Humans, IsHuman, Sound, Source
  <1>5. HistoryStart \in Nat \ {0}
    BY <1>1, StartFacts
  <1>6. q.by = "tool" =>
            \E u \in 1 .. h - 2 :
               /\ Holder(log[u], q.call)
               /\ q.text # "DONE" => \A k \in u + 1 .. h - 1 : log[k].by = "tool"
    BY <1>3 DEF Sound, Answered
  <1>7. CASE ~summary
    <2>1. HistoryStart = BoundedStart(log)
      BY <1>7 DEF HistoryStart
    <2>2. \/ HistoryStart = 1
          \/ HistoryStart \in Humans(log) /\ HistoryStart < h
      BY <1>1, <2>1, BoundedBefore
    <2>3. HistoryStart # 1 => log[HistoryStart].by = "human"
      BY <2>2 DEF Humans, IsHuman
    <2>4. q.by # "human" => HistoryStart <= h - 1 /\ (HistoryStart # 1 => HistoryStart # h - 1)
      <3> HIDE DEF h
      <3> QED
        BY <1>3, <1>5, <2>2, <2>3
    <2>5. ASSUME q.by = "tool", q.text = log[h].text
          PROVE  \E u \in HistoryStart .. h - 2 : Holder(log[u], q.call)
      <3>1. PICK u \in 1 .. h - 2 :
               /\ Holder(log[u], q.call)
               /\ \A k \in u + 1 .. h - 1 : log[k].by = "tool"
        BY <1>4, <1>6, <2>5
      <3>2. HistoryStart \notin u + 1 .. h - 1 \/ HistoryStart = 1
        BY <2>3, <3>1
      <3> HIDE DEF h
      <3>3. HistoryStart <= u
        BY <1>3, <1>5, <2>4, <2>5, <3>1, <3>2
      <3> QED
        BY <1>3, <1>5, <3>1, <3>3
    <2> QED
      BY <2>4, <2>5
  <1>8. CASE summary
    <2>1. HistoryStart = IF q.by = "tool" THEN MatchingUse(log, q.call, h - 1)
                         ELSE IF q.by = "ai" /\ q.calls = <<>> THEN h - 1
                         ELSE h
      BY <1>3, <1>8 DEF HistoryStart, CompactedStart
    <2>2. ASSUME q.by = "tool"
          PROVE  \E u \in HistoryStart .. h - 2 : Holder(log[u], q.call)
      <3> DEFINE at == MatchingUse(log, q.call, h - 1)
                 Here(i) == \E k \in DOMAIN log[i].calls : log[i].calls[k].id = q.call
      <3>1. \A i \in 1 .. h - 2 : Here(i) <=> Holder(log[i], q.call)
        <4> TAKE i \in 1 .. h - 2
        <4>1. i \in 1 .. Len(log)
          BY <1>3
        <4>2. log[i] \in Entry
          BY <1>1, <4>1, ElementOfSeq
        <4>3. DOMAIN log[i].calls = 1 .. Len(log[i].calls)
          BY <4>2, LenProperties DEF Entry
        <4> QED
          BY <4>3 DEF Holder
      <3>2. \E i \in 1 .. (h - 1) - 1 : Here(i)
        BY <1>3, <1>6, <2>2, <3>1
      <3>3. at \in 1 .. h - 1 /\ at < h - 1 /\ Here(at)
        <4> HIDE DEF h
        <4> QED
          BY <1>1, <1>3, <3>2, MatchingFacts
      <3> HIDE DEF Here
      <3>4. at \in 1 .. h - 2 /\ at \in at .. h - 2
        <4> HIDE DEF h, at
        <4> QED
          BY <1>3, <3>3
      <3>5. HistoryStart = at
        BY <2>1, <2>2
      <3> HIDE DEF at
      <3> QED
        BY <3>1, <3>3, <3>4, <3>5
    <2> QED
      BY <1>3, <2>1, <2>2
  <1> QED
    BY <1>7, <1>8

LEMMA SoundKeepsQuestion ==
    ASSUME SoundLog
    PROVE  QuestionKept
  <1> DEFINE h == Max(Humans(log))
             q == log[h - 1]
             items == ResponseItems(Thread)
  <1>1. Sound(log) /\ log \in Seq(Entry) /\ Len(log) \in Nat
    BY LenProperties DEF SoundLog, Sound
  <1> SUFFICES ASSUME Humans(log) # {}, h > 1
               PROVE  /\ q.by = "tool" /\ q.text = log[h].text =>
                           \E p \in DOMAIN items : items[p].type = "use" /\ items[p].call = q.call
                      /\ q.by = "ai" /\ q.calls = <<>> =>
                           \E p \in DOMAIN items : items[p].type = "text" /\ items[p].text = q.text
    BY DEF QuestionKept
  <1>2. h \in 1 .. Len(log) /\ h - 1 \in 1 .. Len(log) /\ HistoryStart \in Nat \ {0}
    BY <1>1, HumansFacts, StartFacts
  <1>3. /\ q.by = "ai" /\ q.calls = <<>> => HistoryStart <= h - 1
        /\ q.by = "tool" /\ q.text = log[h].text =>
              \E u \in HistoryStart .. h - 2 : Holder(log[u], q.call)
    BY <1>1, StartKeepsQuestion
  <1> HIDE DEF h
  <1>4. ASSUME q.by = "ai", q.calls = <<>>
        PROVE  \E p \in DOMAIN items : items[p].type = "text" /\ items[p].text = q.text
    <2>1. h - 1 \in HistoryStart .. Len(log)
      BY <1>2, <1>3, <1>4
    <2>2. Shown(Text(q.text))
      BY <1>1, <1>4, <2>1, ModelIsShown
    <2>3. Text(q.text).type = "text" /\ Text(q.text).text = q.text
      BY DEF Text
    <2> QED
      BY <2>2, <2>3 DEF Shown
  <1>5. ASSUME q.by = "tool", q.text = log[h].text
        PROVE  \E p \in DOMAIN items : items[p].type = "use" /\ items[p].call = q.call
    <2>1. PICK u \in HistoryStart .. h - 2 : Holder(log[u], q.call)
      BY <1>3, <1>5
    <2>2. PICK x \in 1 .. Len(log[u].calls) : log[u].calls[x].id = q.call
      BY <2>1 DEF Holder
    <2>3. u \in HistoryStart .. Len(log) /\ u \in 1 .. Len(log)
      BY <1>1, <1>2
    <2>4. log[u] \in Entry /\ Source(log[u])
      BY <1>1, <2>3, ElementOfSeq DEF Sound
    <2>5. log[u].calls # <<>>
      <3>1. log[u].calls \in Seq(Call) /\ Len(log[u].calls) \in Nat
        BY <2>4, LenProperties DEF Entry
      <3>2. Len(log[u].calls) # 0
        BY <2>2, <3>1
      <3> QED
        BY <3>1, <3>2, EmptySeq
    <2>6. log[u].by = "ai"
      BY <2>4, <2>5 DEF Source
    <2>7. Shown(Use(log[u].calls[x]))
      BY <1>1, <2>2, <2>3, <2>6, ModelIsShown
    <2>8. Use(log[u].calls[x]).type = "use" /\ Use(log[u].calls[x]).call = q.call
      BY <2>2 DEF Use
    <2> QED
      BY <2>7, <2>8 DEF Shown
  <1> QED
    BY <1>4, <1>5

(* _bounded_history_start and _summary_compaction_start: what the human    *)
(* said last is never sent without the question it answers.                *)
THEOREM QuestionIsKept == Spec => []QuestionKept
  BY HistorySound, SoundKeepsQuestion, PTL


-----------------------------------------------------------------------------
(* The grammar of the history *)

Turn(e) == e.calls[1].id[1]

(* A result of the calls of entry u, or the answer that is in the result    *)
(* before it.                                                              *)
Inside(ms, u, p) ==
    \/ ms[p].by = "tool" /\ Holder(ms[u], ms[p].call)
    \/ ms[p].by = "human" /\ ms[p - 1].by = "tool" /\ ms[p].text = ms[p - 1].text

(* The calls of entry u, and all their results up to entry e.              *)
Batch(ms, u, e) ==
    /\ u \in 1 .. e /\ e \in 1 .. Len(ms)
    /\ ms[u].calls # <<>>
    /\ \A p \in u + 1 .. e : Inside(ms, u, p)
    /\ \A p, q \in u + 1 .. e : ms[p].by = "human" /\ ms[q].by = "human" => p = q
    /\ \A k \in 1 .. Len(ms[u].calls) : \E p \in u + 1 .. e :
          ms[p].by = "tool" /\ ms[p].call = ms[u].calls[k].id

(* Every call has an id of its own, which tells its batch.                 *)
OneTurn(e, n) ==
    /\ Turn(e) <= n
    /\ \A k \in 1 .. Len(e.calls) : e.calls[k].id[1] = Turn(e)
    /\ \A k, l \in 1 .. Len(e.calls) : e.calls[k].id = e.calls[l].id => k = l

Numbered(ms, n) ==
    \A u \in 1 .. Len(ms) : ms[u].calls # <<>> =>
        /\ OneTurn(ms[u], n)
        /\ \A v \in 1 .. u - 1 : ms[v].calls # <<>> => Turn(ms[v]) < Turn(ms[u])

(* Every result is in a batch, and answers a call of its own.              *)
Owned(ms) ==
    /\ \A p \in 1 .. Len(ms) : ms[p].by = "tool" =>
          \E u \in 1 .. p - 1 : \E e \in p .. Len(ms) : Batch(ms, u, e)
    /\ \A p, q \in 1 .. Len(ms) :
          ms[p].by = "tool" /\ ms[q].by = "tool" /\ ms[p].call = ms[q].call => p = q

Kept(ms, u, lost) ==
    \/ \E e \in u .. Len(ms) : Batch(ms, u, e)
    \/ Turn(ms[u]) \in lost

Grammar ==
    /\ Numbered(log, answers) /\ Owned(log)
    /\ \A u \in 1 .. Len(log) : log[u].calls # <<>> =>
          Kept(log, u, torn) \/ (stage = "tools" /\ u = Len(log))
    /\ stage = "tools" => log # <<>> /\ Last(log).calls # <<>> /\ Turn(Last(log)) = answers

LEMMA Longer ==
    ASSUME NEW S, NEW ms \in Seq(S), NEW more \in Seq(S)
    PROVE  /\ ms \o more \in Seq(S)
           /\ Len(ms) \in Nat /\ Len(more) \in Nat /\ Len(ms \o more) = Len(ms) + Len(more)
           /\ \A i \in 1 .. Len(ms) : (ms \o more)[i] = ms[i]
           /\ \A i \in 1 .. Len(more) : (ms \o more)[Len(ms) + i] = more[i]
           /\ \A i \in 1 .. Len(ms) + Len(more) :
                 i \in 1 .. Len(ms) \/ (i - Len(ms) \in 1 .. Len(more)
                                        /\ Len(ms) + (i - Len(ms)) = i)
  <1> DEFINE N == Len(ms)
             M == Len(more)
  <1>1. N \in Nat /\ M \in Nat /\ ms \o more \in Seq(S) /\ Len(ms \o more) = N + M
    BY LenProperties, ConcatProperties
  <1>2. \A i \in 1 .. N + M : (ms \o more)[i] = IF i <= N THEN ms[i] ELSE more[i - N]
    BY ConcatProperties
  <1> HIDE DEF N, M
  <1>3. \A i \in 1 .. N : (ms \o more)[i] = ms[i]
    BY <1>1, <1>2
  <1>4. \A i \in 1 .. M : (ms \o more)[N + i] = more[i]
    <2> TAKE i \in 1 .. M
    <2>1. N + i \in 1 .. N + M /\ ~ (N + i <= N) /\ (N + i) - N = i
      BY <1>1
    <2> QED
      BY <1>2, <2>1
  <1>5. \A i \in 1 .. N + M : i \in 1 .. N \/ (i - N \in 1 .. M /\ N + (i - N) = i)
    BY <1>1
  <1> QED
    BY <1>1, <1>3, <1>4, <1>5 DEF N, M

(* What is written stays.                                                  *)
LEMMA BatchStays ==
    ASSUME NEW ms \in Seq(Entry), NEW more \in Seq(Entry), NEW u, NEW e, Batch(ms, u, e)
    PROVE  Batch(ms \o more, u, e)
  <1> DEFINE out == ms \o more
  <1>1. /\ Len(ms) \in Nat /\ Len(more) \in Nat /\ Len(out) = Len(ms) + Len(more)
        /\ \A i \in 1 .. Len(ms) : out[i] = ms[i]
    BY Longer
  <1> HIDE DEF out
  <1>2. u \in 1 .. e /\ e \in 1 .. Len(ms)
    BY DEF Batch
  <1>3. \A p \in u + 1 .. e : p \in 1 .. Len(ms) /\ p - 1 \in 1 .. Len(ms)
    BY <1>1, <1>2
  <1>4. u \in 1 .. Len(ms) /\ e \in 1 .. Len(out)
    BY <1>1, <1>2
  <1>5. out[u] = ms[u] /\ \A p \in u + 1 .. e : out[p] = ms[p] /\ out[p - 1] = ms[p - 1]
    BY <1>1, <1>3, <1>4
  <1>6. \A p \in u + 1 .. e : Inside(out, u, p)
    <2> TAKE p \in u + 1 .. e
    <2>1. Inside(ms, u, p)
      BY DEF Batch
    <2>2. out[p] = ms[p] /\ out[p - 1] = ms[p - 1] /\ out[u] = ms[u]
      BY <1>5
    <2> QED
      BY <2>1, <2>2 DEF Inside
  <1>7. \A p, q \in u + 1 .. e : out[p].by = "human" /\ out[q].by = "human" => p = q
    <2>1. \A p, q \in u + 1 .. e : ms[p].by = "human" /\ ms[q].by = "human" => p = q
      BY DEF Batch
    <2> QED
      BY <1>5, <2>1
  <1>8. ASSUME NEW k \in 1 .. Len(out[u].calls)
        PROVE  \E p \in u + 1 .. e : out[p].by = "tool" /\ out[p].call = out[u].calls[k].id
    <2>1. PICK p \in u + 1 .. e : ms[p].by = "tool" /\ ms[p].call = ms[u].calls[k].id
      BY <1>5 DEF Batch
    <2> QED
      BY <1>5, <2>1
  <1>9. out[u].calls # <<>>
    BY <1>5 DEF Batch
  <1>10. Batch(out, u, e)
    BY <1>2, <1>4, <1>6, <1>7, <1>8, <1>9 DEF Batch
  <1> QED
    BY <1>10 DEF out

LEMMA KeptStays ==
    ASSUME NEW ms \in Seq(Entry), NEW more \in Seq(Entry), NEW u \in 1 .. Len(ms),
           NEW lost, Kept(ms, u, lost)
    PROVE  Kept(ms \o more, u, lost)
  <1>1. /\ Len(ms) \in Nat /\ Len(more) \in Nat /\ Len(ms \o more) = Len(ms) + Len(more)
        /\ (ms \o more)[u] = ms[u]
    BY Longer
  <1>2. \A e \in u .. Len(ms) : e \in u .. Len(ms \o more)
    BY <1>1
  <1> QED
    BY <1>1, <1>2, BatchStays DEF Kept

LEMMA TurnType ==
    ASSUME NEW ms \in Seq(Entry), NEW u \in 1 .. Len(ms), ms[u].calls # <<>>
    PROVE  Turn(ms[u]) \in Nat
  <1>1. ms[u].calls \in Seq(Call)
    <2>1. ms[u] \in Entry
      BY ElementOfSeq
    <2> QED
      BY <2>1 DEF Entry
  <1>2. 1 \in 1 .. Len(ms[u].calls)
    <2>1. Len(ms[u].calls) \in Nat /\ Len(ms[u].calls) # 0
      BY <1>1, EmptySeq, LenProperties
    <2> HIDE <1>1
    <2> QED
      BY <2>1
  <1>3. ms[u].calls[1] \in Call
    BY <1>1, <1>2, ElementOfSeq
  <1> QED
    BY <1>3 DEF Turn, Call, Id

(* Entries that answer nothing change nothing.                             *)
LEMMA NoResults ==
    ASSUME NEW ms \in Seq(Entry), NEW more \in Seq(Entry), Owned(ms),
           \A j \in 1 .. Len(more) : more[j].by # "tool"
    PROVE  Owned(ms \o more)
  <1> DEFINE out == ms \o more
             N == Len(ms)
             M == Len(more)
  <1>1. /\ out \in Seq(Entry) /\ N \in Nat /\ M \in Nat /\ Len(out) = N + M
        /\ \A i \in 1 .. N : out[i] = ms[i]
        /\ \A i \in 1 .. M : out[N + i] = more[i]
        /\ \A i \in 1 .. N + M : i \in 1 .. N \/ (i - N \in 1 .. M /\ N + (i - N) = i)
    BY Longer
  <1>2. \A e, u : Batch(ms, u, e) => Batch(out, u, e)
    BY BatchStays
  <1> HIDE DEF out
  <1>3. \A i \in 1 .. N + M : i \notin 1 .. N => out[i].by # "tool"
    <2> TAKE i \in 1 .. N + M
    <2> HAVE i \notin 1 .. N
    <2>1. i - N \in 1 .. M /\ N + (i - N) = i
      BY <1>1
    <2>2. out[N + (i - N)] = more[i - N]
      BY <1>1, <2>1
    <2> QED
      BY <2>1, <2>2
  <1> HIDE DEF M, N
  <1>5. \A p \in 1 .. Len(out) : out[p].by = "tool" => p \in 1 .. N /\ ms[p].by = "tool" /\ out[p] = ms[p]
    BY <1>1, <1>3
  <1>6. \A p \in 1 .. N : \A e \in p .. N : e \in p .. Len(out)
    BY <1>1
  <1>7. Owned(out)
    <2>1. \A p, q \in 1 .. Len(out) :
             out[p].by = "tool" /\ out[q].by = "tool" /\ out[p].call = out[q].call => p = q
      BY <1>5 DEF Owned, N
    <2>2. ASSUME NEW p \in 1 .. Len(out), out[p].by = "tool"
          PROVE  \E u \in 1 .. p - 1 : \E e \in p .. Len(out) : Batch(out, u, e)
      <3>1. p \in 1 .. N /\ ms[p].by = "tool"
        BY <1>5, <2>2
      <3>2. PICK u \in 1 .. p - 1 : \E e \in p .. N : Batch(ms, u, e)
        BY <3>1 DEF Owned, N
      <3> QED
        BY <1>2, <1>6, <3>1, <3>2
    <2> QED
      BY <2>1, <2>2 DEF Owned
  <1> QED
    BY <1>7 DEF out

(* Entries that neither call nor answer change nothing.                    *)
LEMMA QuietStays ==
    ASSUME NEW ms \in Seq(Entry), NEW more \in Seq(Entry), NEW n \in Nat,
           Numbered(ms, n), Owned(ms),
           \A j \in 1 .. Len(more) : more[j].calls = <<>> /\ more[j].by # "tool"
    PROVE  Numbered(ms \o more, n) /\ Owned(ms \o more)
  <1> DEFINE out == ms \o more
             N == Len(ms)
             M == Len(more)
  <1>1. /\ out \in Seq(Entry) /\ N \in Nat /\ M \in Nat /\ Len(out) = N + M
        /\ \A i \in 1 .. N : out[i] = ms[i]
        /\ \A i \in 1 .. M : out[N + i] = more[i]
        /\ \A i \in 1 .. N + M : i \in 1 .. N \/ (i - N \in 1 .. M /\ N + (i - N) = i)
    BY Longer
  <1>2. \A e, u : Batch(ms, u, e) => Batch(out, u, e)
    BY BatchStays
  <1> HIDE DEF out
  <1>3. \A i \in 1 .. N + M : i \notin 1 .. N => out[i].calls = <<>> /\ out[i].by # "tool"
    <2> TAKE i \in 1 .. N + M
    <2> HAVE i \notin 1 .. N
    <2>1. i - N \in 1 .. M /\ N + (i - N) = i
      BY <1>1
    <2>2. out[N + (i - N)] = more[i - N]
      BY <1>1, <2>1
    <2> QED
      BY <2>1, <2>2
  <1> HIDE DEF M, N
  <1>4. Numbered(out, n)
    <2> SUFFICES ASSUME NEW u \in 1 .. Len(out), out[u].calls # <<>>
                 PROVE  /\ OneTurn(out[u], n)
                        /\ \A v \in 1 .. u - 1 : out[v].calls # <<>> => Turn(out[v]) < Turn(out[u])
      BY DEF Numbered
    <2>1. u \in 1 .. N /\ \A v \in 1 .. u - 1 : v \in 1 .. N
      BY <1>1, <1>3
    <2>2. out[u] = ms[u] /\ \A v \in 1 .. u - 1 : out[v] = ms[v]
      BY <1>1, <2>1
    <2> QED
      BY <2>1, <2>2 DEF Numbered, N
  <1>5. Owned(out)
    BY NoResults DEF out
  <1> QED
    BY <1>4, <1>5 DEF out

(* A new call.                                                             *)
LEMMA CallStays ==
    ASSUME NEW ms \in Seq(Entry), NEW c \in Entry, NEW n \in Nat,
           Numbered(ms, n), Owned(ms), c.by # "tool", OneTurn(c, n + 1), Turn(c) = n + 1
    PROVE  Numbered(ms \o <<c>>, n + 1) /\ Owned(ms \o <<c>>)
  <1> DEFINE out == ms \o <<c>>
             N == Len(ms)
  <1>1. out = Append(ms, c)
    BY AppendIsConcat
  <1>2. /\ N \in Nat /\ Len(out) = N + 1 /\ out[N + 1] = c
        /\ \A i \in 1 .. N : out[i] = ms[i]
    BY <1>1, AppendProperties, LenProperties
  <1>3. Owned(out)
    <2>1. <<c>> \in Seq(Entry) /\ Len(<<c>>) = 1 /\ \A j \in 1 .. 1 : j = 1
      OBVIOUS
    <2>2. \A j \in 1 .. Len(<<c>>) : <<c>>[j].by # "tool"
      BY <2>1
    <2> QED
      BY <2>1, <2>2, NoResults
  <1> HIDE DEF out, N
  <1>4. \A u \in 1 .. N : ms[u].calls # <<>> =>
           /\ OneTurn(ms[u], n) /\ Turn(ms[u]) \in Int
           /\ \A v \in 1 .. u - 1 : ms[v].calls # <<>> => Turn(ms[v]) < Turn(ms[u])
    BY TurnType DEF Numbered, N
  <1>5. \A u \in 1 .. N : ms[u].calls # <<>> => OneTurn(ms[u], n + 1) /\ Turn(ms[u]) < n + 1
    <2> TAKE u \in 1 .. N
    <2> HAVE ms[u].calls # <<>>
    <2>1. Turn(ms[u]) <= n /\ Turn(ms[u]) \in Int
      BY <1>4 DEF OneTurn
    <2> HIDE DEF Turn
    <2>2. Turn(ms[u]) <= n + 1 /\ Turn(ms[u]) < n + 1
      BY <2>1
    <2> QED
      BY <1>4, <2>2 DEF OneTurn
  <1>6. ASSUME NEW u \in 1 .. Len(out), out[u].calls # <<>>
        PROVE  /\ OneTurn(out[u], n + 1)
               /\ \A v \in 1 .. u - 1 : out[v].calls # <<>> => Turn(out[v]) < Turn(out[u])
    <2>1. CASE u \in 1 .. N
      <3>1. \A v \in 1 .. u - 1 : v \in 1 .. N
        BY <1>2, <2>1
      <3>2. out[u] = ms[u] /\ \A v \in 1 .. u - 1 : out[v] = ms[v]
        BY <1>2, <2>1, <3>1
      <3> QED
        BY <1>4, <1>5, <1>6, <2>1, <3>2
    <2>2. CASE u = N + 1
      <3>1. \A v \in 1 .. u - 1 : v \in 1 .. N
        BY <1>2, <2>2
      <3>2. out[u] = c /\ \A v \in 1 .. u - 1 : out[v] = ms[v]
        BY <1>2, <2>2, <3>1
      <3> QED
        BY <1>5, <3>1, <3>2
    <2> QED
      BY <1>2, <2>1, <2>2
  <1>7. Numbered(out, n + 1)
    BY <1>6 DEF Numbered
  <1> QED
    BY <1>3, <1>7 DEF out

(* The results of the last call, and the answer that is in one of them.    *)
Closes(e, more) ==
    /\ \A j \in 1 .. Len(more) :
          /\ more[j].calls = <<>>
          /\ \/ more[j].by = "tool" /\ Holder(e, more[j].call)
             \/ /\ more[j].by = "human" /\ j - 1 \in 1 .. Len(more)
                /\ more[j - 1].by = "tool" /\ more[j].text = more[j - 1].text
    /\ \A j, l \in 1 .. Len(more) : more[j].by = "human" /\ more[l].by = "human" => j = l
    /\ \A j, l \in 1 .. Len(more) :
          more[j].by = "tool" /\ more[l].by = "tool" /\ more[j].call = more[l].call => j = l
    /\ \A k \in 1 .. Len(e.calls) : \E j \in 1 .. Len(more) :
          more[j].by = "tool" /\ more[j].call = e.calls[k].id

(* No result in a history answers the call that ends it.                   *)
LEMMA NotAnsweredYet ==
    ASSUME NEW ms \in Seq(Entry), NEW n \in Nat, Numbered(ms, n), Owned(ms),
           NEW u \in 1 .. Len(ms), ms[u].calls # <<>>, u = Len(ms), ms[u].by # "tool",
           NEW p \in 1 .. Len(ms), ms[p].by = "tool"
    PROVE  ~ Holder(ms[u], ms[p].call)
  <1>1. u \in Nat /\ p \in 1 .. u - 1
    <2>1. p # u /\ u \in Nat
      BY LenProperties
    <2> QED
      BY <2>1
  <1>2. PICK v \in 1 .. p - 1 : \E e \in p .. Len(ms) : Batch(ms, v, e)
    BY DEF Owned
  <1>3. PICK e \in p .. Len(ms) : Batch(ms, v, e)
    BY <1>2
  <1>4. v \in 1 .. u - 1 /\ v \in 1 .. Len(ms) /\ p \in v + 1 .. e
    BY <1>1
  <1>5. Inside(ms, v, p) /\ ms[v].calls # <<>>
    BY <1>3, <1>4 DEF Batch
  <1>6. Holder(ms[v], ms[p].call)
    BY <1>5 DEF Inside
  <1>7. Turn(ms[v]) < Turn(ms[u]) /\ OneTurn(ms[v], n) /\ OneTurn(ms[u], n)
    BY <1>4, <1>5 DEF Numbered
  <1>8. Turn(ms[v]) \in Nat /\ Turn(ms[u]) \in Nat
    BY <1>4, <1>5, TurnType
  <1>9. ms[p].call[1] = Turn(ms[v])
    BY <1>6, <1>7 DEF Holder, OneTurn
  <1> SUFFICES ASSUME Holder(ms[u], ms[p].call) PROVE FALSE
    OBVIOUS
  <1>10. ms[p].call[1] = Turn(ms[u])
    BY <1>7 DEF Holder, OneTurn
  <1> HIDE DEF Turn
  <1> QED
    BY <1>7, <1>8, <1>9, <1>10

LEMMA Closing ==
    ASSUME NEW ms \in Seq(Entry), NEW more \in Seq(Entry), NEW n \in Nat,
           Numbered(ms, n), Owned(ms),
           NEW u \in 1 .. Len(ms), u = Len(ms), ms[u].calls # <<>>, ms[u].by # "tool",
           Closes(ms[u], more)
    PROVE  /\ Numbered(ms \o more, n) /\ Owned(ms \o more)
           /\ Batch(ms \o more, u, Len(ms \o more))
  <1> DEFINE out == ms \o more
             M == Len(more)
  <1>1. /\ out \in Seq(Entry) /\ u \in Nat /\ M \in Nat /\ Len(out) = u + M
        /\ \A i \in 1 .. u : out[i] = ms[i]
        /\ \A i \in 1 .. M : out[u + i] = more[i]
        /\ \A i \in 1 .. u + M : i \in 1 .. u \/ (i - u \in 1 .. M /\ u + (i - u) = i)
    <2> DEFINE N == Len(ms)
               s == ms
               t == more
    <2> HIDE DEF s, t
    <2>0. s \in Seq(Entry) /\ t \in Seq(Entry)
      BY DEF s, t
    <2>a. /\ s \o t \in Seq(Entry)
          /\ Len(s) \in Nat /\ Len(t) \in Nat /\ Len(s \o t) = Len(s) + Len(t)
          /\ \A i \in 1 .. Len(s) : (s \o t)[i] = s[i]
          /\ \A i \in 1 .. Len(t) : (s \o t)[Len(s) + i] = t[i]
          /\ \A i \in 1 .. Len(s) + Len(t) :
                i \in 1 .. Len(s) \/ (i - Len(s) \in 1 .. Len(t) /\ Len(s) + (i - Len(s)) = i)
      BY <2>0, Longer
    <2>1. /\ out \in Seq(Entry) /\ N \in Nat /\ M \in Nat /\ Len(out) = N + M
          /\ \A i \in 1 .. N : out[i] = ms[i]
          /\ \A i \in 1 .. M : out[N + i] = more[i]
          /\ \A i \in 1 .. N + M : i \in 1 .. N \/ (i - N \in 1 .. M /\ N + (i - N) = i)
      BY <2>a, Zenon DEF s, t
    <2>2. u = N
      OBVIOUS
    <2> HIDE DEF out, M, N
    <2> QED
      BY <2>1, <2>2, Zenon
  <1>2. \A e, v : Batch(ms, v, e) => Batch(out, v, e)
    BY BatchStays
  <1> HIDE DEF out
  <1>3. /\ \A j \in 1 .. M :
              /\ more[j].calls = <<>>
              /\ \/ more[j].by = "tool" /\ Holder(ms[u], more[j].call)
                 \/ /\ more[j].by = "human" /\ j - 1 \in 1 .. M
                    /\ more[j - 1].by = "tool" /\ more[j].text = more[j - 1].text
        /\ \A j, l \in 1 .. M : more[j].by = "human" /\ more[l].by = "human" => j = l
        /\ \A j, l \in 1 .. M :
              more[j].by = "tool" /\ more[l].by = "tool" /\ more[j].call = more[l].call => j = l
        /\ \A k \in 1 .. Len(ms[u].calls) : \E j \in 1 .. M :
              more[j].by = "tool" /\ more[j].call = ms[u].calls[k].id
    BY DEF Closes
  <1> HIDE DEF M
  <1>4. \A p \in u + 1 .. u + M : p - u \in 1 .. M /\ out[p] = more[p - u]
    <2> TAKE p \in u + 1 .. u + M
    <2>1. p - u \in 1 .. M /\ u + (p - u) = p
      BY <1>1
    <2>2. out[u + (p - u)] = more[p - u]
      BY <1>1, <2>1
    <2> QED
      BY <2>1, <2>2
  <1>5. u \in 1 .. u /\ out[u] = ms[u]
    BY <1>1
  <1>6. ASSUME NEW p \in u + 1 .. u + M PROVE Inside(out, u, p)
    <2>1. CASE more[p - u].by = "tool" /\ Holder(ms[u], more[p - u].call)
      BY <1>4, <1>5, <2>1 DEF Inside
    <2>2. CASE /\ more[p - u].by = "human" /\ (p - u) - 1 \in 1 .. M
               /\ more[(p - u) - 1].by = "tool" /\ more[p - u].text = more[(p - u) - 1].text
      <3>1. p - 1 \in u + 1 .. u + M /\ (p - 1) - u = (p - u) - 1
        BY <1>1, <2>2
      <3>2. out[p - 1] = more[(p - u) - 1]
        BY <1>4, <3>1
      <3> QED
        BY <1>4, <2>2, <3>2 DEF Inside
    <2> QED
      BY <1>3, <1>4, <2>1, <2>2
  <1>7. Batch(out, u, u + M)
    <2>1. u \in 1 .. u + M /\ u + M \in 1 .. Len(out)
      BY <1>1
    <2>2. \A p, q \in u + 1 .. u + M : out[p].by = "human" /\ out[q].by = "human" => p = q
      <3> TAKE p, q \in u + 1 .. u + M
      <3> HAVE out[p].by = "human" /\ out[q].by = "human"
      <3>1. p - u = q - u
        BY <1>3, <1>4
      <3> QED
        BY <1>1, <3>1
    <2>3. ASSUME NEW k \in 1 .. Len(ms[u].calls)
          PROVE  \E p \in u + 1 .. u + M : out[p].by = "tool" /\ out[p].call = ms[u].calls[k].id
      <3>1. PICK j \in 1 .. M : more[j].by = "tool" /\ more[j].call = ms[u].calls[k].id
        BY <1>3
      <3>2. u + j \in u + 1 .. u + M /\ out[u + j] = more[j]
        BY <1>1
      <3> QED
        BY <3>1, <3>2
    <2> QED
      BY <1>5, <1>6, <2>1, <2>2, <2>3 DEF Batch
  <1>8. Numbered(out, n)
    <2> SUFFICES ASSUME NEW v \in 1 .. Len(out), out[v].calls # <<>>
                 PROVE  /\ OneTurn(out[v], n)
                        /\ \A w \in 1 .. v - 1 : out[w].calls # <<>> => Turn(out[w]) < Turn(out[v])
      BY DEF Numbered
    <2>1. v \in 1 .. u
      <3>1. v \in 1 .. u \/ v \in u + 1 .. u + M
        BY <1>1
      <3> QED
        BY <1>3, <1>4, <3>1
    <2>2. \A w \in 1 .. v - 1 : w \in 1 .. u
      BY <1>1, <2>1
    <2>3. out[v] = ms[v] /\ \A w \in 1 .. v - 1 : out[w] = ms[w]
      BY <1>1, <2>1, <2>2
    <2> QED
      BY <2>1, <2>3 DEF Numbered
  <1>9. \A p \in 1 .. u : ms[p].by = "tool" => ~ Holder(ms[u], ms[p].call)
    BY NotAnsweredYet
  <1>10. \A p \in 1 .. Len(out) : out[p].by = "tool" =>
            \/ p \in 1 .. u /\ out[p] = ms[p]
            \/ /\ p \in u + 1 .. u + M /\ out[p] = more[p - u] /\ Holder(ms[u], out[p].call)
    <2> TAKE p \in 1 .. Len(out)
    <2> HAVE out[p].by = "tool"
    <2>1. CASE p \in 1 .. u
      BY <1>1, <2>1
    <2>2. CASE p \in u + 1 .. u + M
      BY <1>3, <1>4, <2>2
    <2>3. p \in 1 .. u \/ p \in u + 1 .. u + M
      BY <1>1
    <2> QED
      BY <2>1, <2>2, <2>3
  <1>11. ASSUME NEW p \in 1 .. Len(out), NEW q \in 1 .. Len(out), out[p].by = "tool",
                out[q].by = "tool", out[p].call = out[q].call
         PROVE  p = q
    <2>1. CASE p \in 1 .. u /\ out[p] = ms[p] /\ q \in 1 .. u /\ out[q] = ms[q]
      BY <1>11, <2>1 DEF Owned
    <2>2. CASE /\ p \in u + 1 .. u + M /\ out[p] = more[p - u]
               /\ q \in u + 1 .. u + M /\ out[q] = more[q - u]
      <3>1. p - u = q - u
        BY <1>3, <1>4, <1>11, <2>2
      <3> QED
        BY <1>1, <3>1
    <2>3. \/ p \in 1 .. u /\ out[p] = ms[p]
          \/ p \in u + 1 .. u + M /\ out[p] = more[p - u] /\ Holder(ms[u], out[p].call)
      BY <1>10, <1>11
    <2>4. \/ q \in 1 .. u /\ out[q] = ms[q]
          \/ q \in u + 1 .. u + M /\ out[q] = more[q - u] /\ Holder(ms[u], out[q].call)
      BY <1>10, <1>11
    <2>5. ~ (p \in 1 .. u /\ out[p] = ms[p] /\ Holder(ms[u], out[q].call))
      BY <1>9, <1>11
    <2>6. ~ (q \in 1 .. u /\ out[q] = ms[q] /\ Holder(ms[u], out[p].call))
      BY <1>9, <1>11
    <2> QED
      BY <2>1, <2>2, <2>3, <2>4, <2>5, <2>6, Zenon
  <1>12. ASSUME NEW p \in 1 .. Len(out), out[p].by = "tool"
         PROVE  \E v \in 1 .. p - 1 : \E e \in p .. Len(out) : Batch(out, v, e)
    <2>1. CASE p \in 1 .. u /\ out[p] = ms[p]
      <3>1. PICK v \in 1 .. p - 1 : \E e \in p .. u : Batch(ms, v, e)
        BY <1>12, <2>1 DEF Owned
      <3>2. \A e \in p .. u : e \in p .. Len(out)
        BY <1>1
      <3> QED
        BY <1>2, <3>1, <3>2
    <2>2. CASE p \in u + 1 .. u + M
      <3>1. u \in 1 .. p - 1 /\ u + M \in p .. Len(out)
        BY <1>1, <2>2
      <3> QED
        BY <1>7, <3>1
    <2> QED
      BY <1>10, <1>12, <2>1, <2>2
  <1>13. Owned(out)
    BY <1>11, <1>12 DEF Owned
  <1>14. Batch(out, u, Len(out))
    BY <1>1, <1>7
  <1> QED
    BY <1>8, <1>13, <1>14 DEF out

Joined(s, t) == s \o t

LEMMA JoinedTwice ==
    ASSUME NEW S, NEW x \in Seq(S), NEW y \in Seq(S), NEW z \in Seq(S)
    PROVE  Joined(Joined(x, y), z) = Joined(x, Joined(y, z))
  BY ConcatAssociative DEF Joined

LEMMA Regrouped ==
    ASSUME NEW S, NEW s \in Seq(S), NEW a \in Seq(S), NEW b \in Seq(S), NEW c \in Seq(S)
    PROVE  Joined(Joined(Joined(s, a), b), c) = Joined(s, Joined(Joined(a, b), c))
  <1>1. \A x, y \in Seq(S) : Joined(x, y) \in Seq(S)
    BY ConcatProperties DEF Joined
  <1>2. \A x, y, z \in Seq(S) : Joined(Joined(x, y), z) = Joined(x, Joined(y, z))
    BY JoinedTwice
  <1>3. Joined(Joined(s, a), b) = Joined(s, Joined(a, b))
    BY <1>2
  <1>4. Joined(Joined(s, Joined(a, b)), c) = Joined(s, Joined(Joined(a, b), c))
    BY <1>1, <1>2
  <1> QED
    BY <1>3, <1>4, Zenon

(* The results of a batch, with the words of the human after one of them.  *)
UpTo(done, i) == SubSeq(done, 1, i - 1)
Beyond(done, i) == SubSeq(done, i + 1, Len(done))
WithWords(done, i, r, m) == (UpTo(done, i) \o <<r, m>>) \o Beyond(done, i)

LEMMA Spliced ==
    ASSUME NEW S, NEW done \in Seq(S), NEW i \in 1 .. Len(done), NEW r \in S, NEW m \in S
    PROVE  /\ WithWords(done, i, r, m) \in Seq(S)
           /\ UpTo(done, i) \in Seq(S) /\ Beyond(done, i) \in Seq(S) /\ <<r, m>> \in Seq(S)
           /\ Len(WithWords(done, i, r, m)) = Len(done) + 1
           /\ \A j \in 1 .. Len(done) + 1 :
                 WithWords(done, i, r, m)[j] = IF j < i THEN done[j] ELSE IF j = i THEN r
                                          ELSE IF j = i + 1 THEN m ELSE done[j - 1]
  <1> DEFINE K == Len(done)
             a == SubSeq(done, 1, i - 1)
             b == SubSeq(done, i + 1, K)
             talk == <<r, m>>
             first == a \o talk
             more == first \o b
  <1>1. K \in Nat /\ i \in 1 .. K
    BY LenProperties
  <1>2. \A x \in 1 .. K : done[x] \in S
    BY ElementOfSeq
  <1>3. a \in Seq(S) /\ Len(a) = i - 1 /\ \A x \in 1 .. i - 1 : a[x] = done[x]
    <2>1. 1 \in Int /\ i - 1 \in Int /\ \A x \in 1 .. i - 1 : done[x] \in S
      BY <1>1, <1>2
    <2>2. /\ a \in Seq(S) /\ Len(a) = IF 1 <= i - 1 THEN (i - 1) - 1 + 1 ELSE 0
          /\ \A x \in 1 .. (i - 1) - 1 + 1 : a[x] = done[1 + x - 1]
      BY <2>1, SubSeqProperties
    <2> HIDE DEF a
    <2> QED
      BY <1>1, <2>2
  <1>4. b \in Seq(S) /\ Len(b) = K - i /\ \A x \in 1 .. K - i : b[x] = done[i + x]
    <2>1. i + 1 \in Int /\ K \in Int /\ \A x \in i + 1 .. K : done[x] \in S
      BY <1>1, <1>2
    <2>2. /\ b \in Seq(S) /\ Len(b) = IF i + 1 <= K THEN K - (i + 1) + 1 ELSE 0
          /\ \A x \in 1 .. K - (i + 1) + 1 : b[x] = done[(i + 1) + x - 1]
      BY <2>1, SubSeqProperties
    <2> HIDE DEF b, K
    <2>3. K - (i + 1) + 1 = K - i /\ \A x \in 1 .. K - i : (i + 1) + x - 1 = i + x
      BY <1>1
    <2>4. Len(b) = K - i
      BY <1>1, <2>2
    <2> QED
      BY <2>2, <2>3, <2>4
  <1>5. talk \in Seq(S) /\ Len(talk) = 2 /\ talk[1] = r /\ talk[2] = m
    OBVIOUS
  <1> HIDE DEF a, b, talk, K
  <1>6. first \in Seq(S) /\ Len(first) = i + 1
        /\ \A j \in 1 .. i + 1 : first[j] = IF j < i THEN done[j] ELSE IF j = i THEN r ELSE m
    <2>1. /\ first \in Seq(S) /\ Len(first) = (i - 1) + 2
          /\ \A j \in 1 .. (i - 1) + 2 : first[j] = IF j <= i - 1 THEN a[j] ELSE talk[j - (i - 1)]
      <3>1. /\ first \in Seq(S) /\ Len(first) = Len(a) + Len(talk)
            /\ \A j \in 1 .. Len(a) + Len(talk) :
                  first[j] = IF j <= Len(a) THEN a[j] ELSE talk[j - Len(a)]
        BY <1>3, <1>5, ConcatProperties
      <3> HIDE DEF first
      <3> QED
        BY <1>3, <1>5, <3>1
    <2> HIDE DEF first
    <2>2. ASSUME NEW j \in 1 .. i + 1
          PROVE  first[j] = IF j < i THEN done[j] ELSE IF j = i THEN r ELSE m
      <3>1. j \in 1 .. (i - 1) + 2
        BY <1>1
      <3>2. CASE j < i
        <4>1. j \in 1 .. i - 1 /\ j <= i - 1
          BY <1>1, <3>2
        <4> QED
          BY <1>3, <2>1, <3>1, <3>2, <4>1
      <3>3. CASE j = i
        <4>1. ~ (j <= i - 1) /\ j - (i - 1) = 1 /\ ~ (j < i)
          BY <1>1, <3>3
        <4> QED
          BY <1>5, <2>1, <3>1, <3>3, <4>1
      <3>4. CASE j = i + 1
        <4>1. ~ (j <= i - 1) /\ j - (i - 1) = 2 /\ ~ (j < i) /\ j # i
          BY <1>1, <3>4
        <4> QED
          BY <1>5, <2>1, <3>1, <4>1
      <3> QED
        BY <1>1, <3>2, <3>3, <3>4
    <2>3. (i - 1) + 2 = i + 1
      BY <1>1
    <2> QED
      BY <2>1, <2>2, <2>3
  <1> HIDE DEF first
  <1>7. /\ more \in Seq(S) /\ Len(more) = (i + 1) + (K - i)
        /\ \A j \in 1 .. (i + 1) + (K - i) :
              more[j] = IF j <= i + 1 THEN first[j] ELSE b[j - (i + 1)]
    <2>1. /\ more \in Seq(S) /\ Len(more) = Len(first) + Len(b)
          /\ \A j \in 1 .. Len(first) + Len(b) :
                more[j] = IF j <= Len(first) THEN first[j] ELSE b[j - Len(first)]
      BY <1>4, <1>6, ConcatProperties
    <2> HIDE DEF more
    <2> QED
      BY <1>4, <1>6, <2>1
  <1> HIDE DEF more
  <1>8. (i + 1) + (K - i) = K + 1
    BY <1>1
  <1>9. ASSUME NEW j \in 1 .. K + 1
        PROVE  more[j] = IF j < i THEN done[j] ELSE IF j = i THEN r
                         ELSE IF j = i + 1 THEN m ELSE done[j - 1]
    <2>1. CASE j <= i + 1
      <3>1. j \in 1 .. i + 1 /\ (j < i \/ j = i \/ j = i + 1)
        BY <1>1, <2>1
      <3>2. more[j] = first[j]
        BY <1>7, <1>8, <2>1
      <3> QED
        BY <1>6, <3>1, <3>2
    <2>2. CASE ~ (j <= i + 1)
      <3>1. j - (i + 1) \in 1 .. K - i /\ i + (j - (i + 1)) = j - 1
            /\ ~ (j < i) /\ j # i /\ j # i + 1
        BY <1>1, <2>2
      <3>2. more[j] = b[j - (i + 1)]
        BY <1>7, <1>8, <2>2
      <3>3. b[j - (i + 1)] = done[i + (j - (i + 1))]
        BY <1>4, <3>1
      <3> QED
        BY <3>1, <3>2, <3>3
    <2> QED
      BY <2>1, <2>2
  <1>10. /\ more \in Seq(S) /\ a \in Seq(S) /\ b \in Seq(S) /\ talk \in Seq(S)
         /\ Len(more) = K + 1
         /\ \A j \in 1 .. K + 1 :
               more[j] = IF j < i THEN done[j] ELSE IF j = i THEN r
                         ELSE IF j = i + 1 THEN m ELSE done[j - 1]
    BY <1>3, <1>4, <1>5, <1>7, <1>8, <1>9
  <1>11. /\ more = WithWords(done, i, r, m) /\ K = Len(done) /\ talk = <<r, m>>
         /\ a = UpTo(done, i) /\ b = Beyond(done, i)
    BY DEF more, first, a, b, talk, K, WithWords, UpTo, Beyond
  <1> QED
    BY <1>10, <1>11

LEMMA GrammarQuiet ==
    ASSUME SoundLog, Grammar, stage # "tools", stage' # "tools", answers' = answers, torn' = torn,
           NEW more \in Seq(Entry), log' = log \o more,
           \A j \in 1 .. Len(more) : more[j].calls = <<>> /\ more[j].by # "tool"
    PROVE  Grammar'
  <1> DEFINE N == Len(log)
             M == Len(more)
  <1>1. log \in Seq(Entry) /\ answers \in Nat
    BY DEF SoundLog, Sound
  <1>2. /\ N \in Nat /\ M \in Nat /\ Len(log') = N + M
        /\ \A i \in 1 .. N : log'[i] = log[i]
        /\ \A i \in 1 .. M : log'[N + i] = more[i]
        /\ \A i \in 1 .. N + M : i \in 1 .. N \/ (i - N \in 1 .. M /\ N + (i - N) = i)
    BY <1>1, Longer
  <1>3. Numbered(log', answers') /\ Owned(log')
    BY <1>1, QuietStays DEF Grammar
  <1>4. ASSUME NEW u \in 1 .. Len(log'), log'[u].calls # <<>>
        PROVE  Kept(log', u, torn')
    <2>1. u \in 1 .. N
      BY <1>2, <1>4
    <2>2. log[u].calls # <<>>
      BY <1>2, <1>4, <2>1
    <2>3. Kept(log, u, torn)
      BY <2>1, <2>2 DEF Grammar
    <2> QED
      BY <1>1, <2>1, <2>3, KeptStays
  <1> QED
    BY <1>3, <1>4 DEF Grammar

LEMMA GrammarBegin ==
    ASSUME SoundLog, Grammar, Begin
    PROVE  Grammar'
  <1>1. /\ stage # "tools" /\ stage' # "tools" /\ answers' = answers /\ torn' = torn
        /\ \E w \in Words : log' = Append(log, Human(w))
    BY DEF Begin
  <1>2. PICK w \in Words : log' = Append(log, Human(w))
    BY <1>1
  <1> DEFINE more == <<Human(w)>>
  <1>3. Human(w) \in Entry /\ Human(w).calls = <<>> /\ Human(w).by # "tool"
    BY EntryTypes DEF Human
  <1>4. more \in Seq(Entry) /\ \A j \in 1 .. Len(more) : more[j] = Human(w)
    <2>1. Len(more) = 1 /\ more[1] = Human(w) /\ \A j \in 1 .. 1 : j = 1
      OBVIOUS
    <2> QED
      BY <1>3, <2>1
  <1>5. log' = log \o more
    <2>1. log \in Seq(Entry)
      BY DEF SoundLog, Sound
    <2> QED
      BY <1>2, <1>3, <2>1, AppendIsConcat
  <1> HIDE DEF more
  <1> QED
    BY <1>1, <1>3, <1>4, <1>5, GrammarQuiet

LEMMA GrammarConverse ==
    ASSUME SoundLog, Grammar, Converse
    PROVE  Grammar'
  <1>1. /\ stage # "tools" /\ stage' # "tools" /\ answers' = answers /\ torn' = torn
        /\ \E w \in Words : log' = log \o <<Spoken("GREETING"), Human(w)>>
    BY DEF Converse
  <1>2. PICK w \in Words : log' = log \o <<Spoken("GREETING"), Human(w)>>
    BY <1>1
  <1> DEFINE m == Human(w)
             g == Spoken("GREETING")
             more == <<g, m>>
  <1>3. /\ m \in Entry /\ m.calls = <<>> /\ m.by # "tool"
        /\ g \in Entry /\ g.calls = <<>> /\ g.by # "tool"
    BY EntryTypes DEF Human, Spoken
  <1>4. log' = log \o more
    BY <1>2
  <1> HIDE DEF m, g
  <1>5. more \in Seq(Entry) /\ \A j \in 1 .. Len(more) : more[j] = g \/ more[j] = m
    <2>1. Len(more) = 2 /\ more[1] = g /\ more[2] = m /\ \A j \in 1 .. 2 : j = 1 \/ j = 2
      OBVIOUS
    <2> QED
      BY <1>3, <2>1
  <1> HIDE DEF more
  <1>6. \A j \in 1 .. Len(more) : more[j].calls = <<>> /\ more[j].by # "tool"
    BY <1>3, <1>5
  <1> QED
    BY <1>1, <1>4, <1>5, <1>6, GrammarQuiet

LEMMA GrammarRaise ==
    ASSUME SoundLog, Grammar, Raise
    PROVE  Grammar'
  <1>1. /\ log' = log /\ answers' = answers /\ stage' # "tools"
        /\ torn' = IF stage = "tools" THEN torn \cup {answers} ELSE torn
    BY DEF Raise
  <1>2. ASSUME NEW u \in 1 .. Len(log), log[u].calls # <<>>
        PROVE  Kept(log, u, torn')
    <2>1. CASE Kept(log, u, torn)
      BY <1>1, <2>1 DEF Kept
    <2>2. CASE stage = "tools" /\ u = Len(log)
      BY <1>1, <2>2 DEF Grammar, Last, Kept
    <2> QED
      BY <1>2, <2>1, <2>2 DEF Grammar
  <1> QED
    BY <1>1, <1>2 DEF Grammar

LEMMA GrammarAnalyze ==
    ASSUME SoundLog, Grammar, Analyze
    PROVE  Grammar'
  <1> DEFINE n == answers + 1
             N == Len(log)
  <1>1. /\ n \in Nat /\ answers' = n /\ answers \in Nat /\ stage # "tools" /\ torn' = torn
        /\ log \in Seq(Entry) /\ N \in Nat
    BY LenProperties DEF SoundLog, Sound, Analyze
  <1>2. PICK answer \in Answers, stops \in BOOLEAN :
           LET batch == Dispatched(answer, n)
           IN  /\ log' = IF batch = <<>> THEN log
                         ELSE log \o <<Calling(batch, answer)>>
                                  \o (IF stops THEN Closed(batch) ELSE <<>>)
               /\ stage' = IF batch = <<>> \/ stops THEN "idle" ELSE "tools"
    <2>1. answers' = n
      BY <1>1
    <2> HIDE DEF n
    <2> QED
      BY <2>1, Zenon DEF Analyze
  <1> DEFINE batch == Dispatched(answer, n)
             c == Calling(batch, answer)
             more == IF stops THEN Closed(batch) ELSE <<>>
             mid == log \o <<c>>
             K == Len(batch)
  <1>3. batch = <<>> => log' = log /\ stage' = "idle"
    BY <1>2
  <1>4. batch # <<>> => log' = mid \o more /\ stage' = IF stops THEN "idle" ELSE "tools"
    BY <1>2
  <1>5. c \in Entry
    BY <1>1, EntryTypes
  <1>6. batch \in Seq(Call) /\ c.calls = batch /\ c.by # "tool"
    <2>1. c.calls = batch /\ c.by # "tool"
      BY DEF Calling
    <2> HIDE DEF c
    <2> QED
      BY <1>5, <2>1 DEF Entry
  <1>7. /\ \A i \in 1 .. K : batch[i].id[1] = n
        /\ \A i, j \in 1 .. K : batch[i].id = batch[j].id => i = j
    BY <1>1, DispatchedFacts
  <1>8. K \in Nat /\ DOMAIN batch = 1 .. K /\ (batch # <<>> => 1 \in 1 .. K)
    <2>1. K \in Nat /\ DOMAIN batch = 1 .. K /\ (batch # <<>> => K # 0)
      BY <1>6, EmptySeq, LenProperties
    <2> HIDE DEF K
    <2> QED
      BY <2>1
  <1> HIDE DEF n, batch, c
  <1>9. CASE batch = <<>>
    <2>1. Numbered(log, n)
      <3>1. \A u \in 1 .. N : log[u].calls # <<>> => OneTurn(log[u], n)
        <4> TAKE u \in 1 .. N
        <4> HAVE log[u].calls # <<>>
        <4>1. OneTurn(log[u], answers) /\ Turn(log[u]) \in Nat
          BY <1>1, TurnType DEF Grammar, Numbered
        <4>2. Turn(log[u]) <= answers
          BY <4>1 DEF OneTurn
        <4> HIDE DEF Turn
        <4>3. Turn(log[u]) <= n
          BY <1>1, <4>1, <4>2 DEF n
        <4> QED
          BY <4>1, <4>3 DEF OneTurn
      <3> QED
        BY <3>1 DEF Grammar, Numbered
    <2> QED
      BY <1>1, <1>3, <1>9, <2>1 DEF Grammar
  <1>10. CASE batch # <<>>
    <2>1. OneTurn(c, n) /\ Turn(c) = n
      <3>1. Turn(c) = n
        BY <1>6, <1>7, <1>8, <1>10 DEF Turn
      <3> HIDE DEF Turn
      <3> QED
        BY <1>1, <1>6, <1>7, <3>1 DEF OneTurn
    <2>2. Numbered(mid, n) /\ Owned(mid)
      <3>1. Numbered(log, answers) /\ Owned(log)
        BY DEF Grammar
      <3>2. OneTurn(c, answers + 1) /\ Turn(c) = answers + 1
        BY <2>1 DEF n
      <3> HIDE DEF mid
      <3>3. Numbered(log \o <<c>>, answers + 1) /\ Owned(log \o <<c>>)
        BY <1>1, <1>5, <1>6, <3>1, <3>2, CallStays
      <3> QED
        BY <3>3 DEF mid, n
    <2>3. mid \in Seq(Entry) /\ Len(mid) = N + 1 /\ mid[N + 1] = c
          /\ \A i \in 1 .. N : mid[i] = log[i]
      <3>1. mid = Append(log, c)
        BY <1>1, <1>5, AppendIsConcat
      <3> QED
        BY <1>1, <1>5, <3>1, AppendProperties
    <2>4. \A u \in 1 .. N : log[u].calls # <<>> => Kept(mid, u, torn)
      <3> TAKE u \in 1 .. N
      <3> HAVE log[u].calls # <<>>
      <3>1. Kept(log, u, torn)
        BY <1>1 DEF Grammar
      <3>2. <<c>> \in Seq(Entry)
        BY <1>5
      <3> QED
        BY <1>1, <3>1, <3>2, KeptStays
    <2> HIDE DEF mid
    <2>5. CASE ~stops
      <3>1. log' = mid /\ stage' = "tools"
        <4>1. log' = mid \o <<>> /\ stage' = "tools"
          BY <1>4, <1>10, <2>5
        <4> QED
          BY <2>3, <4>1, ConcatSimplifications
      <3>2. mid # <<>> /\ Last(mid) = c
        <4>1. Len(mid) # 0
          BY <1>1, <2>3
        <4> QED
          BY <2>3, <4>1, EmptySeq DEF Last
      <3>3. ASSUME NEW u \in 1 .. Len(mid), mid[u].calls # <<>>
            PROVE  Kept(mid, u, torn) \/ u = Len(mid)
        <4>1. u \in 1 .. N \/ u = N + 1
          BY <1>1, <2>3
        <4> QED
          BY <2>3, <2>4, <3>3, <4>1
      <3> QED
        BY <1>1, <1>6, <1>10, <2>1, <2>2, <3>1, <3>2, <3>3 DEF Grammar
    <2>6. CASE stops
      <3>1. log' = mid \o Closed(batch) /\ stage' = "idle"
        BY <1>4, <1>10, <2>6
      <3> DEFINE end == Closed(batch)
      <3>2. \A j \in 1 .. K : Result(batch[j].id, "STOPPED") \in Entry
        <4>1. \A j \in 1 .. K : batch[j] \in Call
          BY <1>6, ElementOfSeq
        <4>2. "STOPPED" \in Texts
          BY DEF Texts
        <4> QED
          BY <4>1, <4>2, EntryTypes DEF Call
      <3>3. end = [j \in 1 .. K |-> Result(batch[j].id, "STOPPED")]
        BY <1>8 DEF Closed
      <3> HIDE DEF end, K
      <3>4. end \in Seq(Entry) /\ Len(end) = K
        BY <1>8, <3>2, <3>3, IsASeq, LenProperties
      <3>5. \A j \in 1 .. K : /\ end[j].by = "tool" /\ end[j].call = batch[j].id
                              /\ end[j].calls = <<>>
        BY <3>3 DEF Result
      <3>6. Closes(c, end)
        <4>1. \A j \in 1 .. K : Holder(c, end[j].call)
          BY <1>6, <3>5 DEF Holder, K
        <4>2. K = Len(c.calls)
          BY <1>6 DEF K
        <4> QED
          BY <1>6, <1>7, <3>4, <3>5, <4>1, <4>2 DEF Closes
      <3>7. N + 1 \in 1 .. Len(mid) /\ N + 1 = Len(mid)
        BY <1>1, <2>3
      <3> HIDE DEF N
      <3>8. /\ Numbered(mid \o end, n) /\ Owned(mid \o end)
            /\ Batch(mid \o end, N + 1, Len(mid \o end))
        BY <1>1, <1>6, <1>10, <2>2, <2>3, <3>4, <3>6, <3>7, Closing
      <3>9. ASSUME NEW u \in 1 .. Len(mid \o end), (mid \o end)[u].calls # <<>>
            PROVE  Kept(mid \o end, u, torn)
        <4>1. /\ Len(mid \o end) = Len(mid) + K
              /\ \A i \in 1 .. Len(mid) : (mid \o end)[i] = mid[i]
              /\ \A i \in 1 .. K : (mid \o end)[Len(mid) + i] = end[i]
              /\ \A i \in 1 .. Len(mid) + K :
                    \/ i \in 1 .. Len(mid)
                    \/ i - Len(mid) \in 1 .. K /\ Len(mid) + (i - Len(mid)) = i
          <5> DEFINE out == mid \o end
                     L == Len(mid)
          <5>1. /\ Len(out) = L + Len(end)
                /\ \A i \in 1 .. L : out[i] = mid[i]
                /\ \A i \in 1 .. Len(end) : out[L + i] = end[i]
                /\ \A i \in 1 .. L + Len(end) :
                      i \in 1 .. L \/ (i - L \in 1 .. Len(end) /\ L + (i - L) = i)
            <6>1. mid \in Seq(Entry) /\ end \in Seq(Entry)
              BY <2>3, <3>4
            <6> QED
              BY <6>1, Longer
          <5>2. Len(end) = K
            BY <3>4
          <5> HIDE DEF out, L
          <5>3. /\ Len(out) = L + K
                /\ \A i \in 1 .. L : out[i] = mid[i]
                /\ \A i \in 1 .. K : out[L + i] = end[i]
                /\ \A i \in 1 .. L + K :
                      i \in 1 .. L \/ (i - L \in 1 .. K /\ L + (i - L) = i)
            BY <5>1, <5>2, Zenon
          <5> QED
            BY <5>3 DEF out, L
        <4>2. u \in 1 .. Len(mid)
          BY <3>5, <3>9, <4>1
        <4>3. u \in 1 .. N \/ u = N + 1
          BY <1>1, <2>3, <4>2
        <4>4. CASE u \in 1 .. N
          <5>1. log[u].calls # <<>>
            BY <2>3, <3>9, <4>1, <4>2, <4>4
          <5>2. Kept(mid, u, torn)
            BY <2>4, <4>4, <5>1
          <5> QED
            BY <2>3, <3>4, <4>2, <5>2, KeptStays
        <4>5. CASE u = N + 1
          <5>1. Len(mid \o end) \in u .. Len(mid \o end)
            BY <1>1, <1>8, <2>3, <4>1, <4>2
          <5> QED
            BY <3>8, <4>5, <5>1 DEF Kept
        <4> QED
          BY <4>3, <4>4, <4>5
      <3>10. log' = mid \o end
        BY <3>1 DEF end
      <3> QED
        BY <1>1, <3>1, <3>8, <3>9, <3>10 DEF Grammar
    <2> QED
      BY <2>5, <2>6
  <1> QED
    BY <1>9, <1>10

LEMMA GrammarTools ==
    ASSUME SoundLog, Grammar, Tools
    PROVE  Grammar'
  <1> DEFINE u == Len(log)
             batch == Last(log).calls
             done == [i \in DOMAIN batch |-> Result(batch[i].id, "DONE")]
             K == Len(batch)
  <1>1. /\ log \in Seq(Entry) /\ log # <<>> /\ stage = "tools" /\ stage' # "tools"
        /\ answers' = answers /\ torn' = torn /\ answers \in Nat
    BY DEF SoundLog, Sound, Tools
  <1>2. /\ u \in Nat /\ u \in 1 .. u /\ log[u] \in Entry /\ batch = log[u].calls /\ batch # <<>>
        /\ log[u].by # "tool"
    <2>1. u \in Nat /\ u # 0
      BY <1>1, EmptySeq, LenProperties
    <2>2. u \in 1 .. u
      BY <2>1
    <2>3. Source(log[u])
      BY <2>2 DEF SoundLog, Sound
    <2>4. batch = log[u].calls /\ batch # <<>>
      BY <1>1 DEF Last, Grammar
    <2> QED
      BY <1>1, <2>1, <2>2, <2>3, <2>4, ElementOfSeq DEF Source
  <1>3. batch \in Seq(Call) /\ K \in Nat /\ DOMAIN batch = 1 .. K
    <2>1. batch \in Seq(Call)
      BY <1>2 DEF Entry
    <2> QED
      BY <2>1, LenProperties
  <1>4. \A i \in 1 .. K, t \in Texts : Result(batch[i].id, t) \in Entry
    <2> TAKE i \in 1 .. K, t \in Texts
    <2>1. batch[i] \in Call
      BY <1>3, ElementOfSeq
    <2> QED
      BY <2>1, EntryTypes DEF Call
  <1>5. "DONE" \in Texts /\ Words \subseteq Texts
    BY DEF Texts
  <1>6. /\ done \in Seq(Entry) /\ Len(done) = K
        /\ \A i \in 1 .. K : done[i] = Result(batch[i].id, "DONE")
    <2>1. done = [i \in 1 .. K |-> Result(batch[i].id, "DONE")]
      BY <1>3
    <2> HIDE DEF done, K, batch
    <2> QED
      BY <1>3, <1>4, <1>5, <2>1, IsASeq, LenProperties
  <1>7. \/ log' = log \o done
        \/ \E i \in 1 .. K, w \in Words :
              log' = log \o SubSeq(done, 1, i - 1) \o <<Result(batch[i].id, w), Human(w)>>
                         \o SubSeq(done, i + 1, Len(done))
    BY <1>3 DEF Tools
  <1>8. \A i, j \in 1 .. K : batch[i].id = batch[j].id => i = j
    BY <1>1, <1>2 DEF Grammar, Numbered, OneTurn
  <1>9. \A i \in 1 .. K : Holder(log[u], batch[i].id)
    BY <1>2 DEF Holder
  <1> HIDE DEF batch, done, u, K
  <1>10. ASSUME NEW more \in Seq(Entry), Closes(log[u], more), log' = log \o more
         PROVE  Grammar'
    <2>1. u \in 1 .. Len(log) /\ u = Len(log)
      BY <1>2 DEF u
    <2>2. Numbered(log, answers) /\ Owned(log) /\ log[u].calls # <<>>
      BY <1>2 DEF Grammar
    <2>3. /\ Numbered(log', answers) /\ Owned(log')
          /\ Batch(log', u, Len(log'))
      BY <1>1, <1>2, <1>10, <2>1, <2>2, Closing
    <2>4. /\ Len(log) \in Nat /\ Len(more) \in Nat /\ Len(log') = Len(log) + Len(more)
          /\ \A i \in 1 .. Len(log) : log'[i] = log[i]
          /\ \A i \in 1 .. Len(more) : log'[Len(log) + i] = more[i]
          /\ \A i \in 1 .. Len(log) + Len(more) :
                \/ i \in 1 .. Len(log)
                \/ i - Len(log) \in 1 .. Len(more) /\ Len(log) + (i - Len(log)) = i
      BY <1>1, <1>10, Longer
    <2>5. ASSUME NEW v \in 1 .. Len(log'), log'[v].calls # <<>>
          PROVE  Kept(log', v, torn)
      <3>1. v \in 1 .. Len(log)
        BY <1>10, <2>4, <2>5 DEF Closes
      <3>2. log[v].calls # <<>>
        BY <2>4, <2>5, <3>1
      <3>3. CASE v = u
        <4>1. Len(log') \in u .. Len(log')
          BY <2>1, <2>4
        <4> QED
          BY <2>3, <3>3, <4>1 DEF Kept
      <3>4. CASE Kept(log, v, torn)
        BY <1>1, <1>10, <3>1, <3>4, KeptStays
      <3> QED
        BY <2>1, <3>1, <3>2, <3>3, <3>4 DEF Grammar
    <2> QED
      BY <1>1, <2>3, <2>5 DEF Grammar
  <1>11. CASE log' = log \o done
    <2>1. \A j \in 1 .. K : /\ done[j].by = "tool" /\ done[j].call = batch[j].id
                            /\ done[j].calls = <<>>
      BY <1>6 DEF Result
    <2>2. K = Len(log[u].calls)
      BY <1>2 DEF K
    <2>3. Closes(log[u], done)
      BY <1>2, <1>6, <1>8, <1>9, <2>1, <2>2 DEF Closes
    <2> QED
      BY <1>6, <1>10, <1>11, <2>3
  <1>12. ASSUME NEW i \in 1 .. K, NEW w \in Words,
                log' = log \o SubSeq(done, 1, i - 1) \o <<Result(batch[i].id, w), Human(w)>>
                           \o SubSeq(done, i + 1, Len(done))
         PROVE  Grammar'
    <2> DEFINE r == Result(batch[i].id, w)
               m == Human(w)
               a == SubSeq(done, 1, i - 1)
               b == SubSeq(done, i + 1, Len(done))
               more == (a \o <<r, m>>) \o b
    <2>1. /\ r \in Entry /\ r.by = "tool" /\ r.text = w /\ r.call = batch[i].id /\ r.calls = <<>>
          /\ m \in Entry /\ m.by = "human" /\ m.text = w /\ m.calls = <<>>
      BY <1>4, <1>5, EntryTypes DEF Result, Human
    <2> HIDE DEF r, m
    <2>2. i \in 1 .. Len(done)
      BY <1>6
    <2>3. /\ more \in Seq(Entry) /\ a \in Seq(Entry) /\ b \in Seq(Entry)
          /\ <<r, m>> \in Seq(Entry) /\ Len(more) = K + 1
          /\ \A j \in 1 .. K + 1 :
                more[j] = IF j < i THEN done[j] ELSE IF j = i THEN r
                          ELSE IF j = i + 1 THEN m ELSE done[j - 1]
      <3>0. done \in Seq(Entry)
        BY <1>6
      <3> HIDE DEF done
      <3>1. /\ more \in Seq(Entry) /\ a \in Seq(Entry) /\ b \in Seq(Entry)
            /\ <<r, m>> \in Seq(Entry) /\ Len(more) = Len(done) + 1
            /\ \A j \in 1 .. Len(done) + 1 :
                  more[j] = IF j < i THEN done[j] ELSE IF j = i THEN r
                            ELSE IF j = i + 1 THEN m ELSE done[j - 1]
        <4>1. more = WithWords(done, i, r, m) /\ a = UpTo(done, i) /\ b = Beyond(done, i)
          BY DEF WithWords, UpTo, Beyond
        <4> HIDE DEF more, a, b
        <4>2. r \in Entry /\ m \in Entry
          BY <2>1
        <4>3. /\ WithWords(done, i, r, m) \in Seq(Entry)
              /\ UpTo(done, i) \in Seq(Entry) /\ Beyond(done, i) \in Seq(Entry)
              /\ <<r, m>> \in Seq(Entry)
              /\ Len(WithWords(done, i, r, m)) = Len(done) + 1
              /\ \A j \in 1 .. Len(done) + 1 :
                    WithWords(done, i, r, m)[j] = IF j < i THEN done[j] ELSE IF j = i THEN r
                                                  ELSE IF j = i + 1 THEN m ELSE done[j - 1]
          BY <2>2, <3>0, <4>2, Spliced
        <4> QED
          BY <4>1, <4>3, Zenon
      <3> HIDE DEF more, a, b
      <3> QED
        BY <1>6, <3>1
    <2>4. log' = log \o more
      <3>1. log' = ((log \o a) \o <<r, m>>) \o b
        BY <1>12 DEF r, m
      <3> DEFINE talk == <<r, m>>
      <3>2. /\ log \in Seq(Entry) /\ a \in Seq(Entry) /\ talk \in Seq(Entry) /\ b \in Seq(Entry)
        BY <1>1, <2>3
      <3>3. log' = Joined(Joined(Joined(log, a), talk), b)
        BY <3>1 DEF Joined
      <3>4. more = Joined(Joined(a, talk), b)
        BY DEF Joined
      <3> HIDE DEF a, b, talk, more
      <3>5. Joined(Joined(Joined(log, a), talk), b) = Joined(log, Joined(Joined(a, talk), b))
        BY <3>2, Regrouped
      <3>6. log' = Joined(log, more)
        BY <3>3, <3>4, <3>5
      <3> QED
        BY <3>6 DEF Joined
    <2> HIDE DEF more, a, b
    <2> DEFINE place(j) == IF j <= i THEN j ELSE j - 1
    <2>5. \A j \in 1 .. K + 1 : more[j].calls = <<>>
      <3> TAKE j \in 1 .. K + 1
      <3>1. CASE j < i
        <4>1. j \in 1 .. K
          BY <1>3, <3>1
        <4> QED
          BY <1>6, <2>3, <3>1, <4>1 DEF Result
      <3>2. CASE j = i
        BY <1>3, <2>1, <2>3, <3>2
      <3>3. CASE j = i + 1
        <4>1. ~ (j < i) /\ j # i
          BY <1>3, <3>3
        <4> QED
          BY <2>1, <2>3, <3>3, <4>1
      <3>4. CASE j > i + 1
        <4>1. ~ (j < i) /\ j # i /\ j # i + 1 /\ j - 1 \in 1 .. K
          BY <1>3, <3>4
        <4> QED
          BY <1>6, <2>3, <4>1 DEF Result
      <3> QED
        BY <1>3, <3>1, <3>2, <3>3, <3>4
    <2>6. ASSUME NEW j \in 1 .. K + 1, j # i + 1
          PROVE  /\ place(j) \in 1 .. K
                 /\ more[j].by = "tool" /\ more[j].call = batch[place(j)].id
      <3>1. CASE j < i
        <4>1. j \in 1 .. K /\ j <= i
          BY <1>3, <3>1
        <4> QED
          BY <1>6, <2>3, <3>1, <4>1 DEF Result
      <3>2. CASE j = i
        <4>1. ~ (j < i) /\ j <= i
          BY <1>3, <3>2
        <4> QED
          BY <2>1, <2>3, <3>2, <4>1
      <3>3. CASE j > i + 1
        <4>1. ~ (j < i) /\ j # i /\ j # i + 1 /\ j - 1 \in 1 .. K /\ ~ (j <= i)
          BY <1>3, <3>3
        <4> QED
          BY <1>6, <2>3, <4>1 DEF Result
      <3> QED
        BY <1>3, <2>6, <3>1, <3>2, <3>3
    <2>7. /\ i \in 1 .. K + 1 /\ i + 1 \in 1 .. K + 1 /\ (i + 1) - 1 = i
          /\ more[i] = r /\ more[i + 1] = m
      <3>1. i \in 1 .. K + 1 /\ i + 1 \in 1 .. K + 1 /\ (i + 1) - 1 = i
            /\ ~ (i < i) /\ ~ (i + 1 < i) /\ i + 1 # i
        BY <1>3
      <3> QED
        BY <2>3, <3>1
    <2>8. \A j \in 1 .. K + 1 : more[j].by = "human" => j = i + 1
      BY <2>6
    <2>9. ASSUME NEW j \in 1 .. K + 1, NEW l \in 1 .. K + 1, more[j].by = "tool",
                 more[l].by = "tool", more[j].call = more[l].call
          PROVE  j = l
      <3>1. j # i + 1 /\ l # i + 1
        BY <2>1, <2>7, <2>9
      <3>2. place(j) = place(l)
        <4> HIDE DEF place
        <4> QED
          BY <1>8, <2>6, <2>9, <3>1
      <3> QED
        BY <1>3, <3>1, <3>2
    <2>10. ASSUME NEW k \in 1 .. K
           PROVE  \E j \in 1 .. K + 1 : more[j].by = "tool" /\ more[j].call = batch[k].id
      <3> DEFINE j == IF k <= i THEN k ELSE k + 1
      <3>1. j \in 1 .. K + 1 /\ j # i + 1 /\ place(j) = k
        BY <1>3
      <3> HIDE DEF j, place
      <3> QED
        BY <2>6, <3>1
    <2>11. ASSUME NEW j \in 1 .. K + 1
           PROVE  \/ more[j].by = "tool" /\ Holder(log[u], more[j].call)
                  \/ /\ more[j].by = "human" /\ j - 1 \in 1 .. K + 1
                     /\ more[j - 1].by = "tool" /\ more[j].text = more[j - 1].text
      <3>1. CASE j = i + 1
        BY <2>1, <2>7, <3>1
      <3>2. CASE j # i + 1
        <4> HIDE DEF place
        <4> QED
          BY <1>9, <2>6, <3>2
      <3> QED
        BY <3>1, <3>2
    <2>12. Closes(log[u], more)
      <3>1. K = Len(log[u].calls)
        BY <1>2 DEF K
      <3>2. \A j, l \in 1 .. Len(more) :
               more[j].by = "human" /\ more[l].by = "human" => j = l
        BY <2>3, <2>8
      <3> QED
        BY <1>2, <2>3, <2>5, <2>9, <2>10, <2>11, <3>1, <3>2 DEF Closes
    <2> QED
      BY <1>10, <2>3, <2>4, <2>12
  <1> QED
    BY <1>7, <1>11, <1>12

(* Every call in the history is answered once, by the entries that follow  *)
(* it, unless the step that ran it was lost; every result answers a call   *)
(* of its own in this way, and the calls of an answer have new ids.        *)
THEOREM HistoryIsWhole == Spec => []Grammar
  <1>1. Init => Grammar
    BY EmptySeq DEF Init, Grammar, Numbered, Owned
  <1>2. SoundLog /\ Grammar /\ [Next]_vars => Grammar'
    <2> SUFFICES ASSUME SoundLog, Grammar, [Next]_vars PROVE Grammar'
      OBVIOUS
    <2>1. CASE Begin
      BY <2>1, GrammarBegin
    <2>2. CASE Converse
      BY <2>2, GrammarConverse
    <2>3. CASE Analyze
      BY <2>3, GrammarAnalyze
    <2>4. CASE Tools
      BY <2>4, GrammarTools
    <2>5. CASE Summarize
      <3>1. log' = log /\ answers' = answers /\ torn' = torn /\ stage # "tools" /\ stage' # "tools"
        BY <2>5 DEF Summarize
      <3> QED
        BY <3>1 DEF Grammar
    <2>6. CASE Raise
      BY <2>6, GrammarRaise
    <2>7. CASE UNCHANGED vars
      <3>1. log' = log /\ answers' = answers /\ torn' = torn /\ stage' = stage
        BY <2>7 DEF vars
      <3> QED
        BY <3>1 DEF Grammar
    <2> QED
      BY <2>1, <2>2, <2>3, <2>4, <2>5, <2>6, <2>7 DEF Next
  <1> QED
    BY <1>1, <1>2, HistorySound, PTL DEF Spec

-----------------------------------------------------------------------------
(* What one entry does to the messages *)

(* The ids of the calls of an entry.                                       *)
CallIds(e) == {e.calls[k].id : k \in 1 .. Len(e.calls)}

(* A message answers no call twice; one of its results has this text.      *)
Once(m) ==
    \A j, k \in DOMAIN m.blocks :
        m.blocks[j].type = "result" /\ m.blocks[k].type = "result"
          /\ m.blocks[j].call = m.blocks[k].call => j = k
Told(m, t) == \E i \in DOMAIN m.blocks : m.blocks[i].type = "result" /\ m.blocks[i].text = t

(* A message with a single block.                                          *)
LEMMA OneBlock ==
    ASSUME NEW m, NEW b, m.blocks = <<b>>
    PROVE  /\ \A type : Ids(m, type) = IF b.type = type THEN {b.call} ELSE {}
           /\ Once(m)
           /\ b.type = "result" => Told(m, b.text)
           /\ \A type : Holds(m, type) <=> b.type = type
  <1>1. DOMAIN m.blocks = {1} /\ m.blocks[1] = b
    OBVIOUS
  <1>2. \A type : Ids(m, type) = IF b.type = type THEN {b.call} ELSE {}
    BY <1>1 DEF Ids
  <1> QED
    BY <1>1, <1>2 DEF Once, Told, Holds

(* A message that gets one more block.                                     *)
LEMMA MoreBlocks ==
    ASSUME NEW old \in Message, NEW m \in Message, NEW b \in Block, m.blocks = old.blocks \o <<b>>
    PROVE  /\ \A type : Ids(m, type) = Ids(old, type) \cup (IF b.type = type THEN {b.call} ELSE {})
           /\ Once(old) /\ (b.type = "result" => b.call \notin Ids(old, "result")) => Once(m)
           /\ \A t : Told(old, t) => Told(m, t)
           /\ b.type = "result" => Told(m, b.text)
  <1> DEFINE K == Len(old.blocks)
             bs == m.blocks
             os == old.blocks
  <1>1. os \in Seq(Block) /\ K \in Nat /\ DOMAIN os = 1 .. K
    BY LenProperties DEF Message
  <1>2. /\ DOMAIN bs = 1 .. K + 1 /\ bs[K + 1] = b
        /\ \A k \in 1 .. K : bs[k] = os[k]
    <2>1. bs = Append(os, b)
      BY <1>1, AppendIsConcat
    <2>2. bs \in Seq(Block) /\ Len(bs) = K + 1
      BY <1>1, <2>1, AppendProperties
    <2> QED
      BY <1>1, <2>1, <2>2, AppendProperties, LenProperties
  <1>3. \A k \in 1 .. K + 1 : k \in 1 .. K \/ k = K + 1
    BY <1>1
  <1>4. \A k \in 1 .. K : k \in 1 .. K + 1
    BY <1>1
  <1>5. K + 1 \in 1 .. K + 1 /\ K + 1 \notin 1 .. K
    BY <1>1
  <1> HIDE DEF K, bs, os
  <1>6. ASSUME NEW type
        PROVE  Ids(m, type) = Ids(old, type) \cup (IF b.type = type THEN {b.call} ELSE {})
    <2>1. \A x : x \in Ids(m, type) <=> \E k \in 1 .. K + 1 : bs[k].type = type /\ bs[k].call = x
      BY <1>2 DEF Ids, bs
    <2>2. \A x : x \in Ids(old, type) <=> \E k \in 1 .. K : os[k].type = type /\ os[k].call = x
      BY <1>1 DEF Ids, os
    <2>3. ASSUME NEW x \in Ids(m, type)
          PROVE  x \in Ids(old, type) \cup (IF b.type = type THEN {b.call} ELSE {})
      <3>1. PICK k \in 1 .. K + 1 : bs[k].type = type /\ bs[k].call = x
        BY <2>1
      <3>2. CASE k \in 1 .. K
        BY <1>2, <2>2, <3>1, <3>2
      <3>3. CASE k = K + 1
        BY <1>2, <3>1, <3>3
      <3> QED
        BY <1>3, <3>2, <3>3
    <2>4. ASSUME NEW x \in Ids(old, type) \cup (IF b.type = type THEN {b.call} ELSE {})
          PROVE  x \in Ids(m, type)
      <3>1. CASE x \in Ids(old, type)
        BY <1>2, <1>4, <2>1, <2>2, <3>1
      <3>2. CASE b.type = type /\ x = b.call
        BY <1>2, <1>5, <2>1, <3>2
      <3> QED
        BY <2>4, <3>1, <3>2
    <2> QED
      BY <2>3, <2>4
  <1>7. ASSUME Once(old), b.type = "result" => b.call \notin Ids(old, "result")
        PROVE  Once(m)
    <2> SUFFICES ASSUME NEW j \in 1 .. K + 1, NEW k \in 1 .. K + 1, bs[j].type = "result",
                        bs[k].type = "result", bs[j].call = bs[k].call
                 PROVE  j = k
      BY <1>2 DEF Once, bs
    <2>1. \A x \in 1 .. K : os[x].type = "result" => os[x].call \in Ids(old, "result")
      BY <1>1 DEF Ids, os
    <2>2. CASE j \in 1 .. K /\ k \in 1 .. K
      BY <1>1, <1>2, <1>7, <2>2 DEF Once, os
    <2>3. CASE j \in 1 .. K /\ k = K + 1
      BY <1>2, <1>7, <2>1, <2>3
    <2>4. CASE j = K + 1 /\ k \in 1 .. K
      BY <1>2, <1>7, <2>1, <2>4
    <2> QED
      BY <1>3, <2>2, <2>3, <2>4
  <1>8. \A t : Told(old, t) => Told(m, t)
    BY <1>1, <1>2, <1>4 DEF Told, bs, os
  <1>9. b.type = "result" => Told(m, b.text)
    BY <1>2, <1>5 DEF Told, bs
  <1> QED
    BY <1>6, <1>7, <1>8, <1>9

(* The entry comes as a message of its own.                                *)
OwnMessage(ms, out, e) ==
    LET L == Len(ms)
    IN  /\ Len(out) = L + 1 /\ \A i \in 1 .. L : out[i] = ms[i]
        /\ out[L + 1].role = IF e.by = "ai" THEN "assistant" ELSE "user"
        /\ Ids(out[L + 1], "use") = CallIds(e)
        /\ Ids(out[L + 1], "result") = IF e.by = "tool" THEN {e.call} ELSE {}
        /\ Once(out[L + 1])
        /\ e.by = "tool" => Told(out[L + 1], e.text)

(* The entry joins the last message of the user, or is already in it.      *)
LastMessage(ms, out, e) ==
    LET L == Len(ms)
    IN  /\ e.by # "ai" /\ L # 0 /\ ms[L].role = "user"
        /\ Len(out) = L /\ \A i \in 1 .. L - 1 : out[i] = ms[i]
        /\ out[L].role = "user"
        /\ Ids(out[L], "use") = Ids(ms[L], "use")
        /\ Ids(out[L], "result") = Ids(ms[L], "result") \cup (IF e.by = "tool" THEN {e.call} ELSE {})
        /\ Once(ms[L]) /\ (e.by = "tool" => e.call \notin Ids(ms[L], "result")) => Once(out[L])
        /\ e.by = "tool" => Told(out[L], e.text)

(* What ClientMessage makes of an entry.                                   *)
LEMMA ClientIds ==
    ASSUME NEW e \in Entry, Source(e), NEW sent
    PROVE  LET m == ClientMessage(e, sent)
           IN  /\ m \in Message
               /\ m.role = IF e.by = "ai" THEN "assistant" ELSE "user"
               /\ Ids(m, "use") = CallIds(e)
               /\ Ids(m, "result") = IF e.by = "tool" THEN {e.call} ELSE {}
               /\ Once(m)
               /\ e.by = "tool" => Told(m, e.text) /\ Holds(m, "result") /\ ~m.plain
               /\ e.by # "ai" => \E b \in Block :
                     /\ m.blocks = <<b>> /\ b.text = e.text
                     /\ e.by = "tool" => b.type = "result" /\ b.call = e.call
                     /\ e.by # "tool" => b.type = "text" /\ m.plain
  <1> DEFINE m == ClientMessage(e, sent)
  <1>1. e.by \in {"human", "ai", "tool"} /\ e.calls \in Seq(Call) /\ (e.by # "ai" => e.calls = <<>>)
    BY DEF Entry, Source
  <1>2. m \in Message
    BY ClientMessageFacts
  <1>3. e.calls = <<>> => CallIds(e) = {}
    BY DEF CallIds
  <1>4. ResultBlock(e, sent) \in Block /\ Text(e.text) \in Block
    BY BlockTypes DEF Entry
  <1>5. CASE e.by = "tool"
    <2> DEFINE b == ResultBlock(e, sent)
    <2>1. m = [role |-> "user", plain |-> FALSE, blocks |-> <<b>>]
      BY <1>5, ClientMessageFacts
    <2>2. b.type = "result" /\ b.call = e.call /\ b.text = e.text
      BY DEF ResultBlock
    <2> HIDE DEF m, b
    <2>3. m.role = "user" /\ m.plain = FALSE /\ m.blocks = <<b>>
      BY <2>1
    <2>4. /\ Ids(m, "use") = {} /\ Ids(m, "result") = {e.call} /\ Once(m) /\ Told(m, e.text)
          /\ Holds(m, "result")
      BY <2>2, <2>3, OneBlock
    <2>5. b \in Block
      BY <1>4 DEF b
    <2>6. \E x \in Block : m.blocks = <<x>> /\ x.text = e.text /\ x.type = "result" /\ x.call = e.call
      BY <2>2, <2>3, <2>5
    <2> QED
      BY <1>1, <1>2, <1>3, <1>5, <2>3, <2>4, <2>6 DEF m
  <1>6. CASE e.by # "tool" /\ e.calls = <<>>
    <2> DEFINE b == Text(e.text)
    <2>1. m = [role |-> IF e.by = "human" THEN "user" ELSE "assistant", plain |-> TRUE, blocks |-> <<b>>]
      BY <1>6, ClientMessageFacts
    <2>2. b.type = "text" /\ b.text = e.text
      BY DEF Text
    <2> HIDE DEF m, b
    <2>3. /\ m.role = IF e.by = "human" THEN "user" ELSE "assistant"
          /\ m.plain = TRUE /\ m.blocks = <<b>>
      BY <2>1
    <2>4. Ids(m, "use") = {} /\ Ids(m, "result") = {} /\ Once(m)
      BY <2>2, <2>3, OneBlock
    <2>5. b \in Block
      BY <1>4 DEF b
    <2>6. \E x \in Block : m.blocks = <<x>> /\ x.text = e.text /\ x.type = "text"
      BY <2>2, <2>3, <2>5
    <2> QED
      BY <1>1, <1>2, <1>3, <1>6, <2>3, <2>4, <2>6 DEF m
  <1>7. CASE e.by # "tool" /\ e.calls # <<>>
    <2>1. e.by = "ai"
      BY <1>1, <1>7
    <2> DEFINE uses == [i \in DOMAIN e.calls |-> Use(e.calls[i])]
    <2>2. m = [role |-> "assistant", plain |-> FALSE, blocks |-> uses]
      BY <1>7, ClientMessageFacts
    <2>3. DOMAIN e.calls = 1 .. Len(e.calls)
      BY <1>1, LenProperties
    <2> HIDE DEF m
    <2>4. m.role = "assistant" /\ m.blocks = uses
      BY <2>2
    <2>5. /\ DOMAIN m.blocks = 1 .. Len(e.calls)
          /\ \A k \in 1 .. Len(e.calls) : m.blocks[k].type = "use" /\ m.blocks[k].call = e.calls[k].id
      <3>1. \A k \in 1 .. Len(e.calls) : m.blocks[k] = Use(e.calls[k])
        BY <2>3, <2>4
      <3>2. DOMAIN m.blocks = 1 .. Len(e.calls)
        BY <2>3, <2>4
      <3>3. \A c : Use(c).type = "use" /\ Use(c).call = c.id
        BY DEF Use
      <3> HIDE DEF uses
      <3> QED
        BY <3>1, <3>2, <3>3, Zenon
    <2>6. Ids(m, "result") = {} /\ Once(m)
      BY <2>5 DEF Ids, Once
    <2>7. Ids(m, "use") = CallIds(e)
      BY <2>5 DEF Ids, CallIds
    <2> QED
      BY <1>2, <2>1, <2>4, <2>6, <2>7 DEF m
  <1> QED
    BY <1>5, <1>6, <1>7

LEMMA Put ==
    ASSUME NEW ms \in Seq(Message), NEW e \in Entry, Source(e), NEW sent
    PROVE  LET out == Appended(ms, ClientMessage(e, sent))
               L == Len(ms)
           IN  /\ out \in Seq(Message)
               /\ OwnMessage(ms, out, e) \/ LastMessage(ms, out, e)
               /\ /\ L # 0 /\ ms[L].role = "user"
                  /\ e.by = "tool" \/ (e.by = "human" /\ Told(ms[L], e.text))
                  => LastMessage(ms, out, e)
  <1> DEFINE m == ClientMessage(e, sent)
             out == Appended(ms, m)
             L == Len(ms)
             last == ms[L]
             alone == \/ ms = <<>> \/ m.role # "user" \/ last.role # "user"
                      \/ ~ (Holds(m, "result") \/ Holds(last, "result"))
             grown == Grown(ms, m.blocks)
  <1>1. /\ m \in Message
        /\ m.role = IF e.by = "ai" THEN "assistant" ELSE "user"
        /\ Ids(m, "use") = CallIds(e)
        /\ Ids(m, "result") = IF e.by = "tool" THEN {e.call} ELSE {}
        /\ Once(m)
        /\ e.by = "tool" => Told(m, e.text) /\ Holds(m, "result") /\ ~m.plain
        /\ e.by # "ai" => \E b \in Block :
              /\ m.blocks = <<b>> /\ b.text = e.text
              /\ e.by = "tool" => b.type = "result" /\ b.call = e.call
              /\ e.by # "tool" => b.type = "text" /\ m.plain
    BY ClientIds
  <1>2. e.by \in {"human", "ai", "tool"}
    BY DEF Entry
  <1>3. out = IF alone THEN Append(ms, m) ELSE IF Duplicates(last, m) THEN ms ELSE grown
    BY DEF Appended, Last, Grown
  <1>4. L \in Nat /\ (ms # <<>> <=> L # 0)
    BY EmptySeq, LenProperties
  <1>5. L # 0 => L \in 1 .. L /\ last \in Message
    <2>1. L # 0 => L \in 1 .. L
      BY <1>4
    <2> QED
      BY <2>1, ElementOfSeq
  <1> HIDE DEF m, out, L
  <1>6. ASSUME out = Append(ms, m)
        PROVE  out \in Seq(Message) /\ OwnMessage(ms, out, e)
    <2>1. /\ out \in Seq(Message) /\ Len(out) = L + 1 /\ out[L + 1] = m
          /\ \A i \in 1 .. L : out[i] = ms[i]
      BY <1>1, <1>6, AppendProperties DEF L
    <2> QED
      BY <1>1, <2>1 DEF OwnMessage, L
  <1>7. ASSUME ~alone, Duplicates(last, m)
        PROVE  out \in Seq(Message) /\ LastMessage(ms, out, e)
    <2>1. e.by = "human" /\ out = ms /\ L # 0 /\ last.role = "user"
      BY <1>1, <1>2, <1>3, <1>4, <1>7 DEF Duplicates
    <2> QED
      BY <2>1 DEF LastMessage, L
  <1>8. ASSUME ~alone, out = grown
        PROVE  out \in Seq(Message) /\ LastMessage(ms, out, e)
    <2>1. e.by # "ai" /\ L # 0 /\ last.role = "user" /\ ms # <<>>
      BY <1>1, <1>4, <1>8
    <2>2. PICK b \in Block :
              /\ m.blocks = <<b>> /\ b.text = e.text
              /\ e.by = "tool" => b.type = "result" /\ b.call = e.call
              /\ e.by # "tool" => b.type = "text" /\ m.plain
      BY <1>1, <2>1
    <2>3. m.blocks \in Seq(Block)
      BY <1>1 DEF Message
    <2>4. /\ out \in Seq(Message) /\ Len(out) = L
          /\ \A i \in 1 .. L - 1 : out[i] = ms[i]
          /\ out[L].role = last.role /\ out[L].blocks = last.blocks \o m.blocks
      BY <1>8, <2>1, <2>3, GrownFacts DEF L
    <2>5. out[L] \in Message
      BY <1>5, <2>1, <2>4, ElementOfSeq
    <2>6. out[L].blocks = last.blocks \o <<b>>
      BY <2>2, <2>4
    <2>7. last \in Message
      BY <1>5, <2>1
    <2> HIDE DEF last, grown
    <2>8. /\ \A type : Ids(out[L], type) = Ids(last, type) \cup (IF b.type = type THEN {b.call} ELSE {})
          /\ Once(last) /\ (b.type = "result" => b.call \notin Ids(last, "result")) => Once(out[L])
          /\ b.type = "result" => Told(out[L], b.text)
      <3> DEFINE new == out[L]
      <3>1. new \in Message /\ new.blocks = last.blocks \o <<b>>
        BY <2>5, <2>6
      <3> HIDE DEF new
      <3>2. \A type : Ids(new, type) = Ids(last, type) \cup (IF b.type = type THEN {b.call} ELSE {})
        BY <2>7, <3>1, MoreBlocks
      <3>3. /\ Once(last) /\ (b.type = "result" => b.call \notin Ids(last, "result")) => Once(new)
            /\ b.type = "result" => Told(new, b.text)
        BY <2>7, <3>1, MoreBlocks
      <3> QED
        BY <3>2, <3>3 DEF new
    <2>9. /\ b.type # "use" /\ (b.type = "result" <=> e.by = "tool")
          /\ e.by = "tool" => b.call = e.call
      BY <2>2
    <2>10. /\ Ids(out[L], "use") = Ids(last, "use")
           /\ Ids(out[L], "result") = Ids(last, "result") \cup (IF e.by = "tool" THEN {e.call} ELSE {})
           /\ Once(last) /\ (e.by = "tool" => e.call \notin Ids(last, "result")) => Once(out[L])
           /\ e.by = "tool" => Told(out[L], e.text)
      BY <2>2, <2>8, <2>9
    <2> QED
      BY <2>1, <2>4, <2>10 DEF LastMessage, L, last
  <1>9. ASSUME L # 0, last.role = "user", e.by = "tool" \/ (e.by = "human" /\ Told(last, e.text))
        PROVE  ~alone
    <2>1. Told(last, e.text) => Holds(last, "result")
      BY DEF Told, Holds
    <2> QED
      BY <1>1, <1>4, <1>9, <2>1
  <1>10. out \in Seq(Message) /\ (OwnMessage(ms, out, e) \/ LastMessage(ms, out, e))
    BY <1>3, <1>6, <1>7, <1>8
  <1>11. ASSUME L # 0, last.role = "user", e.by = "tool" \/ (e.by = "human" /\ Told(last, e.text))
         PROVE  LastMessage(ms, out, e)
    BY <1>3, <1>7, <1>8, <1>9, <1>11
  <1> QED
    BY <1>10, <1>11 DEF out, m, L

(* Who called: each call has one caller, each result a caller before it,   *)
(* whose batch it is in, and no two results answer one call.               *)
Callers ==
    /\ \A id : \A u, v \in 1 .. Len(log) : Holder(log[u], id) /\ Holder(log[v], id) => u = v
    /\ \A q \in 1 .. Len(log) : log[q].by = "tool" =>
          \E u, e \in 1 .. Len(log) :
              Batch(log, u, e) /\ q \in u + 1 .. e /\ Holder(log[u], log[q].call)
    /\ \A u, q \in 1 .. Len(log) : log[q].by = "tool" /\ Holder(log[u], log[q].call) => u < q
    /\ \A p, q \in 1 .. Len(log) :
          log[p].by = "tool" /\ log[q].by = "tool" /\ log[p].call = log[q].call => p = q
    /\ \A u \in 1 .. Len(log) : log[u].calls # <<>> => log[u].by = "ai"

LEMMA HistoryCallers ==
    ASSUME SoundLog, Grammar
    PROVE  Callers
  <1> DEFINE N == Len(log)
  <1>1. log \in Seq(Entry) /\ Numbered(log, answers) /\ Owned(log) /\ N \in Nat
    BY LenProperties DEF SoundLog, Sound, Grammar
  <1>2. \A id : \A u \in 1 .. N : Holder(log[u], id) => log[u].calls # <<>> /\ id[1] = Turn(log[u])
    <2> SUFFICES ASSUME NEW u \in 1 .. N, NEW id, Holder(log[u], id)
                 PROVE  log[u].calls # <<>> /\ id[1] = Turn(log[u])
      OBVIOUS
    <2>1. PICK k \in 1 .. Len(log[u].calls) : log[u].calls[k].id = id
      BY DEF Holder
    <2>2. log[u].calls # <<>>
      <3>1. Len(<<>>) = 0 /\ 1 .. 0 = {}
        OBVIOUS
      <3> QED
        BY <2>1, <3>1
    <2>3. OneTurn(log[u], answers)
      BY <1>1, <2>2 DEF Numbered
    <2> QED
      BY <2>1, <2>2, <2>3 DEF OneTurn
  <1>3. \A u \in 1 .. N : log[u].calls # <<>> => Turn(log[u]) \in Nat
    BY <1>1, TurnType
  <1>4. ASSUME NEW u \in 1 .. N, NEW v \in 1 .. N, NEW id, Holder(log[u], id), Holder(log[v], id)
        PROVE  u = v
    <2>1. log[u].calls # <<>> /\ log[v].calls # <<>> /\ Turn(log[u]) = Turn(log[v])
      BY <1>2, <1>4
    <2>2. Turn(log[u]) \in Nat /\ Turn(log[v]) \in Nat
      BY <1>3, <2>1
    <2>3. u \in 1 .. v - 1 => Turn(log[u]) < Turn(log[v])
      BY <1>1, <2>1 DEF Numbered
    <2>4. v \in 1 .. u - 1 => Turn(log[v]) < Turn(log[u])
      BY <1>1, <2>1 DEF Numbered
    <2> HIDE DEF Turn
    <2>5. u \notin 1 .. v - 1 /\ v \notin 1 .. u - 1
      BY <2>1, <2>2, <2>3, <2>4
    <2> QED
      BY <1>1, <2>5
  <1>5. \A u \in 1 .. N : log[u].calls # <<>> => log[u].by = "ai"
    BY DEF SoundLog, Sound, Source
  <1>6. ASSUME NEW q \in 1 .. N, log[q].by = "tool"
        PROVE  \E u, e \in 1 .. N : Batch(log, u, e) /\ q \in u + 1 .. e /\ Holder(log[u], log[q].call)
    <2>1. PICK u \in 1 .. q - 1 : \E e \in q .. N : Batch(log, u, e)
      BY <1>1, <1>6 DEF Owned
    <2>2. PICK e \in q .. N : Batch(log, u, e)
      BY <2>1
    <2>3. u \in 1 .. N /\ e \in 1 .. N /\ q \in u + 1 .. e
      BY <1>1
    <2>4. Inside(log, u, q)
      BY <2>2, <2>3 DEF Batch
    <2> QED
      BY <1>6, <2>2, <2>3, <2>4 DEF Inside
  <1>7. ASSUME NEW u \in 1 .. N, NEW q \in 1 .. N, log[q].by = "tool", Holder(log[u], log[q].call)
        PROVE  u < q
    <2>1. PICK v \in 1 .. N : \E e \in 1 .. N : q \in v + 1 .. e /\ Holder(log[v], log[q].call)
      BY <1>6, <1>7
    <2>2. u = v
      BY <1>4, <1>7, <2>1
    <2> QED
      BY <1>1, <2>1, <2>2
  <1>8. \A p, q \in 1 .. N :
           log[p].by = "tool" /\ log[q].by = "tool" /\ log[p].call = log[q].call => p = q
    BY <1>1 DEF Owned
  <1> QED
    BY <1>4, <1>5, <1>6, <1>7, <1>8 DEF Callers

-----------------------------------------------------------------------------
(* The messages of the entries s .. p *)

(* Each call is in one message, and its result in the next.                *)
UsesAnswered(s, p, ms) ==
    \A i \in 1 .. Len(ms) : \A id \in Ids(ms[i], "use") :
        /\ \E u \in s .. p : Holder(log[u], id)
        /\ \A q \in s .. p : log[q].by = "tool" /\ log[q].call = id =>
              i < Len(ms) /\ id \in Ids(ms[i + 1], "result")

(* Each result is after its call, unless the call is before the history.   *)
ResultsAnswer(s, p, ms) ==
    \A i \in 1 .. Len(ms) : \A id \in Ids(ms[i], "result") :
        /\ \E q \in s .. p : log[q].by = "tool" /\ log[q].call = id
        /\ i = 1 => \E u \in 1 .. s - 1 : Holder(log[u], id)
        /\ i # 1 => id \in Ids(ms[i - 1], "use")

UsesOnce(ms) ==
    \A i, j \in 1 .. Len(ms) : \A id : id \in Ids(ms[i], "use") /\ id \in Ids(ms[j], "use") => i = j

(* The last messages, while the entries of a batch come in.                *)
InBatch(s, p, ms) ==
    \A u, e \in 1 .. Len(log) : Batch(log, u, e) /\ p \in u .. e /\ s <= p =>
        LET L == Len(ms)
        IN  /\ p = u => ms[L].role = "assistant" /\ Ids(ms[L], "use") = CallIds(log[u])
            /\ p # u => /\ ms[L].role = "user"
                        /\ u < s => L = 1
                        /\ ~ (u < s) => L >= 2 /\ Ids(ms[L - 1], "use") = CallIds(log[u])

Merges(s, p, ms) ==
    /\ ms \in Seq(Message)
    /\ IF s <= p THEN Len(ms) # 0 ELSE Len(ms) = 0
    /\ UsesAnswered(s, p, ms) /\ ResultsAnswer(s, p, ms) /\ UsesOnce(ms)
    /\ \A i \in 1 .. Len(ms) : Once(ms[i])
    /\ InBatch(s, p, ms)
    /\ s <= p /\ log[p].by = "tool" => Told(ms[Len(ms)], log[p].text)

(* What the step from p - 1 to p starts from.                              *)
Step(s, p, ms, out) ==
    /\ Callers /\ log \in Seq(Entry)
    /\ s \in 1 .. Len(log) /\ p \in s .. Len(log)
    /\ Merges(s, p - 1, ms)
    /\ out \in Seq(Message) /\ (OwnMessage(ms, out, log[p]) \/ LastMessage(ms, out, log[p]))
    /\ /\ Len(ms) # 0 /\ ms[Len(ms)].role = "user"
       /\ log[p].by = "tool" \/ (log[p].by = "human" /\ Told(ms[Len(ms)], log[p].text))
       => LastMessage(ms, out, log[p])

LEMMA StepTypes ==
    ASSUME NEW s, NEW p, NEW ms, NEW out, Step(s, p, ms, out)
    PROVE  /\ Len(log) \in Nat /\ Len(ms) \in Nat /\ Len(out) \in Nat
           /\ s \in Nat \ {0} /\ p \in Nat \ {0} /\ s <= p /\ p <= Len(log)
           /\ p \in 1 .. Len(log) /\ s .. p \subseteq 1 .. Len(log)
           /\ \A q \in s .. p : q = p \/ q \in s .. p - 1
           /\ log[p] \in Entry /\ log[p].by \in {"human", "ai", "tool"}
  <1>1. Len(log) \in Nat /\ Len(ms) \in Nat /\ Len(out) \in Nat
    BY LenProperties DEF Step, Merges
  <1>2. s \in 1 .. Len(log) /\ p \in s .. Len(log) /\ log \in Seq(Entry)
    BY DEF Step
  <1>3. /\ s \in Nat \ {0} /\ p \in Nat \ {0} /\ s <= p /\ p <= Len(log)
        /\ p \in 1 .. Len(log) /\ s .. p \subseteq 1 .. Len(log)
        /\ \A q \in s .. p : q = p \/ q \in s .. p - 1
    BY <1>1, <1>2
  <1>4. log[p] \in Entry
    BY <1>2, <1>3, ElementOfSeq
  <1> QED
    BY <1>1, <1>3, <1>4 DEF Entry

(* A result finds the message with its call, or the first message.         *)
LEMMA ResultPlace ==
    ASSUME NEW s, NEW p, NEW ms, NEW out, Step(s, p, ms, out), log[p].by = "tool"
    PROVE  LET L == Len(ms)
               id == log[p].call
           IN  \/ (\E u \in 1 .. s - 1 : Holder(log[u], id)) /\ Len(out) = 1
               \/ /\ Len(out) > 1 /\ Len(out) - 1 \in 1 .. L
                  /\ out[Len(out) - 1] = ms[Len(out) - 1]
                  /\ id \in Ids(ms[Len(out) - 1], "use")
  <1> DEFINE L == Len(ms)
             id == log[p].call
             e == log[p]
  <1>1. /\ Len(log) \in Nat /\ L \in Nat /\ Len(out) \in Nat
        /\ s \in Nat \ {0} /\ p \in Nat \ {0} /\ s <= p /\ p <= Len(log) /\ p \in 1 .. Len(log)
    BY StepTypes
  <1>2. PICK u \in 1 .. Len(log) : \E x \in 1 .. Len(log) :
           Batch(log, u, x) /\ p \in u + 1 .. x /\ Holder(log[u], id)
    BY <1>1 DEF Step, Callers
  <1>3. PICK x \in 1 .. Len(log) : Batch(log, u, x) /\ p \in u + 1 .. x /\ Holder(log[u], id)
    BY <1>2
  <1>4. u < p /\ u <= p - 1 /\ p - 1 \in u .. x /\ u \in Nat \ {0}
    BY <1>1, <1>3
  <1>5. id \in CallIds(log[u])
    BY <1>3 DEF Holder, CallIds
  <1>6. /\ IF s <= p - 1 THEN L # 0 ELSE L = 0
        /\ s <= p - 1 =>
              /\ p - 1 = u => ms[L].role = "assistant" /\ Ids(ms[L], "use") = CallIds(log[u])
              /\ p - 1 # u => /\ ms[L].role = "user"
                              /\ u < s => L = 1
                              /\ ~ (u < s) => L >= 2 /\ Ids(ms[L - 1], "use") = CallIds(log[u])
    BY <1>3, <1>4 DEF Step, Merges, InBatch
  <1>7. OwnMessage(ms, out, e) \/ LastMessage(ms, out, e)
    BY DEF Step
  <1>8. L # 0 /\ ms[L].role = "user" => LastMessage(ms, out, e)
    BY DEF Step
  <1>9. OwnMessage(ms, out, e) => Len(out) = L + 1 /\ \A i \in 1 .. L : out[i] = ms[i]
    BY DEF OwnMessage
  <1>10. LastMessage(ms, out, e) => L # 0 /\ ms[L].role = "user" /\ Len(out) = L
                                    /\ \A i \in 1 .. L - 1 : out[i] = ms[i]
    BY DEF LastMessage
  <1>11. u < s => u \in 1 .. s - 1
    BY <1>1, <1>4
  <1> HIDE DEF L, id, e
  <1>12. CASE ~ (s <= p - 1)
    <2>1. L = 0 /\ u < s
      BY <1>1, <1>4, <1>6, <1>12
    <2>2. Len(out) = 1
      BY <1>7, <1>9, <1>10, <2>1
    <2> QED
      BY <1>3, <1>11, <2>1, <2>2 DEF id
  <1>13. CASE s <= p - 1 /\ p - 1 = u
    <2>1. L # 0 /\ ms[L].role = "assistant" /\ id \in Ids(ms[L], "use")
      BY <1>5, <1>6, <1>13
    <2>2. Len(out) = L + 1 /\ \A i \in 1 .. L : out[i] = ms[i]
      BY <1>7, <1>9, <1>10, <2>1
    <2>3. L \in 1 .. L /\ Len(out) - 1 = L /\ Len(out) > 1
      BY <1>1, <2>1, <2>2
    <2> QED
      BY <2>1, <2>2, <2>3 DEF L, id
  <1>14. CASE s <= p - 1 /\ p - 1 # u
    <2>1. L # 0 /\ ms[L].role = "user"
      BY <1>6, <1>14
    <2>2. Len(out) = L /\ \A i \in 1 .. L - 1 : out[i] = ms[i]
      BY <1>8, <1>10, <2>1
    <2>3. CASE u < s
      BY <1>3, <1>6, <1>11, <1>14, <2>2, <2>3 DEF id
    <2>4. CASE ~ (u < s)
      <3>1. L >= 2 /\ id \in Ids(ms[L - 1], "use")
        BY <1>5, <1>6, <1>14, <2>4
      <3>2. L - 1 \in 1 .. L - 1 /\ L - 1 \in 1 .. L /\ Len(out) > 1
        BY <1>1, <2>2, <3>1
      <3> QED
        BY <2>2, <3>1, <3>2 DEF L, id
    <2> QED
      BY <2>3, <2>4
  <1> QED
    BY <1>12, <1>13, <1>14

LEMMA UsesStep ==
    ASSUME NEW s, NEW p, NEW ms, NEW out, Step(s, p, ms, out)
    PROVE  UsesAnswered(s, p, out)
  <1> DEFINE L == Len(ms)
             e == log[p]
  <1>1. /\ Len(log) \in Nat /\ L \in Nat /\ Len(out) \in Nat
        /\ s \in Nat \ {0} /\ p \in Nat \ {0} /\ s <= p /\ p <= Len(log) /\ p \in 1 .. Len(log)
        /\ s .. p \subseteq 1 .. Len(log)
        /\ \A q \in s .. p : q = p \/ q \in s .. p - 1
    BY StepTypes
  <1>2. OwnMessage(ms, out, e) \/ LastMessage(ms, out, e)
    BY DEF Step
  <1>3. UsesAnswered(s, p - 1, ms) /\ UsesOnce(ms) /\ Callers
    BY DEF Step, Merges
  <1>4. s .. p - 1 \subseteq s .. p /\ p \in s .. p
    BY <1>1
  <1>5. ASSUME NEW i \in 1 .. L, NEW id \in Ids(ms[i], "use"), e.by = "tool", e.call = id
        PROVE  Len(out) > 1 /\ i = Len(out) - 1
    <2>1. PICK u \in s .. p - 1 : Holder(log[u], id)
      BY <1>3 DEF UsesAnswered
    <2>2. ~ \E v \in 1 .. s - 1 : Holder(log[v], id)
      <3> SUFFICES ASSUME NEW v \in 1 .. s - 1, Holder(log[v], id) PROVE FALSE
        OBVIOUS
      <3>1. v \in 1 .. Len(log) /\ u \in 1 .. Len(log) /\ u # v
        BY <1>1
      <3> QED
        BY <1>3, <2>1, <3>1 DEF Callers
    <2>3. /\ Len(out) > 1 /\ Len(out) - 1 \in 1 .. L /\ id \in Ids(ms[Len(out) - 1], "use")
      BY <1>5, <2>2, ResultPlace
    <2> QED
      BY <1>3, <2>3 DEF UsesOnce
  <1>6. ASSUME NEW i \in 1 .. Len(out), NEW id \in Ids(out[i], "use")
        PROVE  /\ \E u \in s .. p : Holder(log[u], id)
               /\ \A q \in s .. p : log[q].by = "tool" /\ log[q].call = id =>
                     i < Len(out) /\ id \in Ids(out[i + 1], "result")
    <2>1. CASE OwnMessage(ms, out, e)
      <3>1. /\ Len(out) = L + 1 /\ \A j \in 1 .. L : out[j] = ms[j]
            /\ Ids(out[L + 1], "use") = CallIds(e)
            /\ Ids(out[L + 1], "result") = IF e.by = "tool" THEN {e.call} ELSE {}
        BY <2>1 DEF OwnMessage
      <3>2. CASE i = L + 1
        <4>1. Holder(e, id)
          BY <1>6, <3>1, <3>2 DEF CallIds, Holder
        <4>2. \A q \in s .. p : log[q].by = "tool" /\ log[q].call = id => FALSE
          BY <1>1, <1>3, <4>1 DEF Callers
        <4> QED
          BY <1>4, <4>1, <4>2
      <3>3. CASE i \in 1 .. L
        <4>1. id \in Ids(ms[i], "use")
          BY <1>6, <3>1, <3>3
        <4>2. \E u \in s .. p : Holder(log[u], id)
          BY <1>3, <1>4, <3>3, <4>1 DEF UsesAnswered
        <4>3. ASSUME NEW q \in s .. p, log[q].by = "tool", log[q].call = id
              PROVE  i < Len(out) /\ id \in Ids(out[i + 1], "result")
          <5>1. CASE q \in s .. p - 1
            <6>1. i < L /\ id \in Ids(ms[i + 1], "result")
              BY <1>3, <3>3, <4>1, <4>3, <5>1 DEF UsesAnswered
            <6>2. i + 1 \in 1 .. L /\ i < Len(out)
              BY <1>1, <3>1, <3>3, <6>1
            <6> QED
              BY <3>1, <6>1, <6>2
          <5>2. CASE q = p
            <6>1. e.by = "tool" /\ e.call = id
              BY <4>3, <5>2
            <6>2. i = Len(out) - 1
              BY <1>5, <3>3, <4>1, <6>1
            <6>3. i + 1 = L + 1 /\ i < Len(out)
              BY <1>1, <3>1, <6>2
            <6> QED
              BY <3>1, <6>1, <6>3
          <5> QED
            BY <1>1, <5>1, <5>2
        <4> QED
          BY <4>2, <4>3
      <3> QED
        BY <1>1, <3>1, <3>2, <3>3
    <2>2. CASE LastMessage(ms, out, e)
      <3>1. /\ Len(out) = L /\ \A j \in 1 .. L - 1 : out[j] = ms[j]
            /\ Ids(out[L], "use") = Ids(ms[L], "use")
            /\ Ids(out[L], "result") = Ids(ms[L], "result") \cup (IF e.by = "tool" THEN {e.call} ELSE {})
        BY <2>2 DEF LastMessage
      <3>2. i \in 1 .. L /\ (i = L \/ i \in 1 .. L - 1)
        BY <1>1, <3>1
      <3>3. id \in Ids(ms[i], "use")
        BY <1>6, <3>1, <3>2
      <3>4. \E u \in s .. p : Holder(log[u], id)
        BY <1>3, <1>4, <3>2, <3>3 DEF UsesAnswered
      <3>5. ASSUME NEW q \in s .. p, log[q].by = "tool", log[q].call = id
            PROVE  i < Len(out) /\ id \in Ids(out[i + 1], "result")
        <4>1. CASE q \in s .. p - 1
          <5>1. i < L /\ id \in Ids(ms[i + 1], "result")
            BY <1>3, <3>2, <3>3, <3>5, <4>1 DEF UsesAnswered
          <5>2. i + 1 = L \/ i + 1 \in 1 .. L - 1
            BY <1>1, <3>2, <5>1
          <5> QED
            BY <3>1, <5>1, <5>2
        <4>2. CASE q = p
          <5>1. e.by = "tool" /\ e.call = id
            BY <3>5, <4>2
          <5>2. i = Len(out) - 1
            BY <1>5, <3>2, <3>3, <5>1
          <5>3. i + 1 = L /\ i < Len(out)
            BY <1>1, <3>1, <5>2
          <5> QED
            BY <3>1, <5>1, <5>3
        <4> QED
          BY <1>1, <4>1, <4>2
      <3> QED
        BY <3>4, <3>5
    <2> QED
      BY <1>2, <2>1, <2>2
  <1> QED
    BY <1>6 DEF UsesAnswered

LEMMA ResultsStep ==
    ASSUME NEW s, NEW p, NEW ms, NEW out, Step(s, p, ms, out)
    PROVE  ResultsAnswer(s, p, out)
  <1> DEFINE L == Len(ms)
             e == log[p]
             Early(id) == \E u \in 1 .. s - 1 : Holder(log[u], id)
  <1>1. /\ L \in Nat /\ Len(out) \in Nat
        /\ s \in Nat \ {0} /\ p \in Nat \ {0} /\ s <= p
    BY StepTypes
  <1>2. OwnMessage(ms, out, e) \/ LastMessage(ms, out, e)
    BY DEF Step
  <1>3. ResultsAnswer(s, p - 1, ms)
    BY DEF Step, Merges
  <1>4. s .. p - 1 \subseteq s .. p /\ p \in s .. p
    BY <1>1
  <1>5. ASSUME NEW i \in 1 .. L, NEW id \in Ids(ms[i], "result")
        PROVE  /\ \E q \in s .. p : log[q].by = "tool" /\ log[q].call = id
               /\ i = 1 => Early(id)
               /\ i # 1 => id \in Ids(ms[i - 1], "use") /\ i - 1 \in 1 .. L - 1
    <2>1. i # 1 => i - 1 \in 1 .. L - 1
      BY <1>1
    <2> QED
      BY <1>3, <1>4, <2>1 DEF ResultsAnswer
  <1>6. ASSUME e.by = "tool"
        PROVE  \/ Early(e.call) /\ Len(out) = 1
               \/ /\ Len(out) # 1 /\ out[Len(out) - 1] = ms[Len(out) - 1]
                  /\ e.call \in Ids(ms[Len(out) - 1], "use")
    <2>1. \/ Early(e.call) /\ Len(out) = 1
          \/ /\ Len(out) > 1 /\ Len(out) - 1 \in 1 .. L
             /\ out[Len(out) - 1] = ms[Len(out) - 1]
             /\ e.call \in Ids(ms[Len(out) - 1], "use")
      BY <1>6, ResultPlace, Zenon
    <2> HIDE DEF Early
    <2>2. \A n \in Nat : n > 1 => n # 1
      OBVIOUS
    <2>3. Len(out) > 1 => Len(out) # 1
      BY <1>1, <2>2, Zenon
    <2> QED
      BY <2>1, <2>3, Zenon
  <1> HIDE DEF Early
  <1>7. ASSUME NEW i \in 1 .. Len(out), NEW id \in Ids(out[i], "result")
        PROVE  /\ \E q \in s .. p : log[q].by = "tool" /\ log[q].call = id
               /\ i = 1 => Early(id)
               /\ i # 1 => id \in Ids(out[i - 1], "use")
    <2>1. CASE OwnMessage(ms, out, e)
      <3>1. /\ Len(out) = L + 1 /\ \A j \in 1 .. L : out[j] = ms[j]
            /\ Ids(out[L + 1], "result") = IF e.by = "tool" THEN {e.call} ELSE {}
        BY <2>1 DEF OwnMessage
      <3>2. CASE i = L + 1
        <4>1. e.by = "tool" /\ id = e.call /\ i = Len(out)
          BY <1>7, <3>1, <3>2
        <4> QED
          BY <1>4, <1>6, <4>1
      <3>3. CASE i \in 1 .. L
        <4>1. id \in Ids(ms[i], "result")
          BY <1>7, <3>1, <3>3
        <4>2. \A j \in 1 .. L - 1 : j \in 1 .. L
          BY <1>1
        <4> QED
          BY <1>5, <3>1, <3>3, <4>1, <4>2
      <3> QED
        BY <1>1, <3>1, <3>2, <3>3
    <2>2. CASE LastMessage(ms, out, e)
      <3>1. /\ Len(out) = L /\ \A j \in 1 .. L - 1 : out[j] = ms[j]
            /\ Ids(out[L], "result") = Ids(ms[L], "result") \cup (IF e.by = "tool" THEN {e.call} ELSE {})
        BY <2>2 DEF LastMessage
      <3>2. i \in 1 .. L /\ (i = L \/ i \in 1 .. L - 1)
        BY <1>1, <3>1
      <3>3. CASE id \in Ids(ms[i], "result")
        BY <1>5, <3>1, <3>2, <3>3
      <3>4. CASE i = L /\ e.by = "tool" /\ id = e.call
        BY <1>4, <1>6, <3>1, <3>4
      <3> QED
        BY <1>7, <3>1, <3>2, <3>3, <3>4
    <2> QED
      BY <1>2, <2>1, <2>2
  <1> QED
    BY <1>7 DEF ResultsAnswer, Early

LEMMA OnceStep ==
    ASSUME NEW s, NEW p, NEW ms, NEW out, Step(s, p, ms, out)
    PROVE  UsesOnce(out) /\ \A i \in 1 .. Len(out) : Once(out[i])
  <1> DEFINE L == Len(ms)
             e == log[p]
  <1>1. /\ L \in Nat /\ s \in Nat \ {0} /\ p \in Nat \ {0} /\ s <= p /\ p \in 1 .. Len(log)
        /\ s .. p \subseteq 1 .. Len(log)
    BY StepTypes
  <1>2. OwnMessage(ms, out, e) \/ LastMessage(ms, out, e)
    BY DEF Step
  <1>3. /\ UsesAnswered(s, p - 1, ms) /\ UsesOnce(ms) /\ ResultsAnswer(s, p - 1, ms)
        /\ \A i \in 1 .. L : Once(ms[i])
        /\ Callers
    BY DEF Step, Merges
  <1>4. \A q \in s .. p - 1 : q \in 1 .. Len(log) /\ q # p
    BY <1>1
  <1>5. CASE OwnMessage(ms, out, e)
    <2>1. /\ Len(out) = L + 1 /\ \A j \in 1 .. L : out[j] = ms[j]
          /\ Ids(out[L + 1], "use") = CallIds(e) /\ Once(out[L + 1])
      BY <1>5 DEF OwnMessage
    <2>2. \A i \in 1 .. Len(out) : i \in 1 .. L \/ i = L + 1
      BY <1>1, <2>1
    <2>3. ASSUME NEW i \in 1 .. L, NEW id \in Ids(ms[i], "use"), id \in CallIds(e)
          PROVE  FALSE
      <3>1. PICK u \in s .. p - 1 : Holder(log[u], id)
        BY <1>3 DEF UsesAnswered
      <3>2. Holder(log[p], id)
        BY <2>3 DEF Holder, CallIds
      <3> QED
        BY <1>1, <1>3, <1>4, <3>1, <3>2 DEF Callers
    <2>4. UsesOnce(out)
      <3> SUFFICES ASSUME NEW i \in 1 .. Len(out), NEW j \in 1 .. Len(out), NEW id,
                          id \in Ids(out[i], "use"), id \in Ids(out[j], "use")
                   PROVE  i = j
        BY DEF UsesOnce
      <3>1. CASE i \in 1 .. L /\ j \in 1 .. L
        BY <1>3, <2>1, <3>1 DEF UsesOnce
      <3>2. CASE i \in 1 .. L /\ j = L + 1
        BY <2>1, <2>3, <3>2
      <3>3. CASE i = L + 1 /\ j \in 1 .. L
        BY <2>1, <2>3, <3>3
      <3> QED
        BY <2>2, <3>1, <3>2, <3>3
    <2> QED
      BY <1>3, <2>1, <2>2, <2>4
  <1>6. CASE LastMessage(ms, out, e)
    <2>1. /\ L # 0 /\ Len(out) = L /\ \A j \in 1 .. L - 1 : out[j] = ms[j]
          /\ Ids(out[L], "use") = Ids(ms[L], "use")
          /\ Once(ms[L]) /\ (e.by = "tool" => e.call \notin Ids(ms[L], "result")) => Once(out[L])
      BY <1>6 DEF LastMessage
    <2>2. L \in 1 .. L /\ \A i \in 1 .. L : i \in 1 .. L - 1 \/ i = L
      BY <1>1, <2>1
    <2>3. \A i \in 1 .. L : Ids(out[i], "use") = Ids(ms[i], "use")
      BY <2>1, <2>2
    <2>4. UsesOnce(out)
      BY <1>3, <2>1, <2>3 DEF UsesOnce
    <2>5. ASSUME e.by = "tool" PROVE e.call \notin Ids(ms[L], "result")
      <3> SUFFICES ASSUME e.call \in Ids(ms[L], "result") PROVE FALSE
        OBVIOUS
      <3>1. PICK q \in s .. p - 1 : log[q].by = "tool" /\ log[q].call = e.call
        BY <1>3, <2>2 DEF ResultsAnswer
      <3> QED
        BY <1>1, <1>3, <1>4, <2>5, <3>1 DEF Callers
    <2>6. \A i \in 1 .. L : Once(out[i])
      BY <1>3, <2>1, <2>2, <2>5
    <2> QED
      BY <2>1, <2>4, <2>6
  <1> QED
    BY <1>2, <1>5, <1>6

LEMMA BatchStep ==
    ASSUME NEW s, NEW p, NEW ms, NEW out, Step(s, p, ms, out)
    PROVE  InBatch(s, p, out)
  <1> DEFINE L == Len(ms)
             x == log[p]
             M == Len(out)
  <1>1. /\ L \in Nat /\ M \in Nat /\ s \in Nat \ {0} /\ p \in Nat \ {0} /\ s <= p
        /\ p \in 1 .. Len(log) /\ Len(log) \in Nat /\ p <= Len(log)
    BY StepTypes
  <1>2. OwnMessage(ms, out, x) \/ LastMessage(ms, out, x)
    BY DEF Step
  <1>3. /\ L # 0 /\ ms[L].role = "user"
        /\ x.by = "tool" \/ (x.by = "human" /\ Told(ms[L], x.text))
        => LastMessage(ms, out, x)
    BY DEF Step
  <1>4. OwnMessage(ms, out, x) =>
           /\ M = L + 1 /\ \A j \in 1 .. L : out[j] = ms[j]
           /\ Ids(out[L + 1], "use") = CallIds(x)
           /\ out[L + 1].role = IF x.by = "ai" THEN "assistant" ELSE "user"
    BY DEF OwnMessage
  <1>5. LastMessage(ms, out, x) =>
           /\ x.by # "ai" /\ L # 0 /\ ms[L].role = "user" /\ M = L
           /\ \A j \in 1 .. L - 1 : out[j] = ms[j]
           /\ out[L].role = "user"
    BY DEF LastMessage
  <1>6. /\ Callers /\ InBatch(s, p - 1, ms)
        /\ IF s <= p - 1 THEN L # 0 ELSE L = 0
        /\ s <= p - 1 /\ log[p - 1].by = "tool" => Told(ms[L], log[p - 1].text)
    BY DEF Step, Merges
  <1> HIDE DEF L, M, x
  <1>7. ASSUME NEW u \in 1 .. Len(log), NEW e \in 1 .. Len(log), Batch(log, u, e), p \in u .. e
        PROVE  /\ p = u => out[M].role = "assistant" /\ Ids(out[M], "use") = CallIds(log[u])
               /\ p # u => /\ out[M].role = "user"
                           /\ u < s => M = 1
                           /\ ~ (u < s) => M >= 2 /\ Ids(out[M - 1], "use") = CallIds(log[u])
    <2>1. log[u].calls # <<>> /\ log[u].by = "ai"
      BY <1>6, <1>7 DEF Batch, Callers
    <2>2. CASE p = u
      BY <1>2, <1>4, <1>5, <2>1, <2>2 DEF x
    <2>3. CASE p # u
      <3>1. /\ p \in u + 1 .. e /\ u <= p - 1 /\ u < p /\ p - 1 \in u .. e
            /\ (p - 1 # u => p - 1 \in u + 1 .. e)
        BY <1>1, <1>7, <2>3
      <3>2. Inside(log, u, p)
        BY <1>7, <3>1 DEF Batch
      <3>3. x.by # "ai"
        BY <3>2 DEF Inside, x
      <3>4. s <= p - 1 =>
              /\ p - 1 = u => ms[L].role = "assistant" /\ Ids(ms[L], "use") = CallIds(log[u])
              /\ p - 1 # u => /\ ms[L].role = "user"
                              /\ u < s => L = 1
                              /\ ~ (u < s) => L >= 2 /\ Ids(ms[L - 1], "use") = CallIds(log[u])
        BY <1>6, <1>7, <3>1 DEF InBatch, L
      <3>5. CASE ~ (s <= p - 1)
        <4>1. L = 0 /\ u < s
          BY <1>1, <1>6, <3>1, <3>5
        <4>2. M = 1 /\ out[1].role = "user"
          BY <1>2, <1>4, <1>5, <3>3, <4>1
        <4> QED
          BY <2>3, <4>1, <4>2
      <3>6. CASE s <= p - 1 /\ p - 1 = u
        <4>1. L # 0 /\ ms[L].role = "assistant" /\ Ids(ms[L], "use") = CallIds(log[u]) /\ ~ (u < s)
          BY <1>1, <1>6, <3>4, <3>6
        <4>2. M = L + 1 /\ (\A j \in 1 .. L : out[j] = ms[j]) /\ out[M].role = "user"
          BY <1>2, <1>4, <1>5, <3>3, <4>1
        <4>3. M - 1 = L /\ L \in 1 .. L /\ M >= 2
          BY <1>1, <4>1, <4>2
        <4> QED
          BY <2>3, <4>1, <4>2, <4>3
      <3>7. CASE s <= p - 1 /\ p - 1 # u
        <4>1. L # 0 /\ ms[L].role = "user"
          BY <1>6, <3>4, <3>7
        <4>2. LastMessage(ms, out, x)
          <5>1. CASE x.by = "tool"
            BY <1>3, <4>1, <5>1
          <5>2. CASE x.by = "human" /\ log[p - 1].by = "tool" /\ x.text = log[p - 1].text
            BY <1>3, <1>6, <3>7, <4>1, <5>2
          <5> QED
            BY <3>2, <5>1, <5>2 DEF Inside, x
        <4>3. M = L /\ (\A j \in 1 .. L - 1 : out[j] = ms[j]) /\ out[M].role = "user"
          BY <1>5, <4>2
        <4>4. L >= 2 => L - 1 \in 1 .. L - 1
          BY <1>1
        <4> QED
          BY <2>3, <3>4, <3>7, <4>3, <4>4
      <3> QED
        BY <3>5, <3>6, <3>7
    <2> QED
      BY <2>2, <2>3
  <1> QED
    BY <1>7 DEF InBatch, M

LEMMA MergesStep ==
    ASSUME NEW s, NEW p, NEW ms, NEW out, Step(s, p, ms, out)
    PROVE  Merges(s, p, out)
  <1>1. /\ Len(ms) \in Nat /\ s <= p
    BY StepTypes
  <1>2. out \in Seq(Message) /\ (OwnMessage(ms, out, log[p]) \/ LastMessage(ms, out, log[p]))
    BY DEF Step
  <1>3. Len(out) # 0
    BY <1>1, <1>2 DEF OwnMessage, LastMessage
  <1>4. log[p].by = "tool" => Told(out[Len(out)], log[p].text)
    BY <1>2 DEF OwnMessage, LastMessage
  <1> QED
    BY <1>1, <1>2, <1>3, <1>4, UsesStep, ResultsStep, OnceStep, BatchStep DEF Merges

(* The messages of a history.                                              *)
LEMMA HistoryMerges ==
    ASSUME SoundLog, Grammar, log # <<>>
    PROVE  Merges(HistoryStart, Len(log), Merged(History))
  <1> DEFINE s == HistoryStart
             N == Len(log)
             K == Len(History)
  <1>1. log \in Seq(Entry) /\ N \in Nat /\ Callers
    BY LenProperties, HistoryCallers DEF SoundLog, Sound
  <1>2. s \in Nat \ {0} /\ s <= N
    BY <1>1, StartFacts
  <1>3. /\ History \in Seq(Entry) /\ K = N - (s - 1)
        /\ \A n \in 1 .. K : History[n] = log[s + n - 1] /\ s + n - 1 \in 1 .. N
    BY <1>1, HistoryFacts
  <1> HIDE DEF s, N, K
  <1>4. PICK g : Merging(g, History)
    BY <1>3, MergingExists
  <1> DEFINE S == {n \in Nat : n <= K => Merges(s, s - 1 + n, g[n])}
  <1>5. 0 \in S
    <2>1. g[0] = <<>> /\ Len(<<>>) = 0 /\ <<>> \in Seq(Message)
      BY <1>4, EmptySeq DEF Merging
    <2>2. s - 1 + 0 = s - 1 /\ ~ (s <= s - 1)
      BY <1>2
    <2>3. Merges(s, s - 1, <<>>)
      <3>1. ~ (s <= s - 1) /\ 1 .. 0 = {}
        BY <2>2
      <3> QED
        BY <2>1, <3>1 DEF Merges, UsesAnswered, ResultsAnswer, UsesOnce, InBatch
    <2> QED
      BY <2>1, <2>2, <2>3
  <1>6. ASSUME NEW n \in S PROVE n + 1 \in S
    <2> SUFFICES ASSUME n + 1 <= K PROVE Merges(s, s - 1 + (n + 1), g[n + 1])
      OBVIOUS
    <2> DEFINE p == s + n
               e == History[n + 1]
               sent == SentBefore(History, n + 1)
    <2>1. n \in Nat /\ K \in Nat /\ n + 1 \in 1 .. K /\ n \in 0 .. K /\ (n + 1) - 1 = n /\ n <= K
      BY <1>1, <1>2, <1>3
    <2>2. Merges(s, s - 1 + n, g[n]) /\ s - 1 + n = p - 1 /\ s - 1 + (n + 1) = p
      BY <1>2, <1>6, <2>1
    <2>3. g[n] \in Seq(Message) /\ g[n + 1] = Appended(g[n], ClientMessage(e, sent))
      BY <1>4, <2>1 DEF Merging, K
    <2>4. e = log[p] /\ p \in 1 .. N /\ p \in s .. N /\ s \in 1 .. N
      <3>1. e = log[s + (n + 1) - 1] /\ s + (n + 1) - 1 \in 1 .. N
        BY <1>3, <2>1
      <3>2. s + (n + 1) - 1 = p
        BY <1>2, <2>1
      <3>3. p \in s .. N /\ s \in 1 .. N
        BY <1>1, <1>2, <1>3, <2>1
      <3> QED
        BY <3>1, <3>2, <3>3
    <2> HIDE DEF p, e, sent
    <2>5. e \in Entry /\ Source(e)
      <3>1. Sound(log) /\ log[p] \in Entry
        BY <1>1, <2>4, ElementOfSeq DEF SoundLog, N
      <3> QED
        BY <2>4, <3>1 DEF Sound, N
    <2> DEFINE ms == g[n]
               out == Appended(ms, ClientMessage(e, sent))
    <2>6. /\ out \in Seq(Message)
          /\ OwnMessage(ms, out, e) \/ LastMessage(ms, out, e)
          /\ /\ Len(ms) # 0 /\ ms[Len(ms)].role = "user"
             /\ e.by = "tool" \/ (e.by = "human" /\ Told(ms[Len(ms)], e.text))
             => LastMessage(ms, out, e)
      BY <2>3, <2>5, Put
    <2> HIDE DEF ms, out
    <2>7. Step(s, p, ms, out)
      BY <1>1, <2>2, <2>4, <2>6 DEF Step, ms, N
    <2>8. Merges(s, p, out)
      BY <2>7, MergesStep
    <2> QED
      BY <2>2, <2>3, <2>8 DEF ms, out
  <1> HIDE DEF S
  <1>7. S = Nat
    <2>1. S \in SUBSET Nat
      BY DEF S
    <2> QED
      BY <1>5, <1>6, <2>1, FromZero
  <1>8. K \in Nat /\ K <= K /\ s - 1 + K = N
    BY <1>1, <1>2, <1>3
  <1>9. Merges(s, N, g[K])
    BY <1>7, <1>8 DEF S
  <1>10. g[K] = Merged(History)
    BY <1>4 DEF Merging, K
  <1> QED
    BY <1>9, <1>10 DEF s, N

-----------------------------------------------------------------------------
(* Where the history begins *)

LEMMA CompactedFacts ==
    ASSUME log \in Seq(Entry), Callers
    PROVE  LET s == CompactedStart(log)
               h == Max(Humans(log))
           IN  \/ s = 1 /\ \A j \in Humans(log) : j = 1
               \/ /\ h \in Humans(log) /\ \A j \in Humans(log) : j <= h
                  /\ h - 1 \in 1 .. Len(log)
                  /\ \/ s \in 1 .. h - 2 /\ log[h - 1].by = "tool" /\ Holder(log[s], log[h - 1].call)
                     \/ s = h - 1 /\ log[s].by = "ai"
                     \/ s = h /\ log[h - 1].by # "tool"
  <1> DEFINE H == Humans(log)
             top == Max(H)
             h == IF H = {} THEN 1 ELSE top
             s == CompactedStart(log)
             use == MatchingUse(log, log[h - 1].call, h - 1)
  <1>1. /\ H \in SUBSET (1 .. Len(log)) /\ Len(log) \in Nat
        /\ H # {} => top \in H /\ \A j \in H : j <= top
    BY HumansFacts
  <1>2. s = IF h = 1 THEN 1
            ELSE IF log[h - 1].by = "tool" THEN use
            ELSE IF log[h - 1].by = "ai" /\ log[h - 1].calls = <<>> THEN h - 1
            ELSE h
    BY DEF CompactedStart
  <1> HIDE DEF s
  <1>3. CASE h = 1
    <2>1. H # {} => top = 1
      BY <1>3
    <2>2. \A j \in H : j = 1
      BY <1>1, <2>1
    <2> QED
      BY <1>2, <1>3, <2>2 DEF s
  <1>4. CASE h # 1
    <2>1. H # {} /\ h = top
      BY <1>4
    <2> HIDE DEF h
    <2>2. h \in H /\ (\A j \in H : j <= h) /\ h - 1 \in 1 .. Len(log) /\ h \in Nat
      BY <1>1, <1>4, <2>1
    <2>3. CASE log[h - 1].by = "tool"
      <3>1. s = use
        BY <1>2, <1>4, <2>3
      <3>2. PICK u \in 1 .. Len(log) : Holder(log[u], log[h - 1].call)
        BY <2>2, <2>3 DEF Callers
      <3>3. u < h - 1
        BY <2>2, <2>3, <3>2 DEF Callers
      <3>4. u \in 1 .. (h - 1) - 1
        BY <2>2, <3>2, <3>3
      <3>5. log[u].calls \in Seq(Call)
        <4>1. log[u] \in Entry
          BY <3>2, ElementOfSeq
        <4> QED
          BY <4>1 DEF Entry
      <3>6. \E k \in DOMAIN log[u].calls : log[u].calls[k].id = log[h - 1].call
        BY <3>2, <3>5 DEF Holder
      <3>7. /\ use \in 1 .. h - 1 /\ use < h - 1
            /\ \E k \in DOMAIN log[use].calls : log[use].calls[k].id = log[h - 1].call
        BY <2>2, <3>4, <3>6, MatchingFacts, Zenon
      <3> HIDE DEF use
      <3>8. use \in 1 .. h - 2 /\ use \in 1 .. Len(log)
        BY <1>1, <2>2, <3>7
      <3>9. log[use].calls \in Seq(Call)
        <4>1. log[use] \in Entry
          BY <3>8, ElementOfSeq
        <4> QED
          BY <4>1 DEF Entry
      <3>10. Holder(log[use], log[h - 1].call)
        BY <3>7, <3>9 DEF Holder
      <3> QED
        BY <2>1, <2>2, <2>3, <3>1, <3>8, <3>10 DEF s
    <2>4. CASE log[h - 1].by = "ai" /\ log[h - 1].calls = <<>>
      <3>1. s = h - 1
        BY <1>2, <1>4, <2>4
      <3> QED
        BY <2>1, <2>2, <2>4, <3>1 DEF s
    <2>5. CASE log[h - 1].by # "tool" /\ ~ (log[h - 1].by = "ai" /\ log[h - 1].calls = <<>>)
      <3>1. s = h
        BY <1>2, <1>4, <2>5
      <3> QED
        BY <2>1, <2>2, <2>5, <3>1 DEF s
    <2> QED
      BY <2>3, <2>4, <2>5
  <1> QED
    BY <1>3, <1>4

(* A result whose call is before the history is at the cut.                *)
LEMMA EarlyIsCutOff ==
    ASSUME SoundLog, Grammar, NEW u \in 1 .. HistoryStart - 1, NEW q \in HistoryStart .. Len(log),
           log[q].by = "tool", Holder(log[u], log[q].call)
    PROVE  log[q].call \in CutOff
  <1> DEFINE s == HistoryStart
             N == Len(log)
  <1>1. log \in Seq(Entry) /\ N \in Nat /\ Callers
    BY LenProperties, HistoryCallers DEF SoundLog, Sound
  <1>2. s \in Nat \ {0} /\ u \in 1 .. N /\ q \in 1 .. N /\ u < s /\ s <= q /\ s > 1
    BY <1>1, StartFacts
  <1>3. PICK e \in 1 .. N : Batch(log, u, e) /\ q \in u + 1 .. e
    <2>1. PICK v \in 1 .. N : \E e \in 1 .. N :
             Batch(log, v, e) /\ q \in v + 1 .. e /\ Holder(log[v], log[q].call)
      BY <1>1, <1>2 DEF Callers
    <2>2. v = u
      BY <1>1, <1>2, <2>1 DEF Callers
    <2> QED
      BY <2>1, <2>2
  <1>4. s \in u + 1 .. e /\ \A k \in s + 1 .. q : k \in u + 1 .. e /\ k # s
    BY <1>2, <1>3
  <1>5. Inside(log, u, s)
    BY <1>3, <1>4 DEF Batch
  <1>6. ASSUME ~summary PROVE \A k \in s + 1 .. q : log[k].by = "tool"
    <2>1. s = BoundedStart(log)
      BY <1>6 DEF HistoryStart
    <2>2. s \in Humans(log)
      <3>1. BoundedStart(log) = 1 \/ BoundedStart(log) \in Humans(log)
        BY <1>1, BoundedFacts, Zenon
      <3>2. s # 1
        BY <1>2
      <3> QED
        BY <2>1, <3>1, <3>2
    <2>3. log[s].by = "human"
      BY <2>2 DEF Humans, IsHuman
    <2> SUFFICES ASSUME NEW k \in s + 1 .. q PROVE log[k].by = "tool"
      OBVIOUS
    <2>4. Inside(log, u, k) /\ (log[k].by = "human" => k = s)
      BY <1>3, <1>4, <2>3 DEF Batch
    <2> QED
      BY <1>4, <2>4 DEF Inside
  <1>7. ASSUME summary PROVE FALSE
    <2>1. s = CompactedStart(log)
      BY <1>7 DEF HistoryStart
    <2> DEFINE h == Max(Humans(log))
    <2>2. \/ Holder(log[s], log[h - 1].call) \/ log[s].by = "ai"
          \/ s = h /\ log[h - 1].by # "tool"
      BY <1>1, <1>2, <2>1, CompactedFacts
    <2>3. CASE Holder(log[s], log[h - 1].call)
      <3>1. log[s].calls # <<>>
        <4>1. Len(<<>>) = 0 /\ 1 .. 0 = {}
          OBVIOUS
        <4> QED
          BY <2>3, <4>1 DEF Holder
      <3>2. s \in 1 .. N
        BY <1>1, <1>2
      <3>3. log[s].by = "ai"
        BY <1>1, <3>1, <3>2 DEF Callers
      <3> QED
        BY <1>5, <3>3 DEF Inside
    <2>4. CASE log[s].by = "ai"
      BY <1>5, <2>4 DEF Inside
    <2>5. CASE s = h /\ log[h - 1].by # "tool" /\ log[s].by # "ai"
      <3>1. log[s - 1].by # "tool"
        BY <2>5
      <3>2. log[s].by = "tool"
        BY <1>5, <3>1 DEF Inside
      <3>3. h \in Humans(log)
        BY <1>1, <1>2, <2>1, CompactedFacts
      <3> QED
        BY <2>5, <3>2, <3>3 DEF Humans, IsHuman
    <2> QED
      BY <2>2, <2>3, <2>4, <2>5
  <1> QED
    BY <1>2, <1>6, <1>7 DEF CutOff

(* At most two, or those of a part.                                        *)
LEMMA FewLeft ==
    ASSUME NEW T, NEW x, NEW y, T \subseteq {x, y}
    PROVE  IsFiniteSet(T) /\ Cardinality(T) <= 2
  <1>1. IsFiniteSet({y}) /\ Cardinality({y}) = 1
    BY FS_Singleton
  <1>2. IsFiniteSet({y} \cup {x}) /\ Cardinality({y} \cup {x}) <= 2
    BY <1>1, FS_AddElement
  <1>3. {y} \cup {x} = {x, y}
    OBVIOUS
  <1>4. IsFiniteSet(T) /\ Cardinality(T) <= Cardinality({x, y})
    BY <1>2, <1>3, FS_Subset
  <1>5. Cardinality({x, y}) \in Nat /\ Cardinality(T) \in Nat
    BY <1>2, <1>3, <1>4, FS_CardinalityType
  <1> QED
    BY <1>2, <1>3, <1>4, <1>5

(* Few turns of the human follow a call that is sent.                      *)
LEMMA FewLater ==
    ASSUME SoundLog, Grammar, NEW u \in HistoryStart .. Len(log)
    PROVE  Cardinality({j \in Humans(log) : j > u}) <= SummaryEvery
  <1> DEFINE s == HistoryStart
             N == Len(log)
             H == Humans(log)
             later == {j \in H : j > u}
             h == Max(H)
  <1>1. log \in Seq(Entry) /\ N \in Nat /\ Callers
    BY LenProperties, HistoryCallers DEF SoundLog, Sound
  <1>2. s \in Nat \ {0} /\ u \in 1 .. N /\ s <= u
    BY <1>1, StartFacts
  <1>3. H \in SUBSET (1 .. N) /\ IsFiniteSet(H) /\ Cardinality(H) \in Nat
    BY <1>1, HumansFacts
  <1>4. SummaryEvery \in Nat /\ 2 <= SummaryEvery
    BY ThreadConstants
  <1>5. IsFiniteSet(later) /\ Cardinality(later) \in Nat /\ Cardinality(later) <= Cardinality(H)
    BY <1>3, FS_Subset, FS_CardinalityType
  <1>6. CASE ~summary
    <2>1. s = BoundedStart(log)
      BY <1>6 DEF HistoryStart
    <2>2. CASE Cardinality(H) <= SummaryEvery
      BY <1>3, <1>4, <1>5, <2>2
    <2>3. CASE Cardinality({j \in H : j >= s}) = SummaryEvery
      <3> DEFINE kept == {j \in H : j >= s}
      <3>1. later \subseteq kept /\ kept \subseteq H
        BY <1>2, <1>3
      <3>2. IsFiniteSet(kept)
        BY <1>3, <3>1, FS_Subset
      <3>3. Cardinality(later) <= Cardinality(kept)
        BY <3>1, <3>2, FS_Subset
      <3> QED
        BY <2>3, <3>3
    <2> QED
      BY <1>1, <2>1, <2>2, <2>3, BoundedFacts
  <1>7. ASSUME summary PROVE \E x, y : later \subseteq {x, y}
    <2>1. s = CompactedStart(log)
      BY <1>7 DEF HistoryStart
    <2>2. CASE \A j \in H : j = 1
      <3>1. later = {}
        BY <1>2, <1>3, <2>2
      <3> QED
        BY <3>1
    <2>3. CASE /\ h \in H /\ \A j \in H : j <= h
               /\ s \in 1 .. h - 2 /\ log[h - 1].by = "tool" /\ Holder(log[s], log[h - 1].call)
      <3> HIDE DEF h
      <3>1. h - 1 \in 1 .. N /\ s \in 1 .. N /\ h \in 1 .. N
        BY <1>1, <1>2, <1>3, <2>3
      <3>2. PICK e \in 1 .. N : Batch(log, s, e) /\ h - 1 \in s + 1 .. e
        <4>1. PICK v \in 1 .. N : \E e \in 1 .. N :
                 Batch(log, v, e) /\ h - 1 \in v + 1 .. e /\ Holder(log[v], log[h - 1].call)
          BY <1>1, <2>3, <3>1 DEF Callers
        <4>2. v = s
          BY <1>1, <2>3, <3>1, <4>1 DEF Callers
        <4> QED
          BY <4>1, <4>2
      <3>3. \A j \in later : j = h \/ (j \in s + 1 .. e /\ log[j].by = "human")
        <4> TAKE j \in later
        <4>1. log[j].by = "human"
          BY DEF Humans, IsHuman
        <4>2. j \in H /\ j > u /\ j \in 1 .. N /\ j <= h
          BY <1>3, <2>3
        <4>3. j = h \/ j \in s + 1 .. e
          BY <1>2, <3>1, <3>2, <4>2
        <4> QED
          BY <4>1, <4>3
      <3>4. \A p, q \in s + 1 .. e : log[p].by = "human" /\ log[q].by = "human" => p = q
        BY <3>2 DEF Batch
      <3> HIDE DEF later
      <3>5. CASE later \subseteq {h}
        BY <3>5
      <3>6. CASE ~ (later \subseteq {h})
        <4>1. PICK x \in later : x # h
          BY <3>6
        <4>2. later \subseteq {x, h}
          BY <3>3, <3>4, <4>1
        <4> QED
          BY <4>2
      <3> QED
        BY <3>5, <3>6
    <2>4. CASE h \in H /\ (\A j \in H : j <= h) /\ (s = h - 1 \/ s = h)
      <3> HIDE DEF h
      <3>1. later \subseteq {h}
        BY <1>2, <1>3, <2>4
      <3> QED
        BY <3>1
    <2>5. \/ \A j \in H : j = 1
          \/ /\ h \in H /\ \A j \in H : j <= h
             /\ s \in 1 .. h - 2 /\ log[h - 1].by = "tool" /\ Holder(log[s], log[h - 1].call)
          \/ h \in H /\ (\A j \in H : j <= h) /\ (s = h - 1 \/ s = h)
      BY <1>1, <2>1, CompactedFacts, Zenon
    <2> QED
      BY <2>2, <2>3, <2>4, <2>5
  <1>8. CASE summary
    <2>1. Cardinality(later) <= 2
      BY <1>7, <1>8, FewLeft
    <2> QED
      BY <1>4, <1>5, <2>1
  <1> QED
    BY <1>6, <1>8

(* A call that is sent without its result was torn not long ago.           *)
LEMMA OpenIsTorn ==
    ASSUME SoundLog, Grammar, stage = "analyze",
           NEW u \in HistoryStart .. Len(log), NEW id, Holder(log[u], id),
           ~ \E q \in HistoryStart .. Len(log) : log[q].by = "tool" /\ log[q].call = id
    PROVE  id[1] \in RecentlyTorn
  <1> DEFINE N == Len(log)
  <1>1. log \in Seq(Entry) /\ N \in Nat /\ DOMAIN log = 1 .. N
    BY LenProperties DEF SoundLog, Sound
  <1>2. HistoryStart \in Nat \ {0} /\ u \in 1 .. N /\ HistoryStart <= u
    BY <1>1, StartFacts
  <1>3. PICK k \in 1 .. Len(log[u].calls) : log[u].calls[k].id = id
    BY DEF Holder
  <1>4. log[u].calls \in Seq(Call)
    <2>1. log[u] \in Entry
      BY <1>1, <1>2, ElementOfSeq
    <2> QED
      BY <2>1 DEF Entry
  <1>5. log[u].calls # <<>> /\ k \in DOMAIN log[u].calls
    <2>1. Len(<<>>) = 0 /\ 1 .. 0 = {}
      OBVIOUS
    <2> QED
      BY <1>3, <1>4, <2>1
  <1>6. OneTurn(log[u], answers)
    BY <1>2, <1>5 DEF Grammar, Numbered
  <1>7. id[1] = Turn(log[u])
    BY <1>3, <1>6 DEF OneTurn
  <1>8. Kept(log, u, torn)
    BY <1>2, <1>5 DEF Grammar
  <1>9. ~ \E e \in u .. N : Batch(log, u, e)
    <2> SUFFICES ASSUME NEW e \in u .. N, Batch(log, u, e) PROVE FALSE
      OBVIOUS
    <2>1. PICK p \in u + 1 .. e : log[p].by = "tool" /\ log[p].call = id
      BY <1>3 DEF Batch
    <2>2. p \in HistoryStart .. N
      BY <1>1, <1>2, <2>1
    <2> QED
      BY <2>1, <2>2
  <1>10. id[1] \in torn
    BY <1>7, <1>8, <1>9 DEF Kept
  <1>11. Cardinality({j \in Humans(log) : j > u}) <= SummaryEvery
    BY FewLater
  <1> QED
    BY <1>1, <1>2, <1>3, <1>5, <1>10, <1>11 DEF RecentlyTorn

-----------------------------------------------------------------------------
(* The thread, whose last messages are texts *)

LEMMA IdsFacts ==
    ASSUME NEW m \in Message
    PROVE  /\ m.blocks \in Seq(Block) /\ Len(m.blocks) \in Nat
           /\ DOMAIN m.blocks = 1 .. Len(m.blocks)
           /\ \A k \in 1 .. Len(m.blocks) : m.blocks[k] \in Block
           /\ \A type : \A id : id \in Ids(m, type) <=>
                 \E k \in 1 .. Len(m.blocks) : m.blocks[k].type = type /\ m.blocks[k].call = id
  <1>1. m.blocks \in Seq(Block)
    BY DEF Message
  <1>2. DOMAIN m.blocks = 1 .. Len(m.blocks) /\ Len(m.blocks) \in Nat
    BY <1>1, LenProperties
  <1>3. \A k \in 1 .. Len(m.blocks) : m.blocks[k] \in Block
    BY <1>1, ElementOfSeq
  <1>4. \A type : \A id : id \in Ids(m, type) <=>
           \E k \in 1 .. Len(m.blocks) : m.blocks[k].type = type /\ m.blocks[k].call = id
    BY <1>2 DEF Ids
  <1> QED
    BY <1>1, <1>2, <1>3, <1>4

LEMMA TailedIds ==
    ASSUME NEW ms \in Seq(Message), NEW out, Tailed(ms, out),
           \A i \in 1 .. Len(ms) : Once(ms[i])
    PROVE  /\ Len(ms) \in Nat /\ Len(out) \in Nat /\ Len(ms) <= Len(out)
           /\ DOMAIN out = 1 .. Len(out) /\ \A i \in 1 .. Len(out) : out[i] \in Message
           /\ \A type : type # "text" =>
                 /\ \A i \in 1 .. Len(ms) : Ids(out[i], type) = Ids(ms[i], type)
                 /\ \A i \in 1 .. Len(out) : i \in 1 .. Len(ms) \/ Ids(out[i], type) = {}
           /\ \A i \in 1 .. Len(out) : Once(out[i])
  <1>1. /\ out \in Seq(Message) /\ Len(ms) <= Len(out)
        /\ Len(ms) \in Nat /\ Len(out) \in Nat /\ DOMAIN out = 1 .. Len(out)
    BY LenProperties DEF Tailed
  <1>2. \A i \in 1 .. Len(out) : out[i] \in Message
    BY <1>1, ElementOfSeq
  <1>3. \A i \in 1 .. Len(ms) : ms[i] \in Message /\ i \in 1 .. Len(out)
    BY <1>1, ElementOfSeq
  <1>4. /\ \A i \in 1 .. Len(ms) :
              /\ Len(ms[i].blocks) <= Len(out[i].blocks)
              /\ \A k \in 1 .. Len(ms[i].blocks) : out[i].blocks[k] = ms[i].blocks[k]
        /\ \A i \in 1 .. Len(out) : \A k \in 1 .. Len(out[i].blocks) :
              \/ out[i].blocks[k].type = "text"
              \/ i <= Len(ms) /\ k <= Len(ms[i].blocks)
    BY DEF Tailed
  <1>5. ASSUME NEW i \in 1 .. Len(out), NEW k \in 1 .. Len(out[i].blocks),
               out[i].blocks[k].type # "text"
        PROVE  /\ i \in 1 .. Len(ms) /\ k \in 1 .. Len(ms[i].blocks)
               /\ out[i].blocks[k] = ms[i].blocks[k]
    <2>1. i <= Len(ms) /\ k <= Len(ms[i].blocks)
      BY <1>4, <1>5
    <2>2. i \in 1 .. Len(ms)
      BY <1>1, <2>1
    <2>3. Len(ms[i].blocks) \in Nat
      BY <1>3, <2>2, IdsFacts
    <2>4. k \in 1 .. Len(ms[i].blocks)
      BY <2>1, <2>3
    <2> QED
      BY <1>4, <2>2, <2>4
  <1>6. ASSUME NEW i \in 1 .. Len(ms), NEW k \in 1 .. Len(ms[i].blocks)
        PROVE  k \in 1 .. Len(out[i].blocks) /\ out[i].blocks[k] = ms[i].blocks[k]
    <2>1. Len(ms[i].blocks) \in Nat /\ Len(out[i].blocks) \in Nat
      BY <1>2, <1>3, IdsFacts
    <2> QED
      BY <1>4, <2>1
  <1>7. ASSUME NEW type, type # "text"
        PROVE  /\ \A i \in 1 .. Len(ms) : Ids(out[i], type) = Ids(ms[i], type)
               /\ \A i \in 1 .. Len(out) : i \in 1 .. Len(ms) \/ Ids(out[i], type) = {}
    <2>1. ASSUME NEW i \in 1 .. Len(out), NEW id \in Ids(out[i], type)
          PROVE  i \in 1 .. Len(ms) /\ id \in Ids(ms[i], type)
      <3>1. PICK k \in 1 .. Len(out[i].blocks) :
               out[i].blocks[k].type = type /\ out[i].blocks[k].call = id
        <4>1. out[i] \in Message
          BY <1>2
        <4>2. \A t : \A x : x \in Ids(out[i], t) <=>
                 \E k \in 1 .. Len(out[i].blocks) :
                    out[i].blocks[k].type = t /\ out[i].blocks[k].call = x
          BY <4>1, IdsFacts
        <4> QED
          BY <2>1, <4>2
      <3>2. i \in 1 .. Len(ms) /\ k \in 1 .. Len(ms[i].blocks) /\ out[i].blocks[k] = ms[i].blocks[k]
        BY <1>5, <1>7, <3>1
      <3> QED
        BY <1>3, <3>1, <3>2, IdsFacts
    <2>2. ASSUME NEW i \in 1 .. Len(ms), NEW id \in Ids(ms[i], type)
          PROVE  id \in Ids(out[i], type)
      <3>1. PICK k \in 1 .. Len(ms[i].blocks) :
               ms[i].blocks[k].type = type /\ ms[i].blocks[k].call = id
        BY <1>3, <2>2, IdsFacts
      <3>2. k \in 1 .. Len(out[i].blocks) /\ out[i].blocks[k] = ms[i].blocks[k]
        BY <1>6
      <3> QED
        BY <1>2, <1>3, <3>1, <3>2, IdsFacts
    <2> QED
      BY <1>3, <2>1, <2>2
  <1>8. ASSUME NEW i \in 1 .. Len(out) PROVE Once(out[i])
    <2> SUFFICES ASSUME NEW j \in 1 .. Len(out[i].blocks), NEW k \in 1 .. Len(out[i].blocks),
                        out[i].blocks[j].type = "result", out[i].blocks[k].type = "result",
                        out[i].blocks[j].call = out[i].blocks[k].call
                 PROVE  j = k
      <3>1. DOMAIN out[i].blocks = 1 .. Len(out[i].blocks)
        BY <1>2, IdsFacts
      <3> QED
        BY <3>1 DEF Once
    <2>1. /\ i \in 1 .. Len(ms) /\ j \in 1 .. Len(ms[i].blocks) /\ k \in 1 .. Len(ms[i].blocks)
          /\ out[i].blocks[j] = ms[i].blocks[j] /\ out[i].blocks[k] = ms[i].blocks[k]
      BY <1>5
    <2>2. DOMAIN ms[i].blocks = 1 .. Len(ms[i].blocks)
      BY <1>3, <2>1, IdsFacts
    <2>3. Once(ms[i])
      BY <2>1
    <2> QED
      BY <2>1, <2>2, <2>3 DEF Once
  <1> QED
    BY <1>1, <1>2, <1>7, <1>8

(* The messages of any history, the empty one too.                         *)
LEMMA WholeMerges ==
    ASSUME SoundLog, Grammar
    PROVE  LET ms == Merged(History)
           IN  /\ ms \in Seq(Message) /\ Tailed(ms, Thread)
               /\ UsesAnswered(HistoryStart, Len(log), ms) /\ ResultsAnswer(HistoryStart, Len(log), ms)
               /\ UsesOnce(ms) /\ \A i \in 1 .. Len(ms) : Once(ms[i])
  <1> DEFINE ms == Merged(History)
  <1>1. log \in Seq(Entry)
    BY DEF SoundLog, Sound
  <1>2. PICK g : /\ Merging(g, History) /\ ms = g[Len(History)]
                 /\ ms \in Seq(Message) /\ Tailed(ms, Thread)
    BY <1>1, ThreadFacts
  <1>3. CASE log # <<>>
    BY <1>2, <1>3, HistoryMerges DEF Merges
  <1>4. CASE log = <<>>
    <2>1. Len(log) = 0
      BY <1>4
    <2>2. Len(History) = 0
      <3>1. Len(History) = Len(log) - (HistoryStart - 1) \/ History = <<>>
        BY <1>1, HistoryFacts
      <3>2. HistoryStart \in Nat \ {0} /\ Len(History) \in Nat
        BY <1>1, StartFacts, HistoryFacts, LenProperties
      <3>3. CASE History = <<>>
        BY <3>3
      <3>4. CASE Len(History) = Len(log) - (HistoryStart - 1)
        BY <2>1, <3>2, <3>4
      <3> QED
        BY <3>1, <3>3, <3>4
    <2>3. ms = <<>>
      BY <1>2, <2>2 DEF Merging
    <2>4. Len(<<>>) = 0 /\ 1 .. 0 = {}
      OBVIOUS
    <2> QED
      BY <1>2, <2>3, <2>4 DEF UsesAnswered, ResultsAnswer, UsesOnce
  <1> QED
    BY <1>3, <1>4

LEMMA ThreadPaired ==
    ASSUME SoundLog, Grammar, stage = "analyze"
    PROVE  Paired(Thread)
  <1> DEFINE ms == Merged(History)
             s == HistoryStart
             N == Len(log)
  <1>1. /\ ms \in Seq(Message) /\ Tailed(ms, Thread)
        /\ UsesAnswered(s, N, ms) /\ ResultsAnswer(s, N, ms)
        /\ UsesOnce(ms) /\ \A i \in 1 .. Len(ms) : Once(ms[i])
    BY WholeMerges
  <1> HIDE DEF ms
  <1>2. /\ Len(ms) \in Nat /\ Len(Thread) \in Nat /\ Len(ms) <= Len(Thread)
        /\ DOMAIN Thread = 1 .. Len(Thread) /\ \A i \in 1 .. Len(Thread) : Once(Thread[i])
        /\ \A type : type # "text" =>
              /\ \A i \in 1 .. Len(ms) : Ids(Thread[i], type) = Ids(ms[i], type)
              /\ \A i \in 1 .. Len(Thread) : i \in 1 .. Len(ms) \/ Ids(Thread[i], type) = {}
    BY <1>1, TailedIds
  <1>3. ASSUME NEW i \in 1 .. Len(Thread), NEW id \in Ids(Thread[i], "use")
        PROVE  \/ i < Len(Thread) /\ id \in Ids(Thread[i + 1], "result")
               \/ id[1] \in RecentlyTorn
    <2>1. i \in 1 .. Len(ms) /\ id \in Ids(ms[i], "use")
      BY <1>2, <1>3
    <2>2. /\ \E u \in s .. N : Holder(log[u], id)
          /\ \A q \in s .. N : log[q].by = "tool" /\ log[q].call = id =>
                i < Len(ms) /\ id \in Ids(ms[i + 1], "result")
      BY <1>1, <2>1 DEF UsesAnswered
    <2>3. CASE \E q \in s .. N : log[q].by = "tool" /\ log[q].call = id
      <3>1. i < Len(ms) /\ id \in Ids(ms[i + 1], "result")
        BY <2>2, <2>3
      <3>2. i + 1 \in 1 .. Len(ms) /\ i < Len(Thread)
        BY <1>2, <2>1, <3>1
      <3> QED
        BY <1>2, <3>1, <3>2
    <2>4. CASE ~ \E q \in s .. N : log[q].by = "tool" /\ log[q].call = id
      BY <2>2, <2>4, OpenIsTorn
    <2> QED
      BY <2>3, <2>4
  <1>4. ASSUME NEW i \in 1 .. Len(Thread), NEW id \in Ids(Thread[i], "result")
        PROVE  \/ i = 1 /\ id \in CutOff
               \/ i > 1 /\ id \in Ids(Thread[i - 1], "use")
    <2>1. i \in 1 .. Len(ms) /\ id \in Ids(ms[i], "result")
      BY <1>2, <1>4
    <2>2. /\ \E q \in s .. N : log[q].by = "tool" /\ log[q].call = id
          /\ i = 1 => \E u \in 1 .. s - 1 : Holder(log[u], id)
          /\ i # 1 => id \in Ids(ms[i - 1], "use")
      BY <1>1, <2>1 DEF ResultsAnswer
    <2>3. CASE i = 1
      BY <2>2, <2>3, EarlyIsCutOff
    <2>4. CASE i # 1
      <3>1. i > 1 /\ i - 1 \in 1 .. Len(ms)
        BY <1>2, <2>1, <2>4
      <3> QED
        BY <1>2, <2>2, <2>4, <3>1
    <2> QED
      BY <2>3, <2>4
  <1>5. ASSUME NEW i \in DOMAIN Thread
        PROVE  /\ Ids(Thread[i], "use") \subseteq
                    (IF i < Len(Thread) THEN Ids(Thread[i + 1], "result") ELSE {})
                    \cup {id \in Ids(Thread[i], "use") : id[1] \in RecentlyTorn}
               /\ Ids(Thread[i], "result") \ (IF i = 1 THEN CutOff ELSE {}) \subseteq
                    (IF i > 1 THEN Ids(Thread[i - 1], "use") ELSE {})
               /\ Once(Thread[i])
    BY <1>2, <1>3, <1>4
  <1> QED
    BY <1>5 DEF Paired, Once

(* What is paired depends on the ids only.                                 *)
LEMMA PairedAlike ==
    ASSUME NEW ms, NEW out, Paired(ms), DOMAIN out = DOMAIN ms, Len(out) = Len(ms),
           \A i \in DOMAIN ms : i < Len(ms) => i + 1 \in DOMAIN ms,
           \A i \in DOMAIN ms : i > 1 => i - 1 \in DOMAIN ms,
           \A i \in DOMAIN ms :
              /\ Ids(out[i], "use") = Ids(ms[i], "use")
              /\ Ids(out[i], "result") = Ids(ms[i], "result")
              /\ Once(ms[i]) => Once(out[i])
    PROVE  Paired(out)
  <1> SUFFICES ASSUME NEW i \in DOMAIN ms
               PROVE  /\ Ids(out[i], "use") \subseteq
                            (IF i < Len(out) THEN Ids(out[i + 1], "result") ELSE {})
                            \cup {id \in Ids(out[i], "use") : id[1] \in RecentlyTorn}
                      /\ Ids(out[i], "result") \ (IF i = 1 THEN CutOff ELSE {}) \subseteq
                            (IF i > 1 THEN Ids(out[i - 1], "use") ELSE {})
                      /\ Once(out[i])
    BY DEF Paired, Once
  <1>1. /\ Ids(ms[i], "use") \subseteq
              (IF i < Len(ms) THEN Ids(ms[i + 1], "result") ELSE {})
              \cup {id \in Ids(ms[i], "use") : id[1] \in RecentlyTorn}
        /\ Ids(ms[i], "result") \ (IF i = 1 THEN CutOff ELSE {}) \subseteq
              (IF i > 1 THEN Ids(ms[i - 1], "use") ELSE {})
        /\ Once(ms[i])
    BY DEF Paired, Once
  <1>2. i < Len(ms) => Ids(out[i + 1], "result") = Ids(ms[i + 1], "result")
    OBVIOUS
  <1>3. i > 1 => Ids(out[i - 1], "use") = Ids(ms[i - 1], "use")
    OBVIOUS
  <1>4. /\ Ids(out[i], "use") = Ids(ms[i], "use") /\ Ids(out[i], "result") = Ids(ms[i], "result")
        /\ Once(out[i])
    BY <1>1
  <1> QED
    BY <1>1, <1>2, <1>3, <1>4

LEMMA SameLength ==
    ASSUME NEW m \in Nat, NEW n \in Nat, 1 .. m = 1 .. n
    PROVE  m = n
  <1>1. m < n => n \in 1 .. n /\ n \notin 1 .. m
    OBVIOUS
  <1>2. n < m => m \in 1 .. m /\ m \notin 1 .. n
    OBVIOUS
  <1>3. ~ (m < n) /\ ~ (n < m)
    BY <1>1, <1>2, Zenon
  <1> QED
    BY <1>3

LEMMA BlockByBlock ==
    ASSUME NEW ms \in Seq(Message), Paired(ms)
    PROVE  Paired(AnthropicMessages(ms)) /\ Paired(BedrockMessages(ms))
  <1> DEFINE a == AnthropicMessages(ms)
             b == BedrockMessages(ms)
  <1>1. Len(ms) \in Nat /\ DOMAIN ms = 1 .. Len(ms)
    BY LenProperties
  <1>2. /\ DOMAIN a = DOMAIN ms /\ DOMAIN b = DOMAIN ms
        /\ \A i \in DOMAIN ms : a[i].blocks = ms[i].blocks
        /\ \A i \in DOMAIN ms :
              b[i].blocks = IF ms[i].blocks = <<>> THEN <<Text("")>> ELSE ms[i].blocks
    BY DEF AnthropicMessages, BedrockMessages
  <1> HIDE DEF a, b
  <1>3. Len(a) = Len(ms) /\ Len(b) = Len(ms)
    <2>1. Text("") \in Block /\ <<Text("")>> \in Seq(Block)
      <3>1. "" \in Texts
        BY DEF Texts
      <3>2. Text("") \in Block
        BY <3>1, BlockTypes
      <3>3. \A t \in Block : <<t>> \in Seq(Block)
        OBVIOUS
      <3> QED
        BY <3>2, <3>3, Zenon
    <2>2. \A i \in 1 .. Len(ms) : ms[i].role \in {"user", "assistant"} /\ ms[i].blocks \in Seq(Block)
      <3>1. \A i \in 1 .. Len(ms) : ms[i] \in Message
        BY ElementOfSeq
      <3> QED
        BY <3>1 DEF Message
    <2> DEFINE Wire == [role : {"user", "assistant"}, blocks : Seq(Block)]
               plain(i) == [role |-> ms[i].role, blocks |-> ms[i].blocks]
               filled(i) == [role |-> ms[i].role,
                             blocks |-> IF ms[i].blocks = <<>> THEN <<Text("")>> ELSE ms[i].blocks]
    <2>3. a = [i \in 1 .. Len(ms) |-> plain(i)] /\ b = [i \in 1 .. Len(ms) |-> filled(i)]
      BY <1>1 DEF a, b, AnthropicMessages, BedrockMessages
    <2>4. \A i \in 1 .. Len(ms) : plain(i) \in Wire /\ filled(i) \in Wire
      <3> HIDE DEF Text
      <3> QED
        BY <2>1, <2>2
    <2> HIDE DEF Wire, plain, filled
    <2>5. a \in Seq(Wire) /\ b \in Seq(Wire)
      BY <1>1, <2>3, <2>4, IsASeq
    <2>6. /\ Len(a) \in Nat /\ DOMAIN a = 1 .. Len(a)
          /\ Len(b) \in Nat /\ DOMAIN b = 1 .. Len(b)
      BY <2>5, LenProperties
    <2> QED
      BY <1>1, <1>2, <2>6, SameLength
  <1>4. /\ \A i \in DOMAIN ms : i < Len(ms) => i + 1 \in DOMAIN ms
        /\ \A i \in DOMAIN ms : i > 1 => i - 1 \in DOMAIN ms
    BY <1>1
  <1>5. ASSUME NEW m, NEW n, m.blocks = n.blocks
        PROVE  /\ \A type : Ids(m, type) = Ids(n, type)
               /\ Once(n) => Once(m)
    BY <1>5 DEF Ids, Once
  <1>6. ASSUME NEW m, NEW n, n.blocks = <<>>, m.blocks = <<Text("")>>
        PROVE  /\ \A type : type # "text" => Ids(m, type) = Ids(n, type)
               /\ Once(m)
    <2>1. \A type : Ids(n, type) = {}
      <3>1. DOMAIN <<>> = {}
        OBVIOUS
      <3> QED
        BY <1>6, <3>1 DEF Ids
    <2>2. Text("").type = "text"
      BY DEF Text
    <2> HIDE DEF Text
    <2>3. \A type : type # "text" => Ids(m, type) = {}
      BY <1>6, <2>2, OneBlock
    <2> QED
      BY <1>6, <2>1, <2>3, OneBlock
  <1>7. Paired(a)
    <2>1. \A i \in DOMAIN ms :
             /\ Ids(a[i], "use") = Ids(ms[i], "use")
             /\ Ids(a[i], "result") = Ids(ms[i], "result")
             /\ Once(ms[i]) => Once(a[i])
      <3> TAKE i \in DOMAIN ms
      <3>1. a[i].blocks = ms[i].blocks
        BY <1>2
      <3> QED
        BY <1>5, <3>1, Zenon
    <2> QED
      BY <1>2, <1>3, <1>4, <2>1, PairedAlike
  <1>8. \A i \in DOMAIN ms :
           /\ Ids(b[i], "use") = Ids(ms[i], "use")
           /\ Ids(b[i], "result") = Ids(ms[i], "result")
           /\ Once(ms[i]) => Once(b[i])
    <2> TAKE i \in DOMAIN ms
    <2>1. CASE ms[i].blocks = <<>>
      <3>1. b[i].blocks = <<Text("")>>
        BY <1>2, <2>1
      <3>2. "use" # "text" /\ "result" # "text"
        OBVIOUS
      <3> QED
        BY <1>6, <2>1, <3>1, <3>2, Zenon
    <2>2. CASE ms[i].blocks # <<>>
      <3>1. b[i].blocks = ms[i].blocks
        BY <1>2, <2>2
      <3> QED
        BY <1>5, <3>1, Zenon
    <2> QED
      BY <2>1, <2>2
  <1>9. Paired(b)
    BY <1>2, <1>3, <1>4, <1>8, PairedAlike
  <1> QED
    BY <1>7, <1>9 DEF a, b

-----------------------------------------------------------------------------
(* Google *)

(* A block of an earlier place is a call Google never made, of this id.    *)
Unmade(ms, i, k) ==
    \E j \in 1 .. i : \E l \in DOMAIN ms[j].blocks :
        /\ j < i \/ l < k
        /\ Unsigned(ms[j].blocks[l])
        /\ GoogleId(ms[j].blocks[l]) = GoogleId(ms[i].blocks[k])

Textual(ms, i, k) ==
    Unsigned(ms[i].blocks[k]) \/ (ms[i].blocks[k].type = "result" /\ Unmade(ms, i, k))

LEMMA GoogleFacts ==
    ASSUME NEW ms \in Seq(Message)
    PROVE  LET out == GoogleContents(ms)
           IN  /\ DOMAIN out = DOMAIN ms /\ Len(out) = Len(ms)
               /\ \A i \in 1 .. Len(ms) : out[i] \in [role : {"user", "assistant"}, blocks : Seq(Block)]
               /\ \A i \in 1 .. Len(ms) : DOMAIN out[i].blocks = DOMAIN ms[i].blocks
               /\ \A i \in 1 .. Len(ms) : \A k \in DOMAIN ms[i].blocks :
                     /\ Textual(ms, i, k) => out[i].blocks[k].type = "text"
                     /\ ~Textual(ms, i, k) => out[i].blocks[k] = ms[i].blocks[k]
  <1> DEFINE out == GoogleContents(ms)
             N == Len(ms)
             part(i, k) == IF Textual(ms, i, k) THEN [ms[i].blocks[k] EXCEPT !.type = "text"]
                           ELSE ms[i].blocks[k]
             Wire == [role : {"user", "assistant"}, blocks : Seq(Block)]
             item(i) == [role |-> ms[i].role, blocks |-> [k \in 1 .. Len(ms[i].blocks) |-> part(i, k)]]
  <1>1. N \in Nat /\ DOMAIN ms = 1 .. N /\ \A i \in 1 .. N : ms[i] \in Message
    BY LenProperties, ElementOfSeq
  <1>2. \A i \in 1 .. N :
           /\ Len(ms[i].blocks) \in Nat /\ DOMAIN ms[i].blocks = 1 .. Len(ms[i].blocks)
           /\ \A k \in 1 .. Len(ms[i].blocks) : ms[i].blocks[k] \in Block
    BY <1>1, IdsFacts
  <1>3. out = [i \in 1 .. N |-> item(i)]
    <2>1. out = [i \in DOMAIN ms |->
                    [role |-> ms[i].role, blocks |-> [k \in DOMAIN ms[i].blocks |-> part(i, k)]]]
      BY DEF GoogleContents, Textual, Unmade
    <2> HIDE DEF out, part
    <2> QED
      BY <1>1, <1>2, <2>1
  <1>4. \A i \in 1 .. N : \A k \in 1 .. Len(ms[i].blocks) :
           /\ part(i, k) \in Block
           /\ Textual(ms, i, k) => part(i, k).type = "text"
           /\ ~Textual(ms, i, k) => part(i, k) = ms[i].blocks[k]
    <2> TAKE i \in 1 .. N
    <2> TAKE k \in 1 .. Len(ms[i].blocks)
    <2> DEFINE b == ms[i].blocks[k]
    <2>1. b \in Block
      BY <1>2
    <2> HIDE DEF b
    <2>2. [b EXCEPT !.type = "text"] \in Block /\ [b EXCEPT !.type = "text"].type = "text"
      BY <2>1 DEF Block
    <2>3. part(i, k) = IF Textual(ms, i, k) THEN [b EXCEPT !.type = "text"] ELSE b
      BY DEF b
    <2> HIDE DEF part
    <2>4. \/ Textual(ms, i, k) /\ part(i, k) = [b EXCEPT !.type = "text"]
          \/ ~Textual(ms, i, k) /\ part(i, k) = b
      BY <2>3
    <2> QED
      BY <2>1, <2>2, <2>4 DEF b
  <1> HIDE DEF part, out
  <1>5. \A i \in 1 .. N : item(i) \in Wire
    <2> TAKE i \in 1 .. N
    <2> DEFINE blocks == [k \in 1 .. Len(ms[i].blocks) |-> part(i, k)]
    <2>1. blocks \in Seq(Block)
      BY <1>2, <1>4, IsASeq
    <2>2. ms[i].role \in {"user", "assistant"}
      BY <1>1 DEF Message
    <2>3. item(i) = [role |-> ms[i].role, blocks |-> blocks]
      OBVIOUS
    <2> HIDE DEF blocks, item
    <2> QED
      BY <2>1, <2>2, <2>3
  <1>6. \A i \in 1 .. N : item(i).blocks = [k \in 1 .. Len(ms[i].blocks) |-> part(i, k)]
    OBVIOUS
  <1> HIDE DEF item, Wire
  <1>7. out \in Seq(Wire)
    BY <1>1, <1>3, <1>5, IsASeq
  <1>8. Len(out) \in Nat /\ DOMAIN out = 1 .. Len(out) /\ DOMAIN out = 1 .. N
    BY <1>3, <1>7, LenProperties
  <1>9. Len(out) = N
    BY <1>1, <1>8, SameLength
  <1>10. \A i \in 1 .. N : /\ out[i] = item(i)
                           /\ DOMAIN out[i].blocks = 1 .. Len(ms[i].blocks)
                           /\ \A k \in 1 .. Len(ms[i].blocks) : out[i].blocks[k] = part(i, k)
    BY <1>3, <1>6
  <1>11. /\ DOMAIN out = DOMAIN ms
         /\ \A i \in 1 .. N : out[i] \in Wire /\ DOMAIN out[i].blocks = DOMAIN ms[i].blocks
    BY <1>1, <1>2, <1>5, <1>8, <1>10
  <1>12. \A i \in 1 .. N : \A k \in DOMAIN ms[i].blocks :
            /\ Textual(ms, i, k) => out[i].blocks[k].type = "text"
            /\ ~Textual(ms, i, k) => out[i].blocks[k] = ms[i].blocks[k]
    <2> TAKE i \in 1 .. N
    <2> TAKE k \in DOMAIN ms[i].blocks
    <2>1. k \in 1 .. Len(ms[i].blocks)
      BY <1>2
    <2> QED
      BY <1>4, <1>10, <2>1
  <1> QED
    BY <1>9, <1>11, <1>12 DEF out, N, Wire

(* What a block of the thread is.                                          *)
LEMMA ThreadBlocks ==
    ASSUME SoundLog, Grammar,
           NEW i \in 1 .. Len(Thread), NEW k \in 1 .. Len(Thread[i].blocks)
    PROVE  LET b == Thread[i].blocks[k]
           IN  /\ b.type = "use" =>
                     /\ Thread[i].role = "assistant"
                     /\ \E u \in HistoryStart .. Len(log) : \E x \in 1 .. Len(log[u].calls) :
                           b = Use(log[u].calls[x])
               /\ b.type = "result" =>
                     /\ Thread[i].role = "user"
                     /\ \E n \in 1 .. Len(History) :
                           /\ History[n].by = "tool"
                           /\ b = ResultBlock(History[n], SentBefore(History, n))
  <1> DEFINE b == Thread[i].blocks[k]
             ms == Merged(History)
  <1>1. log \in Seq(Entry)
    BY DEF SoundLog, Sound
  <1>2. PICK g : /\ Merging(g, History) /\ ms = g[Len(History)]
                 /\ ms \in Seq(Message) /\ Tailed(ms, Thread)
    BY <1>1, ThreadFacts
  <1>3. History \in Seq(Entry) /\ Len(History) \in Nat /\ Len(History) \in 0 .. Len(History)
    BY <1>1, HistoryFacts, LenProperties
  <1>4. \A j \in 1 .. Len(ms) : AllKnown(ms[j], History, Len(History))
    BY <1>2, <1>3, MergedIsKnown
  <1> SUFFICES ASSUME b.type # "text"
               PROVE  /\ b.type = "use" =>
                           /\ Thread[i].role = "assistant"
                           /\ \E u \in HistoryStart .. Len(log) : \E x \in 1 .. Len(log[u].calls) :
                                 b = Use(log[u].calls[x])
                      /\ b.type = "result" =>
                           /\ Thread[i].role = "user"
                           /\ \E n \in 1 .. Len(History) :
                                 /\ History[n].by = "tool"
                                 /\ b = ResultBlock(History[n], SentBefore(History, n))
    BY DEF b
  <1> HIDE DEF ms
  <1>5. /\ i \in 1 .. Len(ms) /\ k \in 1 .. Len(ms[i].blocks)
        /\ ms[i].blocks[k] = b /\ Thread[i].role = ms[i].role
    <2>1. i <= Len(ms) /\ k <= Len(ms[i].blocks)
      BY <1>2 DEF Tailed
    <2>2. Len(ms) \in Nat
      BY <1>2, LenProperties
    <2>3. i \in 1 .. Len(ms)
      BY <2>1, <2>2
    <2>4. Len(ms[i].blocks) \in Nat
      <3>1. ms[i] \in Message
        BY <1>2, <2>3, ElementOfSeq
      <3> QED
        BY <3>1, IdsFacts
    <2>5. k \in 1 .. Len(ms[i].blocks)
      BY <2>1, <2>4
    <2> QED
      BY <1>2, <2>3, <2>5 DEF Tailed
  <1> HIDE DEF b
  <1>6. Known(b, Thread[i].role, History, Len(History))
    BY <1>4, <1>5 DEF AllKnown
  <1>7. ASSUME b.type = "use"
        PROVE  \E u \in HistoryStart .. Len(log) : \E x \in 1 .. Len(log[u].calls) :
                  b = Use(log[u].calls[x])
    <2>1. PICK n \in 1 .. Len(History) : \E x \in 1 .. Len(History[n].calls) :
             b = Use(History[n].calls[x])
      BY <1>6, <1>7 DEF Known
    <2> DEFINE u == HistoryStart + n - 1
    <2>2. History[n] = log[u] /\ u \in 1 .. Len(log)
      BY <1>1, HistoryFacts
    <2>3. HistoryStart \in Nat \ {0} /\ Len(log) \in Nat
      BY <1>1, StartFacts, LenProperties
    <2>4. u \in HistoryStart .. Len(log)
      BY <2>2, <2>3
    <2> HIDE DEF u
    <2> QED
      BY <2>1, <2>2, <2>4
  <1> QED
    BY <1>6, <1>7 DEF Known

(* A call is found in one place.                                           *)
LEMMA OneCall ==
    ASSUME SoundLog, Grammar,
           NEW u \in 1 .. Len(log), NEW x \in 1 .. Len(log[u].calls),
           NEW v \in 1 .. Len(log), NEW y \in 1 .. Len(log[v].calls),
           log[u].calls[x].id = log[v].calls[y].id
    PROVE  u = v /\ log[u].calls[x] = log[v].calls[y]
  <1>1. Callers
    BY HistoryCallers
  <1>2. u = v
    BY <1>1 DEF Callers, Holder
  <1>3. log[u].calls # <<>>
    <2>1. Len(<<>>) = 0 /\ 1 .. 0 = {}
      OBVIOUS
    <2> QED
      BY <2>1
  <1>4. OneTurn(log[u], answers)
    BY <1>3 DEF Grammar, Numbered
  <1>5. x = y
    BY <1>2, <1>4 DEF OneTurn
  <1> QED
    BY <1>2, <1>5

(* A result says of its id what its call says.                             *)
LEMMA ResultGiven ==
    ASSUME SoundLog, Grammar,
           NEW u \in HistoryStart .. Len(log), NEW x \in 1 .. Len(log[u].calls),
           NEW n \in 1 .. Len(History), History[n].by = "tool",
           History[n].call = log[u].calls[x].id
    PROVE  GoogleId(ResultBlock(History[n], SentBefore(History, n))) = GoogleId(Use(log[u].calls[x]))
  <1> DEFINE c == log[u].calls[x]
             q == HistoryStart + n - 1
             sent == SentBefore(History, n)
             r == ResultBlock(History[n], sent)
             mine == {d \in sent : d.id = c.id}
  <1>1. log \in Seq(Entry) /\ Callers /\ Len(log) \in Nat
    BY HistoryCallers, LenProperties DEF SoundLog, Sound
  <1>2. /\ HistoryStart \in Nat \ {0} /\ Len(History) = Len(log) - (HistoryStart - 1)
        /\ \A m \in 1 .. Len(History) : /\ History[m] = log[HistoryStart + m - 1]
                                        /\ HistoryStart + m - 1 \in 1 .. Len(log)
    <2>1. Len(<<>>) = 0 /\ 1 .. 0 = {}
      OBVIOUS
    <2>2. History # <<>>
      BY <2>1
    <2> QED
      BY <1>1, <2>2, StartFacts, HistoryFacts
  <1>3. u \in 1 .. Len(log) /\ HistoryStart <= u
    BY <1>1, <1>2
  <1>4. History[n] = log[q] /\ q \in 1 .. Len(log)
    BY <1>2
  <1> HIDE DEF c
  <1>5. Holder(log[u], c.id) /\ c.id = log[q].call
    BY <1>4 DEF Holder, c
  <1>6. u < q
    BY <1>1, <1>3, <1>4, <1>5 DEF Callers
  <1>7. c \in sent
    <2> DEFINE m == u - HistoryStart + 1
    <2>1. m \in 1 .. n - 1 /\ m \in 1 .. Len(History) /\ HistoryStart + m - 1 = u
      BY <1>1, <1>2, <1>3, <1>6
    <2> HIDE DEF m
    <2>2. History[m] = log[u]
      BY <1>2, <2>1
    <2>3. x \in DOMAIN log[u].calls
      <3>1. log[u] \in Entry
        BY <1>1, <1>3, ElementOfSeq
      <3> QED
        BY <3>1, LenProperties DEF Entry
    <2>4. c \in ToSet(History[m].calls)
      BY <2>2, <2>3 DEF ToSet, c
    <2> QED
      BY <2>1, <2>4 DEF SentBefore
  <1>8. \A d \in mine : d = c
    <2> TAKE d \in mine
    <2>1. PICK m \in 1 .. n - 1 : d \in ToSet(History[m].calls)
      BY DEF SentBefore
    <2> DEFINE v == HistoryStart + m - 1
    <2>2. m \in 1 .. Len(History)
      BY <1>1, <1>2, <2>1
    <2>3. History[m] = log[v] /\ v \in 1 .. Len(log)
      BY <1>2, <2>2
    <2> HIDE DEF v
    <2>4. log[v].calls \in Seq(Call)
      <3>1. log[v] \in Entry
        BY <1>1, <2>3, ElementOfSeq
      <3> QED
        BY <3>1 DEF Entry
    <2>5. PICK y \in DOMAIN log[v].calls : d = log[v].calls[y]
      BY <2>1, <2>3 DEF ToSet
    <2>6. y \in 1 .. Len(log[v].calls)
      BY <2>4, LenProperties
    <2>7. d.id = c.id
      OBVIOUS
    <2>8. log[v].calls[y].id = log[u].calls[x].id
      BY <2>5, <2>7 DEF c
    <2>9. log[v].calls[y] = log[u].calls[x]
      BY <1>3, <2>3, <2>6, <2>8, OneCall
    <2> QED
      BY <2>5, <2>9 DEF c
  <1>9. r.call = c.id /\ (r.given <=> \E d \in mine : d.given)
    BY <1>4, <1>5 DEF ResultBlock
  <1>10. c \in mine
    BY <1>7
  <1> HIDE DEF mine, r, sent
  <1>11. r.given <=> c.given
    BY <1>8, <1>9, <1>10
  <1>12. Use(c).call = c.id /\ Use(c).given = c.given
    BY DEF Use
  <1> HIDE DEF Use
  <1>13. GoogleId(r) = GoogleId(Use(c))
    BY <1>9, <1>11, <1>12 DEF GoogleId
  <1> QED
    BY <1>13 DEF r, c, sent

LEMMA GooglePaired ==
    ASSUME SoundLog, Grammar, Paired(Thread)
    PROVE  Paired(GoogleContents(Thread))
  <1> DEFINE ms == Thread
             out == GoogleContents(Thread)
  <1>1. ms \in Seq(Message) /\ Len(ms) \in Nat /\ DOMAIN ms = 1 .. Len(ms)
    BY WholeMerges, LenProperties DEF Tailed
  <1>2. \A i \in 1 .. Len(ms) : ms[i] \in Message
    BY <1>1, ElementOfSeq
  <1>3. \A i \in 1 .. Len(ms) :
           /\ DOMAIN ms[i].blocks = 1 .. Len(ms[i].blocks)
           /\ \A type : \A id : id \in Ids(ms[i], type) <=>
                 \E k \in 1 .. Len(ms[i].blocks) : ms[i].blocks[k].type = type /\ ms[i].blocks[k].call = id
    BY <1>2, IdsFacts
  <1>4. /\ DOMAIN out = 1 .. Len(ms) /\ Len(out) = Len(ms)
        /\ \A i \in 1 .. Len(ms) : DOMAIN out[i].blocks = 1 .. Len(ms[i].blocks)
        /\ \A i \in 1 .. Len(ms) : \A k \in 1 .. Len(ms[i].blocks) :
              /\ Textual(ms, i, k) => out[i].blocks[k].type = "text"
              /\ ~Textual(ms, i, k) => out[i].blocks[k] = ms[i].blocks[k]
    BY <1>1, <1>3, GoogleFacts
  <1> HIDE DEF out, ms
  <1>5. \A i \in 1 .. Len(ms) : \A k \in 1 .. Len(ms[i].blocks) :
           LET b == ms[i].blocks[k]
           IN  /\ b.type = "use" =>
                     \E u \in HistoryStart .. Len(log) : \E x \in 1 .. Len(log[u].calls) :
                           b = Use(log[u].calls[x])
               /\ b.type = "result" =>
                     \E n \in 1 .. Len(History) :
                           History[n].by = "tool" /\ b = ResultBlock(History[n], SentBefore(History, n))
    BY ThreadBlocks DEF ms
  <1> DEFINE Has(m, type, id) == \E k \in 1 .. Len(m.blocks) : m.blocks[k].type = type /\ m.blocks[k].call = id
  <1>a. \A i \in 1 .. Len(ms) : \A t : \A x : x \in Ids(ms[i], t) <=> Has(ms[i], t, x)
    BY <1>3
  <1> HIDE DEF Has
  <1>b. /\ \A c : Use(c).call = c.id
        /\ \A m, sent : ResultBlock(m, sent).call = m.call
    BY DEF Use, ResultBlock
  <1>6. ASSUME NEW i \in 1 .. Len(ms), NEW k \in 1 .. Len(ms[i].blocks), ms[i].blocks[k].type = "use",
               NEW j \in 1 .. Len(ms), NEW l \in 1 .. Len(ms[j].blocks), ms[j].blocks[l].type = "use",
               ms[i].blocks[k].call = ms[j].blocks[l].call
        PROVE  ms[i].blocks[k] = ms[j].blocks[l]
    <2>1. PICK u \in HistoryStart .. Len(log) : \E x \in 1 .. Len(log[u].calls) :
             ms[i].blocks[k] = Use(log[u].calls[x])
      BY <1>5, <1>6
    <2>2. PICK x \in 1 .. Len(log[u].calls) : ms[i].blocks[k] = Use(log[u].calls[x])
      BY <2>1
    <2>3. PICK v \in HistoryStart .. Len(log) : \E y \in 1 .. Len(log[v].calls) :
             ms[j].blocks[l] = Use(log[v].calls[y])
      BY <1>5, <1>6
    <2>4. PICK y \in 1 .. Len(log[v].calls) : ms[j].blocks[l] = Use(log[v].calls[y])
      BY <2>3
    <2>5. u \in 1 .. Len(log) /\ v \in 1 .. Len(log)
      BY StartFacts, LenProperties DEF SoundLog, Sound
    <2>6. log[u].calls[x].id = log[v].calls[y].id
      BY <1>6, <1>b, <2>2, <2>4
    <2>7. log[u].calls[x] = log[v].calls[y]
      BY <2>5, <2>6, OneCall
    <2> QED
      BY <2>2, <2>4, <2>7
  <1>7. ASSUME NEW i \in 1 .. Len(ms), NEW k \in 1 .. Len(ms[i].blocks), ms[i].blocks[k].type = "use",
               NEW j \in 1 .. Len(ms), NEW l \in 1 .. Len(ms[j].blocks), ms[j].blocks[l].type = "result",
               ms[i].blocks[k].call = ms[j].blocks[l].call
        PROVE  GoogleId(ms[i].blocks[k]) = GoogleId(ms[j].blocks[l])
    <2>1. PICK u \in HistoryStart .. Len(log) : \E x \in 1 .. Len(log[u].calls) :
             ms[i].blocks[k] = Use(log[u].calls[x])
      BY <1>5, <1>7
    <2>2. PICK x \in 1 .. Len(log[u].calls) : ms[i].blocks[k] = Use(log[u].calls[x])
      BY <2>1
    <2>3. PICK n \in 1 .. Len(History) :
             History[n].by = "tool" /\ ms[j].blocks[l] = ResultBlock(History[n], SentBefore(History, n))
      BY <1>5, <1>7
    <2>4. History[n].call = log[u].calls[x].id
      <3>1. ms[i].blocks[k].call = log[u].calls[x].id
        BY <1>b, <2>2
      <3>2. ms[j].blocks[l].call = History[n].call
        BY <1>b, <2>3
      <3> QED
        BY <1>7, <3>1, <3>2
    <2> QED
      BY <2>2, <2>3, <2>4, ResultGiven
  <1>8. \A b, c : GoogleId(b) = GoogleId(c) => b.call = c.call
    BY DEF GoogleId
  <1>9. \A i \in 1 .. Len(ms) : \A k \in 1 .. Len(ms[i].blocks) : out[i].blocks[k].type # "text" =>
           out[i].blocks[k] = ms[i].blocks[k] /\ ~Textual(ms, i, k)
    BY <1>4
  <1> DEFINE Replayed(i, type, id) == \E k \in 1 .. Len(ms[i].blocks) :
                /\ ms[i].blocks[k].type = type /\ ms[i].blocks[k].call = id
                /\ ~Textual(ms, i, k)
  <1>10. ASSUME NEW i \in 1 .. Len(ms), NEW type, NEW id, type # "text"
         PROVE  id \in Ids(out[i], type) <=> Replayed(i, type, id)
    <2>1. id \in Ids(out[i], type) <=>
             \E k \in 1 .. Len(ms[i].blocks) : out[i].blocks[k].type = type /\ out[i].blocks[k].call = id
      BY <1>4 DEF Ids
    <2>2. \A k \in 1 .. Len(ms[i].blocks) :
             (out[i].blocks[k].type = type /\ out[i].blocks[k].call = id) <=>
             (ms[i].blocks[k].type = type /\ ms[i].blocks[k].call = id /\ ~Textual(ms, i, k))
      BY <1>4, <1>9, <1>10
    <2> QED
      BY <2>1, <2>2
  <1> HIDE DEF Replayed
  <1>11. \A i \in 1 .. Len(ms) :
            /\ Ids(ms[i], "use") \subseteq
                  (IF i < Len(ms) THEN Ids(ms[i + 1], "result") ELSE {})
                  \cup {id \in Ids(ms[i], "use") : id[1] \in RecentlyTorn}
            /\ Ids(ms[i], "result") \ (IF i = 1 THEN CutOff ELSE {}) \subseteq
                  (IF i > 1 THEN Ids(ms[i - 1], "use") ELSE {})
            /\ Once(ms[i])
    BY <1>1 DEF Paired, Once, ms
  <1>12. ASSUME NEW i \in 1 .. Len(ms), NEW id \in Ids(out[i], "use"), id[1] \notin RecentlyTorn
         PROVE  i < Len(ms) /\ id \in Ids(out[i + 1], "result")
    <2>1. PICK k \in 1 .. Len(ms[i].blocks) :
             /\ ms[i].blocks[k].type = "use" /\ ms[i].blocks[k].call = id /\ ~Textual(ms, i, k)
      <3>1. "use" # "text"
        OBVIOUS
      <3>2. Replayed(i, "use", id)
        BY <1>10, <1>12, <3>1
      <3> QED
        BY <3>2 DEF Replayed
    <2>2. id \in Ids(ms[i], "use")
      BY <1>a, <2>1 DEF Has
    <2>3. i < Len(ms) /\ id \in Ids(ms[i + 1], "result")
      BY <1>11, <1>12, <2>2
    <2>4. i + 1 \in 1 .. Len(ms)
      BY <1>1, <2>3
    <2>5. PICK l \in 1 .. Len(ms[i + 1].blocks) :
             ms[i + 1].blocks[l].type = "result" /\ ms[i + 1].blocks[l].call = id
      <3>1. Has(ms[i + 1], "result", id)
        BY <1>a, <2>3, <2>4
      <3> QED
        BY <3>1 DEF Has
    <2>6. ~Textual(ms, i + 1, l)
      <3> SUFFICES ASSUME Textual(ms, i + 1, l) PROVE FALSE
        OBVIOUS
      <3>1. Unmade(ms, i + 1, l)
        BY <2>5 DEF Textual, Unsigned
      <3>2. PICK j \in 1 .. i + 1 : \E m \in DOMAIN ms[j].blocks :
               Unsigned(ms[j].blocks[m]) /\ GoogleId(ms[j].blocks[m]) = GoogleId(ms[i + 1].blocks[l])
        BY <3>1 DEF Unmade
      <3>3. j \in 1 .. Len(ms)
        BY <1>1, <2>4
      <3>4. PICK m \in 1 .. Len(ms[j].blocks) :
               Unsigned(ms[j].blocks[m]) /\ GoogleId(ms[j].blocks[m]) = GoogleId(ms[i + 1].blocks[l])
        BY <1>3, <3>2, <3>3
      <3>5. ms[j].blocks[m].type = "use" /\ ms[j].blocks[m].call = id
        BY <1>8, <2>5, <3>4 DEF Unsigned
      <3>6. ms[j].blocks[m] = ms[i].blocks[k]
        BY <1>6, <2>1, <3>3, <3>5
      <3> QED
        BY <2>1, <3>4, <3>6 DEF Textual
    <2>7. "result" # "text"
      OBVIOUS
    <2> QED
      BY <1>10, <2>3, <2>4, <2>5, <2>6, <2>7 DEF Replayed
  <1>13. ASSUME NEW i \in 1 .. Len(ms), NEW id \in Ids(out[i], "result")
         PROVE  \/ i = 1 /\ id \in CutOff
                \/ i > 1 /\ id \in Ids(out[i - 1], "use")
    <2>1. PICK k \in 1 .. Len(ms[i].blocks) :
             /\ ms[i].blocks[k].type = "result" /\ ms[i].blocks[k].call = id /\ ~Textual(ms, i, k)
      <3>1. "result" # "text"
        OBVIOUS
      <3>2. Replayed(i, "result", id)
        BY <1>10, <1>13, <3>1
      <3> QED
        BY <3>2 DEF Replayed
    <2>2. id \in Ids(ms[i], "result")
      BY <1>a, <2>1 DEF Has
    <2>3. \/ i = 1 /\ id \in CutOff
          \/ i > 1 /\ id \in Ids(ms[i - 1], "use")
      BY <1>11, <2>2
    <2>4. CASE i > 1 /\ id \in Ids(ms[i - 1], "use")
      <3>1. i - 1 \in 1 .. Len(ms) /\ i - 1 \in 1 .. i /\ i - 1 < i
        BY <1>1, <2>4
      <3>2. PICK l \in 1 .. Len(ms[i - 1].blocks) :
               ms[i - 1].blocks[l].type = "use" /\ ms[i - 1].blocks[l].call = id
        <4>1. Has(ms[i - 1], "use", id)
          BY <1>a, <2>4, <3>1
        <4> QED
          BY <4>1 DEF Has
      <3>3. GoogleId(ms[i - 1].blocks[l]) = GoogleId(ms[i].blocks[k])
        BY <1>7, <2>1, <3>1, <3>2
      <3>4. ~Unmade(ms, i, k)
        BY <2>1 DEF Textual
      <3>5. ~Unsigned(ms[i - 1].blocks[l])
        BY <1>3, <3>1, <3>3, <3>4 DEF Unmade
      <3>6. ~Textual(ms, i - 1, l)
        BY <3>2, <3>5 DEF Textual
      <3>7. "use" # "text"
        OBVIOUS
      <3> QED
        BY <1>10, <2>4, <3>1, <3>2, <3>6, <3>7 DEF Replayed
    <2> QED
      BY <2>3, <2>4
  <1>14. ASSUME NEW i \in 1 .. Len(ms) PROVE Once(out[i])
    <2> SUFFICES ASSUME NEW j \in 1 .. Len(ms[i].blocks), NEW k \in 1 .. Len(ms[i].blocks),
                        out[i].blocks[j].type = "result", out[i].blocks[k].type = "result",
                        out[i].blocks[j].call = out[i].blocks[k].call
                 PROVE  j = k
      BY <1>4 DEF Once
    <2>1. out[i].blocks[j] = ms[i].blocks[j] /\ out[i].blocks[k] = ms[i].blocks[k]
      BY <1>9
    <2> QED
      BY <1>3, <1>11, <2>1 DEF Once
  <1> SUFFICES ASSUME NEW i \in DOMAIN out
               PROVE  /\ Ids(out[i], "use") \subseteq
                            (IF i < Len(out) THEN Ids(out[i + 1], "result") ELSE {})
                            \cup {id \in Ids(out[i], "use") : id[1] \in RecentlyTorn}
                      /\ Ids(out[i], "result") \ (IF i = 1 THEN CutOff ELSE {}) \subseteq
                            (IF i > 1 THEN Ids(out[i - 1], "use") ELSE {})
                      /\ Once(out[i])
    BY DEF Paired, Once, out, ms
  <1>15. i \in 1 .. Len(ms) /\ Len(out) = Len(ms)
    BY <1>4
  <1> QED
    BY <1>12, <1>13, <1>14, <1>15

-----------------------------------------------------------------------------
(* Chat completions *)

Sifting(g, seq, good, C) ==
    /\ g[0] = <<>>
    /\ \A n \in 0 .. Len(seq) : g[n] \in Seq(C \cap good)
    /\ \A n \in 1 .. Len(seq) :
          g[n] = IF seq[n] \in good THEN Append(g[n - 1], seq[n]) ELSE g[n - 1]
    /\ g[Len(seq)] = Sift(seq, good)

LEMMA SiftingExists ==
    ASSUME NEW C, NEW seq \in Seq(C), NEW good
    PROVE  \E g : Sifting(g, seq, good, C)
  <1> DEFINE N == Len(seq)
             V == Seq(C \cap good)
             next(n, out) == IF seq[n] \in good THEN Append(out, seq[n]) ELSE out
             step == [p \in Nat \X V |-> IF p[1] \in 1 .. N THEN next(p[1], p[2]) ELSE <<>>]
             Equation(f) == f = [n \in 0 .. N |-> IF n = 0 THEN <<>> ELSE next(n, f[n - 1])]
             g == CHOOSE f : Equation(f)
  <1>1. N \in Nat /\ <<>> \in V
    BY LenProperties, EmptySeq
  <1>2. step \in [Nat \X V -> V]
    <2>1. ASSUME NEW n \in 1 .. N, NEW out \in V PROVE next(n, out) \in V
      <3>1. seq[n] \in C
        BY ElementOfSeq
      <3>2. seq[n] \in good => Append(out, seq[n]) \in V
        BY <3>1, AppendProperties
      <3> QED
        BY <3>2
    <2> HIDE DEF V, next
    <2> QED
      BY <1>1, <2>1
  <1> HIDE DEF V, N, step
  <1>3. PICK f : Steps(f, V, <<>>, step, N)
    BY <1>1, <1>2, StepsExist
  <1>4. f = [n \in 0 .. N |-> IF n = 0 THEN <<>> ELSE next(n, f[n - 1])]
    <2>1. ASSUME NEW n \in 1 .. N PROVE f[n] = next(n, f[n - 1])
      <3>1. n - 1 \in 0 .. N /\ n \in Nat
        BY <1>1
      <3>2. f[n - 1] \in V /\ f[n] = step[<<n, f[n - 1]>>]
        BY <1>3, <3>1 DEF Steps
      <3> QED
        BY <3>1, <3>2 DEF step
    <2>2. f[0] = <<>> /\ f \in [0 .. N -> V]
      BY <1>3 DEF Steps
    <2> HIDE DEF next
    <2> QED
      BY <1>1, <2>1, <2>2
  <1>5. Equation(g)
    BY <1>4
  <1>6. Sift(seq, good) = g[N]
    BY DEF Sift, N
  <1> HIDE DEF g
  <1>7. g[0] = <<>> /\ \A n \in 1 .. N : g[n] = next(n, g[n - 1])
    <2> HIDE DEF next
    <2>1. g = [n \in 0 .. N |-> IF n = 0 THEN <<>> ELSE next(n, g[n - 1])]
      BY <1>5
    <2> QED
      BY <1>1, <2>1
  <1> DEFINE S == {n \in Nat : n <= N => g[n] \in V}
  <1>8. 0 \in S
    BY <1>1, <1>7
  <1>9. ASSUME NEW n \in S PROVE n + 1 \in S
    <2> SUFFICES ASSUME n + 1 <= N PROVE g[n + 1] \in V
      OBVIOUS
    <2>1. n + 1 \in 1 .. N /\ (n + 1) - 1 = n /\ n + 1 \in Nat
      BY <1>1
    <2>2. g[n] \in V
      BY <1>1, <2>1
    <2>3. g[n + 1] = step[<<n + 1, g[n]>>]
      BY <1>7, <2>1, <2>2 DEF step
    <2> QED
      BY <1>2, <2>1, <2>2, <2>3
  <1> HIDE DEF S
  <1>10. S = Nat
    BY <1>8, <1>9, FromZero DEF S
  <1>11. \A n \in 0 .. N : g[n] \in V
    BY <1>1, <1>10 DEF S
  <1> QED
    BY <1>6, <1>7, <1>11 DEF Sifting, N, V

(* No good member is lost.                                                 *)
LEMMA SiftKeeps ==
    ASSUME NEW C, NEW seq \in Seq(C), NEW good, NEW k \in 1 .. Len(seq), seq[k] \in good
    PROVE  \E p \in 1 .. Len(Sift(seq, good)) : Sift(seq, good)[p] = seq[k]
  <1> DEFINE N == Len(seq)
             x == seq[k]
  <1>1. PICK g : Sifting(g, seq, good, C)
    BY SiftingExists
  <1>2. N \in Nat /\ k \in 1 .. N
    BY LenProperties
  <1> DEFINE In(n) == \E p \in 1 .. Len(g[n]) : g[n][p] = x
             S == {d \in Nat : k + d <= N => In(k + d)}
  <1>3. \A n \in 1 .. N :
           /\ n - 1 \in 0 .. N /\ g[n - 1] \in Seq(C \cap good)
           /\ g[n] = IF seq[n] \in good THEN Append(g[n - 1], seq[n]) ELSE g[n - 1]
    <2> TAKE n \in 1 .. N
    <2>1. n - 1 \in 0 .. N
      BY <1>2
    <2> QED
      BY <1>1, <2>1 DEF Sifting
  <1>4. ASSUME NEW n \in 1 .. N, seq[n] \in good
        PROVE  LET L == Len(g[n - 1])
               IN  /\ L \in Nat /\ Len(g[n]) = L + 1 /\ g[n][L + 1] = seq[n]
                   /\ \A i \in 1 .. L : g[n][i] = g[n - 1][i]
    <2>1. seq[n] \in C \cap good
      BY <1>4, ElementOfSeq
    <2>2. /\ Len(Append(g[n - 1], seq[n])) = Len(g[n - 1]) + 1
          /\ Append(g[n - 1], seq[n])[Len(g[n - 1]) + 1] = seq[n]
          /\ \A i \in 1 .. Len(g[n - 1]) : Append(g[n - 1], seq[n])[i] = g[n - 1][i]
      <3> DEFINE D == C \cap good
      <3> HIDE DEF D
      <3>1. g[n - 1] \in Seq(D) /\ seq[n] \in D
        BY <1>3, <2>1 DEF D
      <3> QED
        BY <3>1, AppendProperties
    <2>3. Len(g[n - 1]) \in Nat
      BY <1>3, LenProperties
    <2>4. g[n] = Append(g[n - 1], seq[n])
      BY <1>3, <1>4
    <2> QED
      BY <2>2, <2>3, <2>4
  <1> HIDE DEF N, x, In, S
  <1>5. 0 \in S
    <2>1. g[k][Len(g[k - 1]) + 1] = x /\ Len(g[k]) = Len(g[k - 1]) + 1 /\ Len(g[k - 1]) \in Nat
      BY <1>2, <1>4 DEF x
    <2>2. Len(g[k - 1]) + 1 \in 1 .. Len(g[k])
      BY <2>1
    <2>3. In(k)
      BY <2>1, <2>2 DEF In
    <2>4. k + 0 = k
      BY <1>2
    <2> QED
      BY <2>3, <2>4 DEF S
  <1>6. ASSUME NEW d \in S PROVE d + 1 \in S
    <2> SUFFICES ASSUME k + (d + 1) <= N PROVE In(k + (d + 1))
      BY DEF S
    <2> DEFINE n == k + (d + 1)
    <2>1. d \in Nat /\ n \in 1 .. N /\ n - 1 = k + d /\ k + d <= N
      BY <1>2 DEF S
    <2> HIDE DEF n
    <2>2. PICK p \in 1 .. Len(g[n - 1]) : g[n - 1][p] = x
      BY <2>1 DEF S, In
    <2>3. CASE seq[n] \in good
      <3>1. p \in 1 .. Len(g[n])
        BY <1>4, <2>1, <2>2, <2>3
      <3>2. g[n][p] = x
        BY <1>4, <2>1, <2>2, <2>3
      <3> QED
        BY <3>1, <3>2 DEF In, n
    <2>4. CASE seq[n] \notin good
      <3>1. g[n] = g[n - 1]
        BY <1>3, <2>1, <2>4
      <3> QED
        BY <2>2, <3>1 DEF In, n
    <2> QED
      BY <2>3, <2>4
  <1>7. S = Nat
    <2>1. S \in SUBSET Nat
      BY DEF S
    <2> QED
      BY <1>5, <1>6, <2>1, FromZero
  <1>8. N - k \in Nat /\ k + (N - k) = N /\ N <= N
    BY <1>2
  <1>9. In(N)
    BY <1>7, <1>8 DEF S
  <1>10. g[N] = Sift(seq, good)
    BY <1>1 DEF Sifting, N
  <1> QED
    BY <1>9, <1>10 DEF In, x

(* The blocks of a type.                                                   *)
LEMMA OnlyFacts ==
    ASSUME NEW m \in Message, NEW type
    PROVE  /\ Only(m, type) \in Seq(Block)
           /\ Len(Only(m, type)) \in Nat /\ DOMAIN Only(m, type) = 1 .. Len(Only(m, type))
           /\ \A p \in 1 .. Len(Only(m, type)) : Only(m, type)[p].call \in Ids(m, type)
           /\ \A id \in Ids(m, type) : \E p \in 1 .. Len(Only(m, type)) : Only(m, type)[p].call = id
           /\ \A p \in 1 .. Len(Only(m, type)) : Only(m, type)[p] \in Block
  <1> DEFINE good == {b \in ToSet(m.blocks) : b.type = type}
             out == Only(m, type)
  <1>1. /\ m.blocks \in Seq(Block) /\ Len(m.blocks) \in Nat
        /\ DOMAIN m.blocks = 1 .. Len(m.blocks)
    BY IdsFacts
  <1>2. out = Sift(m.blocks, good)
    BY DEF Only
  <1> HIDE DEF out
  <1>3. out \in Seq(Block \cap good)
    <2> HIDE DEF good
    <2> QED
      BY <1>1, <1>2, SiftFacts
  <1>4. out \in Seq(Block)
    <2>1. Block \cap good \subseteq Block
      OBVIOUS
    <2> HIDE DEF good
    <2> QED
      BY <1>3, <2>1, SeqMonotonic
  <1>5. Len(out) \in Nat /\ DOMAIN out = 1 .. Len(out)
    BY <1>4, LenProperties
  <1>6. \A p \in 1 .. Len(out) : out[p] \in Block /\ out[p] \in good
    <2> HIDE DEF good
    <2> QED
      BY <1>3, ElementOfSeq
  <1>7. \A p \in 1 .. Len(out) : out[p].call \in Ids(m, type)
    <2> TAKE p \in 1 .. Len(out)
    <2>1. out[p] \in ToSet(m.blocks) /\ out[p].type = type
      BY <1>6
    <2>2. PICK k \in DOMAIN m.blocks : out[p] = m.blocks[k]
      BY <2>1 DEF ToSet
    <2> QED
      BY <2>1, <2>2 DEF Ids
  <1>8. ASSUME NEW id \in Ids(m, type)
        PROVE  \E p \in 1 .. Len(out) : out[p].call = id
    <2>1. PICK k \in DOMAIN m.blocks : m.blocks[k].type = type /\ m.blocks[k].call = id
      BY <1>8 DEF Ids
    <2>2. m.blocks[k] \in good /\ k \in 1 .. Len(m.blocks)
      BY <1>1, <2>1 DEF ToSet
    <2> HIDE DEF good
    <2>3. \E p \in 1 .. Len(out) : out[p] = m.blocks[k]
      BY <1>1, <1>2, <2>2, SiftKeeps
    <2> QED
      BY <2>1, <2>3
  <1> QED
    BY <1>4, <1>5, <1>6, <1>7, <1>8 DEF out

Item == [role : {"user", "assistant", "tool"}, calls : Seq(Id)]

LEMMA ChatMessageFacts ==
    ASSUME NEW m \in Message
    PROVE  LET out == ChatMessage(m)
           IN  /\ out \in Seq(Item)
               /\ Ids(m, "use") # {} =>
                     /\ Len(out) # 0 /\ out[1].role = "assistant"
                     /\ Ids(m, "use") \subseteq ToSet(out[1].calls)
                     /\ \A j \in 1 .. Len(out) : j # 1 => out[j].role = "tool"
               /\ Ids(m, "use") = {} =>
                     \A j \in 1 .. Len(out) : \A k \in 1 .. j : out[j].role = "tool" => out[k].role = "tool"
               /\ \A j \in 1 .. Len(out) : out[j].role = "tool" => out[j].calls[1] \in Ids(m, "result")
  <1> DEFINE results == Only(m, "result")
             used == Only(m, "use")
             output(i) == [role |-> "tool", calls |-> <<results[i].call>>]
             outputs == [i \in 1 .. Len(results) |-> output(i)]
             texts == IF Only(m, "text") = <<>> THEN <<>> ELSE <<[role |-> m.role, calls |-> <<>>]>>
             uses == [i \in 1 .. Len(used) |-> used[i].call]
             asks == <<[role |-> "assistant", calls |-> uses]>>
             said == <<[role |-> m.role, calls |-> <<>>]>>
             out == ChatMessage(m)
  <1>1. /\ Len(results) \in Nat /\ DOMAIN results = 1 .. Len(results)
        /\ \A p \in 1 .. Len(results) : results[p].call \in Ids(m, "result") /\ results[p] \in Block
    BY OnlyFacts
  <1>2. /\ Len(used) \in Nat /\ DOMAIN used = 1 .. Len(used)
        /\ \A p \in 1 .. Len(used) : used[p].call \in Ids(m, "use") /\ used[p] \in Block
        /\ \A id \in Ids(m, "use") : \E p \in 1 .. Len(used) : used[p].call = id
    BY OnlyFacts
  <1>3. out = IF uses # <<>> THEN asks \o outputs
              ELSE IF outputs # <<>> THEN outputs \o texts
              ELSE said
    <2> HIDE DEF results, used
    <2> QED
      BY <1>1, <1>2 DEF ChatMessage, results, used
  <1> HIDE DEF results, used
  <1>4. m.role \in {"user", "assistant"}
    BY DEF Message
  <1>5. (\A p \in 1 .. Len(results) : results[p].call \in Id) /\ \A p \in 1 .. Len(used) : used[p].call \in Id
    BY <1>1, <1>2 DEF Block
  <1>6. uses \in Seq(Id) /\ Len(uses) \in Nat /\ DOMAIN uses = 1 .. Len(used)
    <2>1. uses \in Seq(Id)
      BY <1>2, <1>5, IsASeq
    <2> QED
      BY <2>1, LenProperties
  <1>7. Ids(m, "use") \subseteq ToSet(uses)
    <2> SUFFICES ASSUME NEW id \in Ids(m, "use") PROVE id \in ToSet(uses)
      OBVIOUS
    <2>1. PICK p \in 1 .. Len(used) : used[p].call = id
      BY <1>2
    <2>2. uses[p] = id
      BY <2>1
    <2> HIDE DEF uses
    <2> QED
      BY <1>6, <2>1, <2>2 DEF ToSet
  <1>8. uses = <<>> <=> Ids(m, "use") = {}
    <2>1. uses = <<>> => Len(used) = 0
      <3>1. DOMAIN <<>> = {}
        OBVIOUS
      <3>2. 1 .. Len(used) = {} => Len(used) = 0
        BY <1>2
      <3> QED
        BY <1>6, <3>1, <3>2
    <2>2. Len(used) = 0 => uses = <<>>
      <3>1. 1 .. 0 = {}
        OBVIOUS
      <3> QED
        BY <1>6, <3>1, EmptySeq
    <2>3. Len(used) = 0 <=> Ids(m, "use") = {}
      <3>1. Len(used) = 0 \/ 1 \in 1 .. Len(used)
        BY <1>2
      <3>2. 1 .. 0 = {}
        OBVIOUS
      <3> QED
        BY <1>2, <3>1, <3>2
    <2> QED
      BY <2>1, <2>2, <2>3
  <1>9. \A i \in 1 .. Len(results) : /\ output(i) \in Item /\ output(i).role = "tool"
                                     /\ output(i).calls[1] \in Ids(m, "result")
    <2> TAKE i \in 1 .. Len(results)
    <2>1. <<results[i].call>> \in Seq(Id) /\ <<results[i].call>>[1] \in Ids(m, "result")
      BY <1>1, <1>5
    <2> QED
      BY <2>1 DEF Item
  <1> HIDE DEF output
  <1>10. outputs \in Seq(Item) /\ Len(outputs) \in Nat /\ DOMAIN outputs = 1 .. Len(outputs)
    <2>1. outputs \in Seq(Item)
      BY <1>1, <1>9, IsASeq
    <2> QED
      BY <2>1, LenProperties
  <1>11. \A i \in 1 .. Len(outputs) : outputs[i].role = "tool" /\ outputs[i].calls[1] \in Ids(m, "result")
    <2>1. \A i \in 1 .. Len(outputs) : i \in 1 .. Len(results)
      BY <1>10
    <2> QED
      BY <1>9, <2>1
  <1>12. \A role \in {"user", "assistant"} : \A calls \in Seq(Id) :
            /\ [role |-> role, calls |-> calls] \in Item
            /\ <<[role |-> role, calls |-> calls]>> \in Seq(Item)
            /\ Len(<<[role |-> role, calls |-> calls]>>) = 1
            /\ <<[role |-> role, calls |-> calls]>>[1].role = role
            /\ <<[role |-> role, calls |-> calls]>>[1].calls = calls
    BY DEF Item
  <1>13. /\ asks \in Seq(Item) /\ Len(asks) = 1
         /\ asks[1].role = "assistant" /\ asks[1].calls = uses
    <2> HIDE DEF uses
    <2> QED
      BY <1>6, <1>12
  <1>14. <<>> \in Seq(Id) /\ <<>> \in Seq(Item) /\ Len(<<>>) = 0
    BY EmptySeq
  <1>15. said \in Seq(Item) /\ Len(said) = 1 /\ said[1].role # "tool"
    BY <1>4, <1>12, <1>14
  <1>16. texts \in Seq(Item) /\ Len(texts) \in {0, 1} /\ \A j \in 1 .. Len(texts) : texts[j].role # "tool"
    <2>1. texts = <<>> \/ texts = said
      OBVIOUS
    <2>2. 1 .. 0 = {} /\ \A j \in 1 .. 1 : j = 1
      OBVIOUS
    <2> HIDE DEF texts, said
    <2> QED
      BY <1>14, <1>15, <2>1, <2>2
  <1> HIDE DEF out, asks, said, texts, outputs, uses
  <1>17. CASE uses # <<>>
    <2>1. out = asks \o outputs /\ Ids(m, "use") # {}
      BY <1>3, <1>8, <1>17
    <2>2. /\ out \in Seq(Item) /\ Len(out) = Len(asks) + Len(outputs)
          /\ \A i \in 1 .. Len(asks) : out[i] = asks[i]
          /\ \A i \in 1 .. Len(outputs) : out[Len(asks) + i] = outputs[i]
          /\ \A i \in 1 .. Len(asks) + Len(outputs) :
                i \in 1 .. Len(asks) \/ (i - Len(asks) \in 1 .. Len(outputs) /\ Len(asks) + (i - Len(asks)) = i)
      BY <1>10, <1>13, <2>1, Longer
    <2>3. 1 \in 1 .. Len(asks) /\ Len(out) # 0 /\ (\A i \in 1 .. Len(asks) : i = 1)
      BY <1>10, <1>13, <2>2
    <2>4. out[1].role = "assistant" /\ out[1].calls = uses
      BY <1>13, <2>2, <2>3
    <2>5. \A j \in 1 .. Len(out) : j # 1 => out[j].role = "tool" /\ out[j].calls[1] \in Ids(m, "result")
      <3> TAKE j \in 1 .. Len(out)
      <3> HAVE j # 1
      <3>1. j \in 1 .. Len(asks) + Len(outputs) /\ j \notin 1 .. Len(asks)
        BY <2>2, <2>3
      <3>2. out[j] = outputs[j - Len(asks)] /\ j - Len(asks) \in 1 .. Len(outputs)
        BY <2>2, <3>1
      <3> QED
        BY <1>11, <3>2
    <2>6. "assistant" # "tool"
      OBVIOUS
    <2> QED
      BY <1>7, <2>1, <2>2, <2>3, <2>4, <2>5, <2>6 DEF out
  <1>18. CASE uses = <<>> /\ outputs # <<>>
    <2>1. out = outputs \o texts /\ Ids(m, "use") = {}
      BY <1>3, <1>8, <1>18
    <2>2. /\ out \in Seq(Item) /\ Len(out) = Len(outputs) + Len(texts)
          /\ \A i \in 1 .. Len(outputs) : out[i] = outputs[i]
          /\ \A i \in 1 .. Len(texts) : out[Len(outputs) + i] = texts[i]
          /\ \A i \in 1 .. Len(outputs) + Len(texts) :
                \/ i \in 1 .. Len(outputs)
                \/ (i - Len(outputs) \in 1 .. Len(texts) /\ Len(outputs) + (i - Len(outputs)) = i)
      BY <1>10, <1>16, <2>1, Longer
    <2>3. \A j \in 1 .. Len(out) : out[j].role = "tool" => j \in 1 .. Len(outputs)
      BY <1>16, <2>2
    <2>4. \A j \in 1 .. Len(outputs) : \A k \in 1 .. j : k \in 1 .. Len(outputs)
      BY <1>10
    <2>5. \A j \in 1 .. Len(outputs) : out[j].role = "tool" /\ out[j].calls[1] \in Ids(m, "result")
      BY <1>11, <2>2
    <2> QED
      BY <2>1, <2>2, <2>3, <2>4, <2>5 DEF out
  <1>19. CASE uses = <<>> /\ outputs = <<>>
    <2>1. out = said /\ Ids(m, "use") = {}
      BY <1>3, <1>8, <1>19
    <2>2. \A j \in 1 .. 1 : j = 1
      OBVIOUS
    <2> QED
      BY <1>15, <2>1, <2>2 DEF out
  <1> QED
    BY <1>17, <1>18, <1>19

(* Where the items of a sequence of sequences are.                         *)
Placed(f, seqs, flat, B) ==
    /\ flat \in Seq(B)
    /\ \A i \in 0 .. Len(seqs) : Len(f[i]) \in Nat
    /\ \A i \in 1 .. Len(seqs) :
          Len(seqs[i]) \in Nat /\ Len(f[i]) = Len(f[i - 1]) + Len(seqs[i])
    /\ \A i \in 1 .. Len(seqs) : \A m \in 1 .. Len(seqs[i]) : flat[Len(f[i - 1]) + m] = seqs[i][m]
    /\ \A p \in 1 .. Len(flat) : \E i \in 1 .. Len(seqs) : \E m \in 1 .. Len(seqs[i]) :
          p = Len(f[i - 1]) + m

LEMMA FlatPlaces ==
    ASSUME NEW B, NEW seqs \in Seq(Seq(B)), NEW f, Flattening(f, seqs, B)
    PROVE  Placed(f, seqs, FlattenSeq(seqs), B)
  <1> DEFINE N == Len(seqs)
             Fine(n) ==
                /\ \A i \in 1 .. n : \A m \in 1 .. Len(seqs[i]) :
                      /\ Len(f[i - 1]) + m \in 1 .. Len(f[n])
                      /\ f[n][Len(f[i - 1]) + m] = seqs[i][m]
                /\ \A p \in 1 .. Len(f[n]) : \E i \in 1 .. n : \E m \in 1 .. Len(seqs[i]) :
                      p = Len(f[i - 1]) + m
             S == {n \in Nat : n <= N => Fine(n)}
  <1>1. N \in Nat /\ \A i \in 1 .. N : seqs[i] \in Seq(B)
    BY LenProperties, ElementOfSeq
  <1>2. /\ f[0] = <<>> /\ \A i \in 0 .. N : f[i] \in Seq(B)
        /\ \A i \in 1 .. N : f[i] = f[i - 1] \o seqs[i]
        /\ f[N] = FlattenSeq(seqs)
    BY DEF Flattening
  <1>3. \A i \in 0 .. N : Len(f[i]) \in Nat
    BY <1>2, LenProperties
  <1> HIDE DEF N
  <1>4. ASSUME NEW n \in 1 .. N
        PROVE  /\ Len(seqs[n]) \in Nat /\ Len(f[n - 1]) \in Nat /\ Len(f[n]) = Len(f[n - 1]) + Len(seqs[n])
               /\ \A i \in 1 .. Len(f[n - 1]) : f[n][i] = f[n - 1][i]
               /\ \A i \in 1 .. Len(seqs[n]) : f[n][Len(f[n - 1]) + i] = seqs[n][i]
               /\ \A i \in 1 .. Len(f[n]) :
                     \/ i \in 1 .. Len(f[n - 1])
                     \/ (i - Len(f[n - 1]) \in 1 .. Len(seqs[n])
                           /\ Len(f[n - 1]) + (i - Len(f[n - 1])) = i)
    <2>1. n - 1 \in 0 .. N
      BY <1>1
    <2>2. f[n - 1] \in Seq(B) /\ seqs[n] \in Seq(B) /\ f[n] = f[n - 1] \o seqs[n]
      BY <1>1, <1>2, <2>1
    <2> DEFINE old == f[n - 1]
               more == seqs[n]
    <2> HIDE DEF old, more
    <2>3. /\ Len(old) \in Nat /\ Len(more) \in Nat /\ Len(old \o more) = Len(old) + Len(more)
          /\ \A i \in 1 .. Len(old) : (old \o more)[i] = old[i]
          /\ \A i \in 1 .. Len(more) : (old \o more)[Len(old) + i] = more[i]
          /\ \A i \in 1 .. Len(old) + Len(more) :
                i \in 1 .. Len(old) \/ (i - Len(old) \in 1 .. Len(more) /\ Len(old) + (i - Len(old)) = i)
      <3>1. old \in Seq(B) /\ more \in Seq(B)
        BY <2>2 DEF old, more
      <3> QED
        BY <3>1, Longer
    <2>4. f[n] = old \o more
      BY <2>2 DEF old, more
    <2>5. /\ Len(old) \in Nat /\ Len(more) \in Nat /\ Len(f[n]) = Len(old) + Len(more)
          /\ \A i \in 1 .. Len(old) : f[n][i] = old[i]
          /\ \A i \in 1 .. Len(more) : f[n][Len(old) + i] = more[i]
          /\ \A i \in 1 .. Len(f[n]) :
                i \in 1 .. Len(old) \/ (i - Len(old) \in 1 .. Len(more) /\ Len(old) + (i - Len(old)) = i)
      BY <2>3, <2>4
    <2> QED
      BY <2>5, Zenon DEF old, more
  <1> HIDE DEF Fine, S
  <1>a. \A a, b \in Nat : /\ \A x \in 1 .. a : x \in 1 .. a + b
                          /\ \A x \in 1 .. b : a + x \in 1 .. a + b
    OBVIOUS
  <1>5. 0 \in S
    <2>1. Len(f[0]) = 0 /\ 1 .. 0 = {}
      BY <1>2
    <2>2. Fine(0)
      BY <2>1 DEF Fine
    <2> QED
      BY <2>2 DEF S
  <1>6. ASSUME NEW k \in S PROVE k + 1 \in S
    <2> SUFFICES ASSUME k + 1 <= N PROVE Fine(k + 1)
      BY DEF S
    <2> DEFINE n == k + 1
    <2>1. n \in 1 .. N /\ n - 1 = k /\ n - 1 \in Nat /\ n - 1 <= N
      BY <1>1 DEF S
    <2>2. Fine(n - 1)
      BY <2>1 DEF S
    <2> HIDE DEF n
    <2>3. \A i \in 1 .. n : i = n \/ i \in 1 .. n - 1
      BY <2>1
    <2>4. ASSUME NEW i \in 1 .. n, NEW m \in 1 .. Len(seqs[i])
          PROVE  Len(f[i - 1]) + m \in 1 .. Len(f[n]) /\ f[n][Len(f[i - 1]) + m] = seqs[i][m]
      <3>1. CASE i = n
        <4>1. m \in 1 .. Len(seqs[n])
          BY <3>1
        <4>2. f[n][Len(f[n - 1]) + m] = seqs[n][m]
          BY <1>4, <2>1, <4>1
        <4>3. Len(seqs[n]) \in Nat /\ Len(f[n - 1]) \in Nat /\ Len(f[n]) = Len(f[n - 1]) + Len(seqs[n])
          BY <1>4, <2>1
        <4>4. Len(f[n - 1]) + m \in 1 .. Len(f[n])
          BY <1>a, <4>1, <4>3
        <4> QED
          BY <3>1, <4>2, <4>4
      <3>2. CASE i \in 1 .. n - 1
        <4>1. Len(f[i - 1]) + m \in 1 .. Len(f[n - 1]) /\ f[n - 1][Len(f[i - 1]) + m] = seqs[i][m]
          BY <2>2, <3>2 DEF Fine
        <4>2. Len(f[i - 1]) + m \in 1 .. Len(f[n])
          <5>1. Len(seqs[n]) \in Nat /\ Len(f[n - 1]) \in Nat /\ Len(f[n]) = Len(f[n - 1]) + Len(seqs[n])
            BY <1>4, <2>1
          <5> QED
            BY <1>a, <4>1, <5>1
        <4> QED
          BY <1>4, <2>1, <4>1, <4>2
      <3> QED
        BY <2>3, <3>1, <3>2
    <2>5. ASSUME NEW p \in 1 .. Len(f[n])
          PROVE  \E i \in 1 .. n : \E m \in 1 .. Len(seqs[i]) : p = Len(f[i - 1]) + m
      <3>1. CASE p \in 1 .. Len(f[n - 1])
        <4>1. \E i \in 1 .. n - 1 : \E m \in 1 .. Len(seqs[i]) : p = Len(f[i - 1]) + m
          BY <2>2, <3>1 DEF Fine
        <4>2. 1 .. n - 1 \subseteq 1 .. n
          BY <2>1
        <4> QED
          BY <4>1, <4>2
      <3>2. CASE p - Len(f[n - 1]) \in 1 .. Len(seqs[n]) /\ Len(f[n - 1]) + (p - Len(f[n - 1])) = p
        <4>1. n \in 1 .. n
          BY <2>1
        <4> QED
          BY <3>2, <4>1
      <3> QED
        BY <1>4, <2>1, <3>1, <3>2
    <2>6. Fine(n)
      BY <2>4, <2>5 DEF Fine
    <2> QED
      BY <2>6 DEF n
  <1>7. S = Nat
    <2>1. S \in SUBSET Nat
      BY DEF S
    <2> QED
      BY <1>5, <1>6, <2>1, FromZero
  <1>8. Fine(N) /\ N \in 0 .. N
    <2>1. N \in S /\ N <= N /\ N \in 0 .. N
      BY <1>1, <1>7
    <2> QED
      BY <2>1, Zenon DEF S
  <1> DEFINE flat == FlattenSeq(seqs)
  <1>9. flat = f[N] /\ flat \in Seq(B)
    BY <1>2, <1>8
  <1> HIDE DEF flat
  <1>10. \A i \in 1 .. N : Len(seqs[i]) \in Nat /\ Len(f[i]) = Len(f[i - 1]) + Len(seqs[i])
    BY <1>4
  <1>11. /\ \A i \in 1 .. N : \A m \in 1 .. Len(seqs[i]) : flat[Len(f[i - 1]) + m] = seqs[i][m]
         /\ \A p \in 1 .. Len(flat) : \E i \in 1 .. N : \E m \in 1 .. Len(seqs[i]) :
               p = Len(f[i - 1]) + m
    BY <1>8, <1>9, Zenon DEF Fine
  <1> QED
    BY <1>3, <1>9, <1>10, <1>11, Zenon DEF Placed, N, flat

(* The item with the call is before the results of its message.            *)
LEMMA ThreadChatPaired ==
    ASSUME SoundLog, Grammar, Paired(Thread)
    PROVE  ChatPaired(ChatMessages(Thread))
  <1> DEFINE ms == Thread
             N == Len(ms)
             seqs == [i \in 1 .. N |-> ChatMessage(ms[i])]
             flat == ChatMessages(ms)
  <1>1. ms \in Seq(Message) /\ N \in Nat /\ DOMAIN ms = 1 .. N
    BY WholeMerges, LenProperties DEF Tailed
  <1>2. \A i \in 1 .. N : ms[i] \in Message
    BY <1>1, ElementOfSeq
  <1>3. \A i \in 1 .. N : Ids(ms[i], "use") = {} \/ Ids(ms[i], "result") = {}
    <2> SUFFICES ASSUME NEW i \in 1 .. N, NEW x \in Ids(ms[i], "use"), NEW y \in Ids(ms[i], "result")
                 PROVE  FALSE
      OBVIOUS
    <2>1. DOMAIN ms[i].blocks = 1 .. Len(ms[i].blocks)
      BY <1>2, IdsFacts
    <2>2. PICK k \in 1 .. Len(ms[i].blocks) : ms[i].blocks[k].type = "use"
      BY <2>1 DEF Ids
    <2>3. PICK l \in 1 .. Len(ms[i].blocks) : ms[i].blocks[l].type = "result"
      BY <2>1 DEF Ids
    <2>4. ms[i].role = "assistant" /\ ms[i].role = "user"
      BY <2>2, <2>3, ThreadBlocks
    <2> QED
      BY <2>4
  <1>4. \A i \in 1 .. N : \A id \in Ids(ms[i], "result") :
           \/ id \in CutOff
           \/ i > 1 /\ id \in Ids(ms[i - 1], "use")
    <2> SUFFICES ASSUME NEW i \in 1 .. N, NEW id \in Ids(ms[i], "result")
                 PROVE  \/ id \in CutOff
                        \/ i > 1 /\ id \in Ids(ms[i - 1], "use")
      OBVIOUS
    <2>1. Ids(ms[i], "result") \ (IF i = 1 THEN CutOff ELSE {}) \subseteq
             (IF i > 1 THEN Ids(ms[i - 1], "use") ELSE {})
      BY <1>1 DEF Paired
    <2> QED
      BY <2>1
  <1>5. flat = FlattenSeq(seqs)
    BY <1>1 DEF ChatMessages
  <1> HIDE DEF ms
  <1>6. \A i \in 1 .. N :
           LET out == ChatMessage(ms[i])
           IN  /\ out \in Seq(Item)
               /\ Ids(ms[i], "use") # {} =>
                     /\ Len(out) # 0 /\ out[1].role = "assistant"
                     /\ Ids(ms[i], "use") \subseteq ToSet(out[1].calls)
                     /\ \A j \in 1 .. Len(out) : j # 1 => out[j].role = "tool"
               /\ Ids(ms[i], "use") = {} =>
                     \A j \in 1 .. Len(out) : \A k \in 1 .. j : out[j].role = "tool" => out[k].role = "tool"
               /\ \A j \in 1 .. Len(out) : out[j].role = "tool" => out[j].calls[1] \in Ids(ms[i], "result")
    BY <1>2, ChatMessageFacts
  <1>7. seqs \in Seq(Seq(Item)) /\ Len(seqs) = N /\ \A i \in 1 .. N : seqs[i] = ChatMessage(ms[i])
    <2>1. seqs \in Seq(Seq(Item))
      <3> DEFINE Items == Seq(Item)
      <3>1. \A i \in 1 .. N : ChatMessage(ms[i]) \in Items
        BY <1>6
      <3> HIDE DEF Items
      <3> QED
        BY <1>1, <3>1, IsASeq DEF Items
    <2>2. Len(seqs) \in Nat /\ 1 .. Len(seqs) = 1 .. N
      <3>1. DOMAIN seqs = 1 .. N
        OBVIOUS
      <3> HIDE DEF seqs
      <3> QED
        BY <2>1, <3>1, LenProperties
    <2>3. Len(seqs) = N
      <3> HIDE DEF seqs
      <3> QED
        BY <1>1, <2>2, SameLength
    <2> QED
      BY <2>1, <2>3
  <1> HIDE DEF seqs, flat, N
  <1>8. PICK f : Flattening(f, seqs, Item)
    BY <1>7, FlatteningExists
  <1>9. /\ flat \in Seq(Item)
        /\ \A i \in 0 .. N : Len(f[i]) \in Nat
        /\ \A i \in 1 .. N : Len(seqs[i]) \in Nat /\ Len(f[i]) = Len(f[i - 1]) + Len(seqs[i])
        /\ \A i \in 1 .. N : \A m \in 1 .. Len(seqs[i]) :
              flat[Len(f[i - 1]) + m] = seqs[i][m]
        /\ \A p \in 1 .. Len(flat) : \E i \in 1 .. N : \E m \in 1 .. Len(seqs[i]) :
              p = Len(f[i - 1]) + m
    <2>1. Placed(f, seqs, flat, Item)
      BY <1>5, <1>7, <1>8, FlatPlaces
    <2>2. Len(seqs) = N
      BY <1>7
    <2> QED
      BY <2>1, <2>2 DEF Placed
  <1>10. DOMAIN flat = 1 .. Len(flat) /\ Len(flat) \in Nat
    BY <1>9, LenProperties
  <1> SUFFICES ASSUME NEW p \in 1 .. Len(flat), flat[p].role = "tool", flat[p].calls[1] \notin CutOff
               PROVE  \E k \in 1 .. p - 1 :
                         /\ flat[k].role = "assistant" /\ flat[p].calls[1] \in ToSet(flat[k].calls)
                         /\ \A j \in k + 1 .. p - 1 : flat[j].role = "tool"
    BY <1>10 DEF ChatPaired, flat, ms
  <1> DEFINE id == flat[p].calls[1]
  <1>11. PICK i \in 1 .. N : \E m \in 1 .. Len(seqs[i]) : p = Len(f[i - 1]) + m
    BY <1>9
  <1>12. PICK m \in 1 .. Len(seqs[i]) : p = Len(f[i - 1]) + m
    BY <1>11
  <1>13. flat[p] = seqs[i][m]
    BY <1>9, <1>12
  <1>14. id \in Ids(ms[i], "result")
    BY <1>6, <1>7, <1>13
  <1>15. i > 1 /\ id \in Ids(ms[i - 1], "use")
    BY <1>4, <1>14
  <1>16. Ids(ms[i], "use") = {}
    BY <1>3, <1>14
  <1> HIDE DEF id
  <1>17. i - 1 \in 1 .. N /\ i - 2 \in 0 .. N /\ i - 1 \in 0 .. N /\ (i - 1) - 1 = i - 2
    BY <1>1, <1>15
  <1>18. \A k \in 1 .. m : seqs[i][k].role = "tool"
    <2> DEFINE out == ChatMessage(ms[i])
    <2>1. seqs[i] = out
      BY <1>7
    <2>2. \A j \in 1 .. Len(out) : \A k \in 1 .. j : out[j].role = "tool" => out[k].role = "tool"
      BY <1>6, <1>16
    <2>3. m \in 1 .. Len(out) /\ out[m].role = "tool"
      BY <1>13, <2>1
    <2> HIDE DEF out
    <2> QED
      BY <2>1, <2>2, <2>3
  <1>19. /\ Len(seqs[i - 1]) # 0 /\ seqs[i - 1][1].role = "assistant"
         /\ id \in ToSet(seqs[i - 1][1].calls)
         /\ \A j \in 1 .. Len(seqs[i - 1]) : j # 1 => seqs[i - 1][j].role = "tool"
    <2> DEFINE out == ChatMessage(ms[i - 1])
    <2>1. seqs[i - 1] = out
      BY <1>7, <1>17
    <2>2. Ids(ms[i - 1], "use") # {}
      BY <1>15
    <2>3. /\ Len(out) # 0 /\ out[1].role = "assistant"
          /\ Ids(ms[i - 1], "use") \subseteq ToSet(out[1].calls)
          /\ \A j \in 1 .. Len(out) : j # 1 => out[j].role = "tool"
      BY <1>6, <1>17, <2>2
    <2> HIDE DEF out
    <2> QED
      BY <1>15, <2>1, <2>3
  <1> DEFINE a == Len(f[i - 2])
             l == Len(seqs[i - 1])
             b == Len(f[i - 1])
  <1>20. /\ a \in Nat /\ l \in Nat /\ b \in Nat /\ b = a + l
         /\ \A x \in 1 .. l : flat[a + x] = seqs[i - 1][x]
         /\ \A x \in 1 .. Len(seqs[i]) : flat[b + x] = seqs[i][x]
    BY <1>9, <1>17
  <1>21. Len(seqs[i]) \in Nat /\ m \in 1 .. Len(seqs[i]) /\ p = b + m
    BY <1>9, <1>12
  <1>22. l # 0
    BY <1>19
  <1> HIDE DEF a, l, b
  <1>23. a + 1 \in 1 .. p - 1 /\ 1 \in 1 .. l
    BY <1>20, <1>21, <1>22
  <1>24. flat[a + 1].role = "assistant" /\ id \in ToSet(flat[a + 1].calls)
    BY <1>19, <1>20, <1>23
  <1>25. ASSUME NEW j \in (a + 1) + 1 .. p - 1
         PROVE  flat[j].role = "tool"
    <2>1. CASE j <= b
      <3>1. j - a \in 1 .. l /\ j - a # 1 /\ a + (j - a) = j
        BY <1>20, <2>1
      <3>2. flat[j] = seqs[i - 1][j - a]
        BY <1>20, <3>1
      <3> QED
        BY <1>19, <3>1, <3>2 DEF l
    <2>2. CASE ~ (j <= b)
      <3>1. j - b \in 1 .. m /\ j - b \in 1 .. Len(seqs[i]) /\ b + (j - b) = j
        BY <1>20, <1>21, <2>2
      <3>2. flat[j] = seqs[i][j - b]
        BY <1>20, <3>1
      <3> QED
        BY <1>18, <3>1, <3>2
    <2> QED
      BY <2>1, <2>2
  <1> QED
    BY <1>23, <1>24, <1>25 DEF id

LEMMA WholeIsAnswered ==
    ASSUME SoundLog, Grammar
    PROVE  CallsAnswered
  <1> SUFFICES ASSUME stage = "analyze"
               PROVE  /\ Paired(AnthropicMessages(Thread))
                      /\ Paired(BedrockMessages(Thread))
                      /\ Paired(GoogleContents(Thread))
                      /\ ChatPaired(ChatMessages(Thread))
    BY DEF CallsAnswered
  <1>1. Paired(Thread) /\ Thread \in Seq(Message)
    BY ThreadPaired, WholeMerges DEF Tailed
  <1> QED
    BY <1>1, BlockByBlock, GooglePaired, ThreadChatPaired

(* Whatever was cut, merged, stopped, refused or lost before: in the       *)
(* request every call is answered in the next message and every result     *)
(* answers a call, in the format of every provider (nodes.py, 726; the     *)
(* _*_messages functions of llm_clients.py), but for a tools step lost not *)
(* long ago and a result at the cut.                                       *)
THEOREM CallsAreAnswered == Spec => []CallsAnswered
  BY HistorySound, HistoryIsWhole, WholeIsAnswered, PTL

=============================================================================
