------------------------ MODULE ProviderConfigProofs ------------------------
(***************************************************************************)
(* Proofs about ProviderConfig, for any number of rows, calls in flight and *)
(* settings. The invariant adds to the properties what a call in flight    *)
(* knows: while it is not late, the row it holds is the row in the table,  *)
(* and a create that found no row would still find none.                   *)
(***************************************************************************)
EXTENDS ProviderConfig, TLAPS

Up(status) == status \notin {"absent", "disabled"}

InFlight(q) ==
    req[q] # None =>
        /\ req[q].kind # "create" => req[q].config # None
        /\ req[q].config # None => Up(req[q].seen.status)
        /\ ~ req[q].late /\ req[q].config # None =>
              req[q].seen = row[req[q].config]
        /\ ~ req[q].late /\ req[q].config = None => Enabled = {}

Inv ==
    /\ TypeOK
    /\ \A q \in Requests : InFlight(q)
    /\ UsableWasProbed
    /\ OneConfiguration

(* What a commit that the index accepts leaves of the calls in flight.     *)
Remaining(r, rows) ==
    [q \in Requests |->
        IF q = r THEN None
        ELSE IF /\ req[q] # None
                /\ IF req[q].config = None THEN rows # row
                   ELSE rows[req[q].config] # row[req[q].config]
             THEN [req[q] EXCEPT !.late = TRUE]
        ELSE req[q]]

-----------------------------------------------------------------------------
(* Lemmas about the operators *)

(* A merged row is a row, and has in each column the new value if that     *)
(* differs from the one that was read.                                     *)
LEMMA MergeRow ==
  ASSUME NEW now \in Row, NEW seen \in Row, NEW new \in Row
  PROVE  /\ Merge(now, seen, new) \in Row
         /\ Merge(now, seen, new).status =
               IF new.status # seen.status THEN new.status ELSE now.status
         /\ Merge(now, seen, new).default =
               IF new.default # seen.default THEN new.default ELSE now.default
         /\ Merge(now, seen, new).settings =
               IF new.settings # seen.settings THEN new.settings ELSE now.settings
  BY DEF Merge, Row

(* Merging into the row that was read gives the new row.                   *)
LEMMA MergeFresh ==
  ASSUME NEW now \in Row, NEW new \in Row
  PROVE  Merge(now, now, new) = new
  BY DEF Merge, Row

(* Every commit either happens or changes nothing but the call's end.      *)
LEMMA CommitCases ==
  ASSUME NEW r \in Requests, NEW rows, NEW raced1, NEW probed1,
         Commit(r, rows, raced1, probed1)
  PROVE  \/ /\ row' = rows /\ raced' = raced1 /\ probed' = probed1
            /\ req' = Remaining(r, rows)
         \/ UNCHANGED <<row, raced, probed>> /\ req' = [req EXCEPT ![r] = None]
  BY DEF Commit, Remaining

-----------------------------------------------------------------------------
(* The calls in flight across a commit *)

(* A commit keeps the types of the calls and what they know: whoever read  *)
(* the row before it changed is late from then on.                         *)
LEMMA RemainingKept ==
  ASSUME Inv, NEW r \in Requests, NEW rows, row' = rows,
         req' = Remaining(r, rows)
  PROVE  /\ req' \in [Requests -> Request \cup {None}]
         /\ \A q \in Requests : InFlight(q)'
  <1>1. ASSUME NEW q \in Requests
        PROVE  req'[q] \in Request \cup {None} /\ InFlight(q)'
    <2>1. CASE q = r
      BY <2>1 DEF Remaining, InFlight
    <2>2. CASE q # r /\ req[q] = None
      BY <2>2 DEF Remaining, InFlight
    <2>3. CASE q # r /\ req[q] # None
      <3>0. req[q] \in Request /\ InFlight(q)
        BY <2>3 DEF Inv, TypeOK
      <3>1. CASE req'[q] = [req[q] EXCEPT !.late = TRUE]
        BY <3>0, <3>1, <2>3 DEF InFlight, Request
      <3>2. CASE /\ req'[q] = req[q]
                 /\ req[q].config = None => rows = row
                 /\ req[q].config # None => rows[req[q].config] = row[req[q].config]
        BY <3>0, <3>2, <2>3 DEF InFlight, Enabled
      <3> QED
        BY <3>1, <3>2, <2>3 DEF Remaining
    <2> QED
      BY <2>1, <2>2, <2>3
  <1>2. req' \in [Requests -> Request \cup {None}]
    BY <1>1 DEF Remaining
  <1> QED
    BY <1>1, <1>2

(* So a commit keeps the invariant when its rows do.                       *)
LEMMA CommitKeeps ==
  ASSUME Inv, NEW r \in Requests, NEW rows, NEW raced1, NEW probed1,
         Commit(r, rows, raced1, probed1),
         rows \in [Configs -> Row],
         raced1 \in [Configs -> BOOLEAN],
         probed1 \in [Configs -> Settings \cup {None}],
         \A c \in Configs : rows[c].status = "active" =>
             probed1[c] = rows[c].settings \/ raced1[c],
         \A c, d \in Configs :
             Up(rows[c].status) /\ Up(rows[d].status) /\ ~ raced1[c] /\ ~ raced1[d]
             => c = d,
         \A c \in Configs : rows[c].default => Up(rows[c].status) \/ raced1[c]
  PROVE  Inv'
  <1>1. CASE /\ row' = rows /\ raced' = raced1 /\ probed' = probed1
             /\ req' = Remaining(r, rows)
    <2>1. /\ req' \in [Requests -> Request \cup {None}]
          /\ \A q \in Requests : InFlight(q)'
      BY <1>1, RemainingKept
    <2>2. UsableWasProbed'
      BY <1>1 DEF UsableWasProbed, Usable
    <2>3. OneConfiguration'
      BY <1>1 DEF OneConfiguration, Enabled, Up
    <2> QED
      BY <1>1, <2>1, <2>2, <2>3 DEF Inv, TypeOK
  <1>2. CASE UNCHANGED <<row, raced, probed>> /\ req' = [req EXCEPT ![r] = None]
    <2>1. \A q \in Requests : InFlight(q)'
      BY <1>2 DEF Inv, TypeOK, InFlight, Enabled
    <2>2. TypeOK'
      BY <1>2 DEF Inv, TypeOK
    <2>3. UsableWasProbed' /\ OneConfiguration'
      BY <1>2 DEF Inv, UsableWasProbed, OneConfiguration, Usable, Enabled
    <2> QED
      BY <2>1, <2>2, <2>3 DEF Inv
  <1> QED
    BY <1>1, <1>2, CommitCases

-----------------------------------------------------------------------------
(* The reading half of the calls *)

LEMMA InitInv == Init => Inv
  <1> SUFFICES ASSUME Init PROVE Inv
    OBVIOUS
  <1>1. TypeOK
    BY DEF Init, TypeOK, Row, Absent
  <1>2. UsableWasProbed /\ OneConfiguration
    BY DEF Init, UsableWasProbed, OneConfiguration, Usable, Enabled, Absent
  <1>3. \A q \in Requests : InFlight(q)
    BY DEF Init, InFlight
  <1> QED
    BY <1>1, <1>2, <1>3 DEF Inv

LEMMA ReadKeeps ==
  ASSUME Inv, NEW r \in Requests, NEW kind \in {"create", "update", "delete", "check"},
         NEW c \in Configs \cup {None}, NEW s \in Settings \cup {None},
         Read(r, kind, c, s),
         c # None => c \in Enabled,
         c = None => kind = "create" /\ Enabled = {}
  PROVE  Inv'
  <1> DEFINE new == [kind |-> kind, config |-> c, set |-> s, late |-> FALSE,
                     seen |-> IF c = None THEN Absent ELSE row[c]]
  <1>0. Absent \in Row /\ (c # None => row[c] \in Row)
    BY NoneAssumption DEF Absent, Row, Inv, TypeOK
  <1>1. new \in Request
    BY <1>0 DEF Request
  <1>2. req' = [req EXCEPT ![r] = new] /\ UNCHANGED <<row, probed, raced>>
    BY DEF Read
  <1>3. TypeOK'
    BY <1>1, <1>2 DEF Inv, TypeOK
  <1>4. ASSUME NEW q \in Requests PROVE InFlight(q)'
    <2>1. CASE q = r
      <3>1. req'[q] = new
        BY <1>2, <2>1 DEF Inv, TypeOK
      <3>2. new.config = c /\ new.kind = kind /\ new.seen = IF c = None THEN Absent ELSE row[c]
        OBVIOUS
      <3> HIDE DEF new
      <3> QED
        BY <3>1, <3>2, <1>2 DEF InFlight, Enabled, Up
    <2>2. CASE q # r
      BY <1>2, <2>2 DEF Inv, TypeOK, InFlight, Enabled
    <2> QED
      BY <2>1, <2>2
  <1>5. UsableWasProbed' /\ OneConfiguration'
    BY <1>2 DEF Inv, UsableWasProbed, OneConfiguration, Usable, Enabled
  <1> QED
    BY <1>3, <1>4, <1>5 DEF Inv

LEMMA StartsKeep ==
  ASSUME Inv, NEW r \in Requests,
         StartCreate(r) \/ StartUpdate(r) \/ StartDelete(r) \/ StartCheck(r)
  PROVE  Inv'
  <1>0. Enabled \subseteq Configs /\ None \notin Configs
    BY NoneAssumption DEF Enabled, Configs
  <1>1. CASE StartCreate(r)
    BY <1>0, <1>1, ReadKeeps DEF StartCreate, IsFirst
  <1>2. CASE StartUpdate(r)
    BY <1>0, <1>2, ReadKeeps DEF StartUpdate
  <1>3. CASE StartDelete(r)
    BY <1>0, <1>3, ReadKeeps DEF StartDelete
  <1>4. CASE StartCheck(r)
    BY <1>0, <1>4, ReadKeeps DEF StartCheck
  <1> QED
    BY <1>1, <1>2, <1>3, <1>4

(* Time ages the row and every copy alike.                                 *)
LEMMA CooledDownKeeps ==
  ASSUME Inv, CooledDown
  PROVE  Inv'
  <1>1. PICK c \in Configs :
           /\ row' = [row EXCEPT ![c] = Aged(row[c])]
           /\ req' = [q \in Requests |->
                 IF req[q] # None /\ req[q].config = c
                 THEN [req[q] EXCEPT !.seen = Aged(req[q].seen)] ELSE req[q]]
           /\ UNCHANGED <<probed, raced>>
    BY DEF CooledDown
  <1>2. ASSUME NEW rw \in Row
        PROVE  /\ Aged(rw) \in Row /\ Aged(rw).status = rw.status
               /\ Aged(rw).default = rw.default /\ Aged(rw).settings = rw.settings
    BY DEF Aged, Row
  <1>3. /\ row' \in [Configs -> Row]
        /\ \A d \in Configs : /\ row'[d].status = row[d].status
                              /\ row'[d].default = row[d].default
                              /\ row'[d].settings = row[d].settings
    BY <1>1, <1>2 DEF Inv, TypeOK
  <1>4. Enabled' = Enabled
    BY <1>3 DEF Enabled
  <1>5. ASSUME NEW q \in Requests
        PROVE  req'[q] \in Request \cup {None} /\ InFlight(q)'
    <2>1. CASE req[q] = None
      BY <1>1, <2>1 DEF InFlight
    <2>2. CASE req[q] # None /\ req[q].config = c
      <3>1. req[q] \in Request /\ req[q].seen \in Row
        BY <2>2 DEF Inv, TypeOK, Request
      <3>2. req'[q] = [req[q] EXCEPT !.seen = Aged(req[q].seen)]
        BY <1>1, <2>2
      <3>3. req'[q] \in Request
        BY <1>2, <3>1, <3>2 DEF Request
      <3>4. /\ req'[q].kind = req[q].kind /\ req'[q].config = c
            /\ req'[q].late = req[q].late /\ req'[q].seen = Aged(req[q].seen)
        BY <3>1, <3>2, <2>2 DEF Request
      <3>5. InFlight(q)
        BY DEF Inv
      <3>6. row'[c] = Aged(row[c]) /\ c # None
        BY <1>1, NoneAssumption DEF Inv, TypeOK, Configs
      <3>7. Aged(req[q].seen).status = req[q].seen.status
        BY <1>2, <3>1
      <3> QED
        BY <3>3, <3>4, <3>5, <3>6, <3>7, <2>2 DEF InFlight
    <2>3. CASE req[q] # None /\ req[q].config # c
      <3>1. req'[q] = req[q] /\ req[q] \in Request /\ InFlight(q)
        BY <1>1, <2>3 DEF Inv, TypeOK
      <3>2. req[q].config # None => row'[req[q].config] = row[req[q].config]
        BY <1>1, <2>3, <3>1 DEF Inv, TypeOK, Request
      <3> QED
        BY <3>1, <3>2, <1>4 DEF InFlight
    <2> QED
      BY <2>1, <2>2, <2>3
  <1>6. TypeOK'
    BY <1>1, <1>3, <1>5 DEF Inv, TypeOK
  <1>7. UsableWasProbed' /\ OneConfiguration'
    BY <1>1, <1>3, <1>4 DEF Inv, UsableWasProbed, OneConfiguration, Usable
  <1> QED
    BY <1>5, <1>6, <1>7 DEF Inv

-----------------------------------------------------------------------------
(* The writing half *)

(* What a call in flight with a row has in hand.                           *)
LEMMA InHand ==
  ASSUME Inv, NEW r \in Requests, req[r] # None, req[r].config # None
  PROVE  /\ req[r].config \in Configs /\ req[r].seen \in Row
         /\ req[r].set \in Settings \cup {None} /\ req[r].late \in BOOLEAN
         /\ row[req[r].config] \in Row
         /\ Up(req[r].seen.status)
         /\ ~ req[r].late => req[r].seen = row[req[r].config]
  BY DEF Inv, TypeOK, InFlight, Request

(* create over a row leaves that row alone enabled; a call that was not     *)
(* late has made it a draft with the default.                               *)
LEMMA OverwriteKeeps ==
  ASSUME Inv, NEW r \in Requests, Overwrite(r)
  PROVE  Inv'
  <1> DEFINE e == req[r].config
             draft == Draft(req[r].set)
             rows == [c \in Configs |->
                IF c = e THEN Merge(row[c], req[r].seen, draft)
                ELSE IF c \in Enabled
                     THEN [row[c] EXCEPT !.status = "disabled", !.default = FALSE]
                ELSE row[c]]
             raced1 == [c \in Configs |-> IF c = e THEN req[r].late
                                          ELSE raced[c] /\ c \notin Enabled]
             probed1 == [c \in Configs |-> IF c \in Enabled \cup {e} THEN None
                                           ELSE probed[c]]
  <1>1. req[r] # None /\ e # None /\ Commit(r, rows, raced1, probed1)
    BY DEF Overwrite
  <1>2. /\ e \in Configs /\ req[r].seen \in Row /\ row[e] \in Row
        /\ req[r].set \in Settings \cup {None} /\ req[r].late \in BOOLEAN
        /\ ~ req[r].late => req[r].seen = row[e]
    BY <1>1, InHand
  <1>3. draft \in Row /\ draft.status = "draft" /\ draft.default = TRUE
    BY <1>2 DEF Draft, Row
  <1>4. rows[e] \in Row /\ (~ req[r].late => rows[e] = draft)
    <2>1. rows[e] = Merge(row[e], req[r].seen, draft)
      BY <1>2
    <2> HIDE DEF draft, rows
    <2>2. Merge(row[e], req[r].seen, draft) \in Row
      BY <1>2, <1>3, MergeRow
    <2>3. ~ req[r].late => Merge(row[e], req[r].seen, draft) = draft
      BY <1>2, <1>3, MergeFresh
    <2> QED
      BY <2>1, <2>2, <2>3
  <1>5. ASSUME NEW c \in Configs, c # e
        PROVE  /\ rows[c] \in Row /\ ~ Up(rows[c].status)
               /\ rows[c].default => row[c].default /\ c \notin Enabled
               /\ rows[c].status # "active"
    <2>1. row[c] \in Row
      BY DEF Inv, TypeOK
    <2>2. CASE c \in Enabled
      BY <1>5, <2>1, <2>2 DEF Row, Up
    <2>3. CASE c \notin Enabled
      BY <1>5, <2>1, <2>3 DEF Enabled, Up
    <2> QED
      BY <2>2, <2>3
  <1>6. rows \in [Configs -> Row]
    BY <1>4, <1>5
  <1>7. /\ raced1 \in [Configs -> BOOLEAN]
        /\ probed1 \in [Configs -> Settings \cup {None}]
    BY <1>2 DEF Inv, TypeOK
  <1>8. \A c \in Configs : rows[c].status = "active" =>
            probed1[c] = rows[c].settings \/ raced1[c]
    BY <1>3, <1>4, <1>5, <1>2
  <1>9. \A c, d \in Configs :
            Up(rows[c].status) /\ Up(rows[d].status) /\ ~ raced1[c] /\ ~ raced1[d] => c = d
    BY <1>5
  <1>10. \A c \in Configs : rows[c].default => Up(rows[c].status) \/ raced1[c]
    BY <1>2, <1>3, <1>4, <1>5 DEF Inv, OneConfiguration, Up
  <1> HIDE DEF rows, raced1, probed1
  <1> QED
    BY <1>1, <1>6, <1>7, <1>8, <1>9, <1>10, CommitKeeps

(* create without a row: it is alone, or it was late.                      *)
LEMMA InsertKeeps ==
  ASSUME Inv, NEW r \in Requests, Insert(r)
  PROVE  Inv'
  <1>1. PICK n \in Configs :
           /\ req[r] # None /\ req[r].config = None
           /\ row[n].status = "absent"
           /\ Commit(r, [c \in Configs |->
                           IF c = n THEN Draft(req[r].set)
                           ELSE [row[c] EXCEPT !.default = FALSE]],
                     [raced EXCEPT ![n] = req[r].late], probed)
    BY DEF Insert
  <1> DEFINE draft == Draft(req[r].set)
             rows == [c \in Configs |-> IF c = n THEN draft
                                        ELSE [row[c] EXCEPT !.default = FALSE]]
             raced1 == [raced EXCEPT ![n] = req[r].late]
  <1>2. /\ req[r].set \in Settings \cup {None} /\ req[r].late \in BOOLEAN
        /\ ~ req[r].late => Enabled = {}
    BY <1>1 DEF Inv, TypeOK, InFlight, Request
  <1>3. draft \in Row /\ draft.status = "draft"
    BY <1>2 DEF Draft, Row
  <1>4. ASSUME NEW c \in Configs, c # n
        PROVE  /\ rows[c] \in Row /\ rows[c].status = row[c].status
               /\ rows[c].settings = row[c].settings /\ rows[c].default = FALSE
               /\ raced1[c] = raced[c]
    BY <1>4 DEF Inv, TypeOK, Row
  <1>5. rows[n] = draft /\ raced1[n] = req[r].late
    BY DEF Inv, TypeOK
  <1>6. rows \in [Configs -> Row] /\ raced1 \in [Configs -> BOOLEAN]
    BY <1>2, <1>3, <1>4 DEF Inv, TypeOK
  <1>7. \A c \in Configs : rows[c].status = "active" =>
            probed[c] = rows[c].settings \/ raced1[c]
    BY <1>3, <1>4, <1>5 DEF Inv, UsableWasProbed, Usable
  <1>8. \A c, d \in Configs :
            Up(rows[c].status) /\ Up(rows[d].status) /\ ~ raced1[c] /\ ~ raced1[d] => c = d
    BY <1>2, <1>4, <1>5 DEF Inv, OneConfiguration, Enabled, Up
  <1>9. \A c \in Configs : rows[c].default => Up(rows[c].status) \/ raced1[c]
    BY <1>3, <1>4, <1>5 DEF Up
  <1>10. Commit(r, rows, raced1, probed) /\ probed \in [Configs -> Settings \cup {None}]
    BY <1>1 DEF Inv, TypeOK
  <1> HIDE DEF rows, raced1
  <1> QED
    BY <1>6, <1>7, <1>8, <1>9, <1>10, CommitKeeps

(* update, delete and a health check write one row in the end: c0 gets new, *)
(* the others lose at most the default. If the call was late its row is     *)
(* raced, else the row it wrote over was enabled, and what it wrote is      *)
(* usable only if it was probed.                                           *)
LEMMA OneRowKeeps ==
  ASSUME Inv, NEW r \in Requests, NEW c0 \in Configs, NEW new \in Row,
         NEW rows, NEW raced1, NEW probed1, Commit(r, rows, raced1, probed1),
         rows[c0] = new,
         \A c \in Configs \ {c0} : rows[c] \in {row[c], [row[c] EXCEPT !.default = FALSE]},
         rows \in [Configs -> Row],
         raced1 \in [Configs -> BOOLEAN],
         probed1 \in [Configs -> Settings \cup {None}],
         \A c \in Configs \ {c0} : raced1[c] = raced[c] /\ probed1[c] = probed[c],
         ~ raced1[c0] => /\ new.status = "active" => probed1[c0] = new.settings
                         /\ Up(new.status) => Up(row[c0].status) /\ ~ raced[c0]
                         /\ new.default => Up(new.status)
  PROVE  Inv'
  <1>1. ASSUME NEW c \in Configs, c # c0
        PROVE  /\ rows[c].status = row[c].status
               /\ rows[c].settings = row[c].settings
               /\ rows[c].default => row[c].default
    BY <1>1 DEF Inv, TypeOK, Row
  <1>2. rows[c0] = new
    OBVIOUS
  <1>3. \A c \in Configs : rows[c].status = "active" =>
            probed1[c] = rows[c].settings \/ raced1[c]
    BY <1>1, <1>2 DEF Inv, UsableWasProbed, Usable
  <1>4. \A c, d \in Configs :
            Up(rows[c].status) /\ Up(rows[d].status) /\ ~ raced1[c] /\ ~ raced1[d] => c = d
    BY <1>1, <1>2 DEF Inv, OneConfiguration, Enabled, Up
  <1>5. \A c \in Configs : rows[c].default => Up(rows[c].status) \/ raced1[c]
    BY <1>1, <1>2 DEF Inv, OneConfiguration, Enabled, Up
  <1> QED
    BY <1>3, <1>4, <1>5, CommitKeeps

LEMMA EndUpdateKeeps ==
  ASSUME Inv, NEW r \in Requests, EndUpdate(r)
  PROVE  Inv'
  <1> DEFINE c0 == req[r].config
             Sent == [row[c0] EXCEPT !.default = TRUE,
                        !.settings = IF req[r].set = None THEN row[c0].settings
                                     ELSE req[r].set]
             new == IF Revalidate(r)
                    THEN [Sent EXCEPT !.status = "draft", !.checked = "never"] ELSE Sent
             rows == [c \in Configs |-> IF c # c0 THEN [row[c] EXCEPT !.default = FALSE]
                                        ELSE new]
             raced1 == [raced EXCEPT ![c0] = raced[c0] \/ req[r].late]
             probed1 == IF Revalidate(r) THEN [probed EXCEPT ![c0] = None] ELSE probed
  <1>1. req[r] # None /\ req[r].kind = "update"
    BY DEF EndUpdate
  <1>2. c0 # None
    BY <1>1 DEF Inv, InFlight
  <1>3. /\ c0 \in Configs /\ req[r].seen \in Row /\ row[c0] \in Row
        /\ req[r].set \in Settings \cup {None} /\ req[r].late \in BOOLEAN
        /\ Up(req[r].seen.status)
        /\ ~ req[r].late => req[r].seen = row[c0]
    BY <1>1, <1>2, InHand
  <1>4. Sent \in Row /\ Sent.status = row[c0].status
    BY <1>3 DEF Row
  <1>5. /\ new \in Row
        /\ Revalidate(r) => new.status = "draft"
        /\ ~ Revalidate(r) => new = Sent
    BY <1>4 DEF Row
  <1>6. ~ Revalidate(r) /\ ~ req[r].late => new.settings = row[c0].settings
    BY <1>3, <1>5 DEF Revalidate, Row
  <1>7. Commit(r, rows, raced1, probed1)
    <2>1. \E rows2 : Commit(r, rows2, raced1, probed1) /\ rows2 = rows
      BY DEF EndUpdate
    <2> QED
      BY <2>1
  <1>8. /\ raced1 \in [Configs -> BOOLEAN] /\ raced1[c0] = (raced[c0] \/ req[r].late)
        /\ probed1 \in [Configs -> Settings \cup {None}]
        /\ ~ Revalidate(r) => probed1[c0] = probed[c0]
        /\ \A c \in Configs \ {c0} : raced1[c] = raced[c] /\ probed1[c] = probed[c]
    BY <1>3 DEF Inv, TypeOK
  <1>9. \A c \in Configs \ {c0} :
            rows[c] \in Row /\ rows[c] \in {row[c], [row[c] EXCEPT !.default = FALSE]}
    BY DEF Inv, TypeOK, Row
  <1>10. rows \in [Configs -> Row] /\ rows[c0] = new
    BY <1>3, <1>5, <1>9
  <1>11. ~ raced1[c0] => /\ new.status = "active" => probed1[c0] = new.settings
                         /\ Up(new.status) => Up(row[c0].status) /\ ~ raced[c0]
                         /\ new.default => Up(new.status)
    <2> SUFFICES ASSUME ~ raced[c0], ~ req[r].late
                 PROVE  /\ new.status = "active" => probed1[c0] = new.settings
                        /\ Up(row[c0].status) /\ Up(new.status)
      BY <1>8
    <2> HIDE DEF raced1, probed1, rows, Sent, new
    <2>1. Up(row[c0].status)
      BY <1>3
    <2>2. CASE Revalidate(r)
      BY <2>1, <2>2, <1>5 DEF Up
    <2>3. CASE ~ Revalidate(r)
      BY <2>1, <2>3, <1>3, <1>4, <1>5, <1>6, <1>8 DEF Inv, UsableWasProbed, Usable
    <2> QED
      BY <2>1, <2>2, <2>3
  <1> HIDE DEF raced1, probed1, rows, Sent, new
  <1> QED
    BY <1>3, <1>5, <1>7, <1>8, <1>9, <1>10, <1>11, OneRowKeeps

(* delete and the health check merge into their row and leave the others.  *)
LEMMA MergeKeeps ==
  ASSUME Inv, NEW r \in Requests, req[r] # None, req[r].config # None,
         NEW new \in Row, NEW raced1, NEW probed1,
         Commit(r, [row EXCEPT ![req[r].config] = Merge(@, req[r].seen, new)],
                raced1, probed1),
         raced1 \in [Configs -> BOOLEAN],
         probed1 \in [Configs -> Settings \cup {None}],
         \A c \in Configs \ {req[r].config} :
             raced1[c] = raced[c] /\ probed1[c] = probed[c],
         req[r].late => raced1[req[r].config],
         ~ raced1[req[r].config] =>
             /\ new.status = "active" => probed1[req[r].config] = new.settings
             /\ Up(new.status) => ~ raced[req[r].config]
             /\ new.default => Up(new.status)
  PROVE  Inv'
  <1> DEFINE c0 == req[r].config
             merged == Merge(row[c0], req[r].seen, new)
             rows == [row EXCEPT ![c0] = merged]
  <1>1. /\ c0 \in Configs /\ req[r].seen \in Row /\ row[c0] \in Row
        /\ Up(req[r].seen.status)
        /\ ~ req[r].late => req[r].seen = row[c0]
    BY InHand
  <1>2. merged \in Row /\ (~ req[r].late => merged = new)
    <2>1. merged \in Row
      BY <1>1, MergeRow
    <2>2. ~ req[r].late => merged = new
      BY <1>1, MergeFresh
    <2> QED
      BY <2>1, <2>2
  <1> HIDE DEF merged
  <1>3. rows \in [Configs -> Row] /\ rows[c0] = merged
    BY <1>1, <1>2 DEF Inv, TypeOK
  <1>4. \A c \in Configs \ {c0} : rows[c] = row[c]
    BY DEF Inv, TypeOK
  <1>5. Commit(r, rows, raced1, probed1)
    BY DEF merged
  <1>6. ~ raced1[c0] => /\ merged.status = "active" => probed1[c0] = merged.settings
                        /\ Up(merged.status) => Up(row[c0].status) /\ ~ raced[c0]
                        /\ merged.default => Up(merged.status)
    BY <1>1, <1>2
  <1> HIDE DEF rows
  <1> QED
    BY <1>1, <1>2, <1>3, <1>4, <1>5, <1>6, OneRowKeeps

LEMMA EndDeleteKeeps ==
  ASSUME Inv, NEW r \in Requests, EndDelete(r)
  PROVE  Inv'
  <1> DEFINE c0 == req[r].config
             gone == [req[r].seen EXCEPT !.status = "disabled", !.default = FALSE]
             raced1 == [raced EXCEPT ![c0] = req[r].late]
             probed1 == [probed EXCEPT ![c0] = None]
  <1>1. req[r] # None /\ req[r].kind = "delete" /\ c0 # None
    BY DEF EndDelete, Inv, InFlight
  <1>2. c0 \in Configs /\ req[r].seen \in Row /\ req[r].late \in BOOLEAN
    BY <1>1, InHand
  <1>3. gone \in Row /\ gone.status = "disabled" /\ gone.default = FALSE
    BY <1>2 DEF Row
  <1>4. /\ raced1 \in [Configs -> BOOLEAN] /\ raced1[c0] = req[r].late
        /\ probed1 \in [Configs -> Settings \cup {None}]
        /\ \A c \in Configs \ {c0} : raced1[c] = raced[c] /\ probed1[c] = probed[c]
    BY <1>2 DEF Inv, TypeOK
  <1>5. Commit(r, [row EXCEPT ![c0] = Merge(@, req[r].seen, gone)], raced1, probed1)
    BY DEF EndDelete
  <1> HIDE DEF gone, raced1, probed1
  <1> QED
    BY <1>1, <1>3, <1>4, <1>5, MergeKeeps DEF Up

LEMMA CheckSupportedKeeps ==
  ASSUME Inv, NEW r \in Requests, CheckSupported(r)
  PROVE  Inv'
  <1> DEFINE c0 == req[r].config
             good == [req[r].seen EXCEPT !.status = "active", !.checked = "recent"]
             raced1 == [raced EXCEPT ![c0] = raced[c0] \/ req[r].late]
             probed1 == [probed EXCEPT ![c0] = req[r].seen.settings]
  <1>1. req[r] # None /\ req[r].kind = "check" /\ c0 # None
    BY DEF CheckSupported, Inv, InFlight
  <1>2. /\ c0 \in Configs /\ req[r].seen \in Row /\ req[r].late \in BOOLEAN
    BY <1>1, InHand
  <1>3. /\ good \in Row /\ good.status = "active" /\ good.settings = req[r].seen.settings
        /\ req[r].seen.settings \in Settings \cup {None}
    BY <1>2 DEF Row
  <1>4. /\ raced1 \in [Configs -> BOOLEAN] /\ raced1[c0] = (raced[c0] \/ req[r].late)
        /\ probed1 \in [Configs -> Settings \cup {None}]
        /\ probed1[c0] = req[r].seen.settings
        /\ \A c \in Configs \ {c0} : raced1[c] = raced[c] /\ probed1[c] = probed[c]
    BY <1>2, <1>3 DEF Inv, TypeOK
  <1>5. Commit(r, [row EXCEPT ![c0] = Merge(@, req[r].seen, good)], raced1, probed1)
    BY DEF CheckSupported
  <1> HIDE DEF good, raced1, probed1
  <1> QED
    BY <1>1, <1>3, <1>4, <1>5, MergeKeeps DEF Up

LEMMA CheckFailedKeeps ==
  ASSUME Inv, NEW r \in Requests, CheckFailed(r)
  PROVE  Inv'
  <1>1. req' = [req EXCEPT ![r] = None] /\ UNCHANGED <<row, probed, raced>>
    BY DEF CheckFailed
  <1>2. \A q \in Requests : InFlight(q)'
    BY <1>1 DEF Inv, TypeOK, InFlight, Enabled
  <1>3. TypeOK'
    BY <1>1 DEF Inv, TypeOK
  <1>4. UsableWasProbed' /\ OneConfiguration'
    BY <1>1 DEF Inv, UsableWasProbed, OneConfiguration, Usable, Enabled
  <1> QED
    BY <1>2, <1>3, <1>4 DEF Inv

-----------------------------------------------------------------------------
(* The invariant, and what follows from it *)

LEMMA NextKeeps == Inv /\ [Next]_vars => Inv'
  <1> SUFFICES ASSUME Inv, [Next]_vars PROVE Inv'
    OBVIOUS
  <1>1. CASE CooledDown
    BY <1>1, CooledDownKeeps
  <1>2. ASSUME NEW r \in Requests,
               StartCreate(r) \/ StartUpdate(r) \/ StartDelete(r) \/ StartCheck(r)
        PROVE  Inv'
    BY <1>2, StartsKeep
  <1>3. ASSUME NEW r \in Requests, Overwrite(r) PROVE Inv'
    BY <1>3, OverwriteKeeps
  <1>4. ASSUME NEW r \in Requests, Insert(r) PROVE Inv'
    BY <1>4, InsertKeeps
  <1>5. ASSUME NEW r \in Requests, EndUpdate(r) PROVE Inv'
    BY <1>5, EndUpdateKeeps
  <1>6. ASSUME NEW r \in Requests, EndDelete(r) PROVE Inv'
    BY <1>6, EndDeleteKeeps
  <1>7. ASSUME NEW r \in Requests, CheckSupported(r) PROVE Inv'
    BY <1>7, CheckSupportedKeeps
  <1>8. ASSUME NEW r \in Requests, CheckFailed(r) PROVE Inv'
    BY <1>8, CheckFailedKeeps
  <1>9. CASE UNCHANGED vars
    <2>1. \A q \in Requests : InFlight(q)'
      BY <1>9 DEF Inv, vars, InFlight, Enabled
    <2>2. TypeOK' /\ UsableWasProbed' /\ OneConfiguration'
      BY <1>9 DEF Inv, vars, TypeOK, UsableWasProbed, OneConfiguration, Usable, Enabled
    <2> QED
      BY <2>1, <2>2 DEF Inv
  <1> QED
    BY <1>1, <1>2, <1>3, <1>4, <1>5, <1>6, <1>7, <1>8, <1>9 DEF Next

LEMMA Invariance == Spec => []Inv
  BY InitInv, NextKeeps, PTL DEF Spec

(* The table, the calls in flight and the history keep their types.        *)
THEOREM TypeCorrect == Spec => []TypeOK
  BY Invariance, PTL DEF Inv

(* _resolve_llm_client and _llm_client build a client only for settings a   *)
(* probe has answered for, unless a late call wrote the row.               *)
THEOREM ClientsAreProbed == Spec => []UsableWasProbed
  BY Invariance, PTL DEF Inv

(* One configuration is enabled and holds the default, unless a late call   *)
(* wrote the row.                                                          *)
THEOREM OneIsEnabled == Spec => []OneConfiguration
  BY Invariance, PTL DEF Inv

-----------------------------------------------------------------------------
(* A deleted configuration *)

(* A commit over the row a call holds: it was enabled when it was read, so  *)
(* the call is late if it is disabled now.                                 *)
LEMMA LateOverDisabled ==
  ASSUME Inv, NEW r \in Requests, req[r] # None, req[r].config # None,
         row[req[r].config].status = "disabled"
  PROVE  req[r].late /\ req[r].config \in Configs
  BY InHand DEF Up

LEMMA ComesBackRaced ==
  ASSUME Inv, NEW c \in Configs, row[c].status = "disabled",
         row'[c].status # "disabled", Next
  PROVE  raced'[c]
  <1>0. row[c] \in Row /\ c \notin Enabled
    BY DEF Inv, TypeOK, Enabled
  <1>1. ~ CooledDown
    <2> SUFFICES ASSUME CooledDown PROVE row'[c].status = row[c].status
      OBVIOUS
    <2>1. Aged(row[c]).status = row[c].status
      BY <1>0 DEF Aged, Row
    <2> QED
      BY <2>1 DEF CooledDown, Inv, TypeOK
  <1>2. PICK r \in Requests :
           \/ StartCreate(r) \/ StartUpdate(r) \/ StartDelete(r) \/ StartCheck(r)
           \/ Overwrite(r) \/ Insert(r) \/ EndUpdate(r) \/ EndDelete(r)
           \/ CheckSupported(r) \/ CheckFailed(r)
    BY <1>1 DEF Next
  <1>3. CASE \/ StartCreate(r) \/ StartUpdate(r) \/ StartDelete(r) \/ StartCheck(r)
             \/ CheckFailed(r)
    BY <1>3 DEF StartCreate, StartUpdate, StartDelete, StartCheck, CheckFailed, Read
  <1>4. CASE Overwrite(r)
    <2>1. PICK rows, probed1 :
             /\ req[r] # None /\ req[r].config # None
             /\ c # req[r].config => rows[c] = row[c]
             /\ Commit(r, rows, [d \in Configs |->
                   IF d = req[r].config THEN req[r].late
                   ELSE raced[d] /\ d \notin Enabled], probed1)
      BY <1>0, <1>4 DEF Overwrite
    <2> QED
      BY <2>1, CommitCases, LateOverDisabled
  <1>5. CASE Insert(r)
    <2>1. PICK n, rows, raced1, probed1 :
             /\ n \in Configs
             /\ row[n].status = "absent"
             /\ c # n => rows[c] = [row[c] EXCEPT !.default = FALSE]
             /\ Commit(r, rows, raced1, probed1)
      BY <1>5 DEF Insert
    <2>2. c # n /\ rows[c].status = "disabled"
      BY <1>0, <2>1 DEF Row
    <2> QED
      BY <2>1, <2>2, CommitCases
  <1>6. CASE EndUpdate(r)
    <2>1. req[r] # None /\ req[r].config # None
      BY <1>6 DEF EndUpdate, Inv, InFlight
    <2>2. PICK rows, probed1 :
             /\ c # req[r].config => rows[c] = [row[c] EXCEPT !.default = FALSE]
             /\ Commit(r, rows, [raced EXCEPT ![req[r].config] = @ \/ req[r].late], probed1)
      BY <1>6 DEF EndUpdate
    <2>3. c # req[r].config => rows[c].status = "disabled"
      BY <1>0, <2>2 DEF Row
    <2> QED
      BY <2>1, <2>2, <2>3, CommitCases, LateOverDisabled DEF Inv, TypeOK
  <1>7. CASE EndDelete(r)
    <2>1. req[r] # None /\ req[r].config # None
      BY <1>7 DEF EndDelete, Inv, InFlight
    <2>2. PICK rows, probed1 :
             /\ c # req[r].config => rows[c] = row[c]
             /\ Commit(r, rows, [raced EXCEPT ![req[r].config] = req[r].late], probed1)
      BY <1>7 DEF EndDelete, Inv, TypeOK
    <2> QED
      BY <2>1, <2>2, CommitCases, LateOverDisabled DEF Inv, TypeOK
  <1>8. CASE CheckSupported(r)
    <2>1. req[r] # None /\ req[r].config # None
      BY <1>8 DEF CheckSupported, Inv, InFlight
    <2>2. PICK rows, probed1 :
             /\ c # req[r].config => rows[c] = row[c]
             /\ Commit(r, rows, [raced EXCEPT ![req[r].config] = @ \/ req[r].late], probed1)
      BY <1>8 DEF CheckSupported, Inv, TypeOK
    <2> QED
      BY <2>1, <2>2, CommitCases, LateOverDisabled DEF Inv, TypeOK
  <1> QED
    BY <1>2, <1>3, <1>4, <1>5, <1>6, <1>7, <1>8

(* get refuses a deleted configuration and create never picks one: only a   *)
(* call that read it before may bring it back.                             *)
THEOREM DeletionIsFinal == Spec => DeletedStays
  <1> DEFINE Back == \A c \in Configs :
                row[c].status = "disabled" /\ row'[c].status # "disabled" => raced'[c]
  <1>1. Inv /\ [Next]_vars => [Back]_vars
    BY ComesBackRaced
  <1> QED
    BY <1>1, Invariance, PTL DEF Spec, DeletedStays

=============================================================================
