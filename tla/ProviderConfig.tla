--------------------------- MODULE ProviderConfig ---------------------------
(***************************************************************************)
(* The LLM provider configurations of one user: llm_provider_service.py    *)
(* behind routers/llm_providers.py. Every call reads its row, awaits and    *)
(* writes at the end; nothing is locked in between, and a health check     *)
(* waits for the provider with the row in hand. Create, delete and the      *)
(* health check write through the ORM, which sends only the columns whose   *)
(* value differs from the one that was read; update sends a statement.      *)
(*                                                                         *)
(* The settings of a row are the fields a ping uses (provider, region, base *)
(* URL, model, key) taken as one value. A request that read and has not yet *)
(* committed is `late` once another commit changes what it read; a row      *)
(* written by a late request is `raced` until a call that was not late      *)
(* creates it anew or deletes it. Both are history for the properties.      *)
(***************************************************************************)
EXTENDS Integers, FiniteSets

CONSTANTS MaxConfigs,   \* rows the user may ever insert (a bound of the model)
          Requests,     \* calls in flight
          Settings,     \* what a ping may be sent with
          None          \* no request, no row, no settings

ASSUME MaxConfigsAssumption == MaxConfigs \in Nat \ {0}
ASSUME NoneAssumption == None \notin Settings /\ None \notin Int

(* The primary keys, in the order of created_at. *)
Configs == 1 .. MaxConfigs

VARIABLES row,      \* the table llm_provider_configs
          req,      \* the calls that have read and not yet committed
          probed,   \* the settings of the last good probe since the row was drafted
          raced     \* rows a late request wrote

vars == <<row, req, probed, raced>>

Row == [status : {"absent", "draft", "active", "error", "disabled"},
        default : BOOLEAN,
        settings : Settings \cup {None},
        checked : {"never", "recent", "past"}]

Absent == [status |-> "absent", default |-> FALSE,
           settings |-> None, checked |-> "never"]

Request == [kind : {"create", "update", "delete", "check"},
            config : Configs \cup {None},   \* None: create found no row
            seen : Row,
            set : Settings \cup {None},     \* None: only the strong model
            late : BOOLEAN]

TypeOK ==
    /\ row \in [Configs -> Row]
    /\ req \in [Requests -> Request \cup {None}]
    /\ probed \in [Configs -> Settings \cup {None}]
    /\ raced \in [Configs -> BOOLEAN]

Init ==
    /\ row = [c \in Configs |-> Absent]
    /\ req = [r \in Requests |-> None]
    /\ probed = [c \in Configs |-> None]
    /\ raced = [c \in Configs |-> FALSE]

-----------------------------------------------------------------------------
(* Reads *)

(* Mutant of Enabled: get without the filter on DISABLED. *)
EnabledAnyStatus == {c \in Configs : row[c].status # "absent"}

(* What get and list return: the rows that are not disabled. *)
Enabled == {c \in Configs : row[c].status \notin {"absent", "disabled"}}

(* _get_first_user_config: the default first, then the oldest. *)
IsFirst(c) ==
    /\ c \in Enabled
    /\ \A d \in Enabled \ {c} :
          \/ row[c].default /\ ~ row[d].default
          \/ row[c].default = row[d].default /\ c < d

(* Whom _resolve_llm_client and _llm_client build a client for. *)
Usable(c) == row[c].status = "active"

Read(r, kind, c, s) ==
    /\ req[r] = None
    /\ req' = [req EXCEPT ![r] =
          [kind |-> kind, config |-> c, set |-> s, late |-> FALSE,
           seen |-> IF c = None THEN Absent ELSE row[c]]]
    /\ UNCHANGED <<row, probed, raced>>

(* create, as far as its first await: the row it will overwrite. *)
StartCreate(r) ==
    \E s \in Settings :
       \/ Enabled = {} /\ Read(r, "create", None, s)
       \/ \E c \in Configs : IsFirst(c) /\ Read(r, "create", c, s)

(* update and delete begin with get, which refuses a disabled row. *)
StartUpdate(r) ==
    \E c \in Enabled, s \in Settings \cup {None} : Read(r, "update", c, s)

StartDelete(r) ==
    \E c \in Enabled : Read(r, "delete", c, None)

(* health_check: refused for thirty seconds after the last one. *)
StartCheck(r) ==
    \E c \in Enabled : row[c].checked # "recent" /\ Read(r, "check", c, None)

-----------------------------------------------------------------------------
(* Writes *)

(* The ORM writes the columns whose value is not the one it read. *)
Merge(now, seen, new) ==
    [f \in DOMAIN now |-> IF new[f] # seen[f] THEN new[f] ELSE now[f]]

(* The partial unique index uq_llm_provider_default_user. *)
OneDefault(rows) ==
    \A c, d \in Configs : rows[c].default /\ rows[d].default => c = d

(* The end of get_db: commit, or a rollback when the index refuses. *)
Commit(r, rows, raced1, probed1) ==
    LET Overtaken(q) == /\ req[q] # None
                        /\ IF req[q].config = None THEN rows # row
                           ELSE rows[req[q].config] # row[req[q].config]
    IN  IF OneDefault(rows)
        THEN /\ row' = rows
             /\ raced' = raced1
             /\ probed' = probed1
             /\ req' = [q \in Requests |->
                   IF q = r THEN None
                   ELSE IF Overtaken(q) THEN [req[q] EXCEPT !.late = TRUE]
                   ELSE req[q]]
        ELSE /\ req' = [req EXCEPT ![r] = None]
             /\ UNCHANGED <<row, probed, raced>>

Draft(s) == [status |-> "draft", default |-> TRUE,
             settings |-> s, checked |-> "never"]

(* Mutant of Overwrite: _disable_user_configs_except is not called, only    *)
(* the defaults are taken away.                                             *)
OverwriteAlone(r) ==
    LET e == req[r].config
        rows == [c \in Configs |->
           IF c = e THEN Merge(row[c], req[r].seen, Draft(req[r].set))
           ELSE [row[c] EXCEPT !.default = FALSE]]
    IN  /\ req[r] # None /\ req[r].kind = "create" /\ e # None
        /\ Commit(r, rows,
              [c \in Configs |-> IF c = e THEN req[r].late
                                 ELSE raced[c] /\ c \notin Enabled],
              [c \in Configs |-> IF c \in Enabled \cup {e} THEN None ELSE probed[c]])

(* create over a row: the others are disabled, this one starts again as a   *)
(* draft.                                                                   *)
Overwrite(r) ==
    LET e == req[r].config
        rows == [c \in Configs |->
           IF c = e THEN Merge(row[c], req[r].seen, Draft(req[r].set))
           ELSE IF c \in Enabled
                THEN [row[c] EXCEPT !.status = "disabled", !.default = FALSE]
           ELSE row[c]]
    IN  /\ req[r] # None /\ req[r].kind = "create" /\ e # None
        /\ Commit(r, rows,
              [c \in Configs |-> IF c = e THEN req[r].late
                                 ELSE raced[c] /\ c \notin Enabled],
              [c \in Configs |-> IF c \in Enabled \cup {e} THEN None ELSE probed[c]])

(* create when no row was found: the default is taken from every row. *)
Insert(r) ==
    \E n \in Configs :
       LET rows == [c \in Configs |->
              IF c = n THEN Draft(req[r].set)
              ELSE [row[c] EXCEPT !.default = FALSE]]
       IN /\ req[r] # None /\ req[r].kind = "create" /\ req[r].config = None
          /\ row[n].status = "absent"
          /\ \A c \in Configs : c < n => row[c].status # "absent"
          /\ Commit(r, rows, [raced EXCEPT ![n] = req[r].late], probed)

(* Mutant of Revalidate: the settings that count are compared only while    *)
(* the row has never been checked.                                          *)
RevalidateUnchecked(r) ==
    req[r].set # None /\ req[r].set # req[r].seen.settings
    /\ req[r].seen.checked = "never"

(* _requires_revalidation compares with the row that was read. *)
Revalidate(r) == req[r].set # None /\ req[r].set # req[r].seen.settings

(* update: the statement names every column it sets. *)
EndUpdate(r) ==
    LET c0 == req[r].config
        Sent(rw) == [rw EXCEPT !.default = TRUE,
                               !.settings = IF req[r].set = None THEN @ ELSE req[r].set]
        rows == [c \in Configs |->
           IF c # c0 THEN [row[c] EXCEPT !.default = FALSE]
           ELSE IF Revalidate(r)
                THEN [Sent(row[c]) EXCEPT !.status = "draft", !.checked = "never"]
           ELSE Sent(row[c])]
    IN  /\ req[r] # None /\ req[r].kind = "update"
        /\ Commit(r, rows, [raced EXCEPT ![c0] = @ \/ req[r].late],
                  IF Revalidate(r) THEN [probed EXCEPT ![c0] = None] ELSE probed)

EndDelete(r) ==
    LET c0 == req[r].config
        gone == [req[r].seen EXCEPT !.status = "disabled", !.default = FALSE]
    IN  /\ req[r] # None /\ req[r].kind = "delete"
        /\ Commit(r, [row EXCEPT ![c0] = Merge(@, req[r].seen, gone)],
                  [raced EXCEPT ![c0] = req[r].late],
                  [probed EXCEPT ![c0] = None])

(* health_check: the provider answered with a call of the probe tool. *)
CheckSupported(r) ==
    LET c0 == req[r].config
        good == [req[r].seen EXCEPT !.status = "active", !.checked = "recent"]
    IN  /\ req[r] # None /\ req[r].kind = "check"
        /\ Commit(r, [row EXCEPT ![c0] = Merge(@, req[r].seen, good)],
                  [raced EXCEPT ![c0] = @ \/ req[r].late],
                  [probed EXCEPT ![c0] = req[r].seen.settings])

(* health_check: no answer, or none with a tool call. The service marks the *)
(* row ERROR and raises; the router turns that into an HTTP error, at which *)
(* get_db rolls the mark back.                                              *)
CheckFailed(r) ==
    /\ req[r] # None /\ req[r].kind = "check"
    /\ req' = [req EXCEPT ![r] = None]
    /\ UNCHANGED <<row, probed, raced>>

(* Thirty seconds pass for a row, and for every copy of it. *)
Aged(rw) == [rw EXCEPT !.checked = IF @ = "recent" THEN "past" ELSE @]

CooledDown ==
    \E c \in Configs :
       /\ row[c].checked = "recent"
       /\ row' = [row EXCEPT ![c] = Aged(@)]
       /\ req' = [q \in Requests |->
             IF req[q] # None /\ req[q].config = c
             THEN [req[q] EXCEPT !.seen = Aged(@)] ELSE req[q]]
       /\ UNCHANGED <<probed, raced>>

-----------------------------------------------------------------------------
Next ==
    \/ CooledDown
    \/ \E r \in Requests :
          \/ StartCreate(r) \/ StartUpdate(r) \/ StartDelete(r) \/ StartCheck(r)
          \/ Overwrite(r) \/ Insert(r) \/ EndUpdate(r) \/ EndDelete(r)
          \/ CheckSupported(r) \/ CheckFailed(r)

Spec == Init /\ [][Next]_vars

-----------------------------------------------------------------------------
(* Properties *)

(* A client is built only for settings that a probe was seen to answer: a   *)
(* row whose settings changed since (update, create) is a draft again. The  *)
(* exception is a row that a late request wrote: a health check that comes  *)
(* back after an update makes ACTIVE what nobody probed.                    *)
UsableWasProbed ==
    \A c \in Configs : Usable(c) => probed[c] = row[c].settings \/ raced[c]

(* A user has one configuration, and the default is it: create disables the *)
(* others and update moves the default. Two creates at once, or a check     *)
(* that outlives a delete, leave more; one of them is then raced. A default *)
(* left on a disabled row makes the index refuse every later create.        *)
OneConfiguration ==
    /\ \A c, d \in Enabled : ~ raced[c] /\ ~ raced[d] => c = d
    /\ \A c \in Configs : row[c].default => c \in Enabled \/ raced[c]

(* A deleted configuration comes back only through a request that had read  *)
(* it before: get refuses a disabled row, and create never picks one.       *)
DeletedStays ==
    [][\A c \in Configs :
          row[c].status = "disabled" /\ row'[c].status # "disabled" => raced'[c]]_vars

=============================================================================
