--------------------------- MODULE ApprovalLedger ---------------------------
(***************************************************************************)
(* What the agent-session service promises about its two scarce things:    *)
(* the slot (one live session per user, project and artifact type) and the *)
(* approval proposals (each is made by the session that holds the slot,    *)
(* decided at most once, and approved or rejected only while its session   *)
(* has not ended).  AgentSession implements this with rows, locks, queued  *)
(* messages and background turns.                                          *)
(***************************************************************************)
CONSTANTS Sessions, Proposals, NoSession

VARIABLES
    phase,     \* where each session stands
    verdict,   \* what became of each proposal
    owner      \* the session that made it

ledgerVars == <<phase, verdict, owner>>

(* "out": no such row; "holding": in the slot; "resting": its turn failed  *)
(* and it can be resumed; "closed": it takes no more decisions.            *)
Phases == {"out", "holding", "resting", "closed"}

Free(s) == \A o \in Sessions \ {s} : phase[o] # "holding"

Init ==
    /\ phase = [s \in Sessions |-> "out"]
    /\ verdict = [p \in Proposals |-> "unused"]
    /\ owner = [p \in Proposals |-> NoSession]

(* A session changes phase; it enters the slot only when the slot is free. *)
Move(s, ph) ==
    /\ ph = "holding" => Free(s)
    /\ phase' = [phase EXCEPT ![s] = ph]
    /\ UNCHANGED <<verdict, owner>>

(* A session in the slot, or entering it, asks for an approval.            *)
Ask(p, s) ==
    /\ verdict[p] = "unused"
    /\ Free(s)
    /\ phase' = [phase EXCEPT ![s] = "holding"]
    /\ verdict' = [verdict EXCEPT ![p] = "proposed"]
    /\ owner' = [owner EXCEPT ![p] = s]

(* The human's verdict stands for good.                                    *)
Judge(p, v) ==
    /\ verdict[p] = "proposed"
    /\ phase[owner[p]] \in {"holding", "resting"}
    /\ verdict' = [verdict EXCEPT ![p] = v]
    /\ UNCHANGED <<phase, owner>>

(* A request to edit sets the proposal aside, even in a closed session.    *)
SetAside(p) ==
    /\ verdict[p] = "proposed"
    /\ verdict' = [verdict EXCEPT ![p] = "superseded"]
    /\ UNCHANGED <<phase, owner>>

Next ==
    \/ \E s \in Sessions, ph \in Phases : Move(s, ph)
    \/ \E p \in Proposals, s \in Sessions : Ask(p, s)
    \/ \E p \in Proposals, v \in {"executed", "rejected"} : Judge(p, v)
    \/ \E p \in Proposals : SetAside(p)

Spec == Init /\ [][Next]_ledgerVars

=============================================================================
