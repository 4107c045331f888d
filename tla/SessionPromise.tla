--------------------------- MODULE SessionPromise ---------------------------
(***************************************************************************)
(* What the session daemon promises its clients about one session, with no *)
(* locks, threads, maps or files in sight; SessionTable implements it.     *)
(*                                                                         *)
(* A session is opened once, announced once, and withdrawn once.  Until    *)
(* its removal has reached the ledger it may come back after the daemon    *)
(* dies, but only as a lost row, never as a live one.  A kill that was     *)
(* answered "ok" is final: nothing of the session ever comes back.         *)
(***************************************************************************)
CONSTANTS
    Sessions,  \* session ids
    Clients,   \* whoever is answered: one request each at a time
    Nothing    \* "no answered kill"

VARIABLES
    phase,  \* how far each session has come
    acked   \* the session whose kill each client is being answered "ok" for

Phases == {"unborn", "opening", "live", "lost", "closing", "ended"}

Init ==
    /\ phase \in [Sessions -> {"unborn", "lost"}]
    /\ acked = [c \in Clients |-> Nothing]

Open(s) ==
    /\ phase[s] = "unborn"
    /\ phase' = [phase EXCEPT ![s] = "opening"]
    /\ UNCHANGED acked

Announce(s) ==
    /\ phase[s] = "opening"
    /\ phase' = [phase EXCEPT ![s] = "live"]
    /\ UNCHANGED acked

\* Sessions are withdrawn, by a kill of one or of its workspace or by a create
\* that is undone; and withdrawn sessions leave the ledger.
Withdrawn(p) ==
    CASE p \in {"opening", "live", "lost"} -> {p, "closing", "ended"}
      [] p = "closing" -> {"closing", "ended"}
      [] OTHER -> {p}

Withdraw ==
    /\ phase' \in [Sessions -> Phases]
    /\ \A s \in Sessions : phase'[s] \in Withdrawn(phase[s])
    /\ UNCHANGED acked

\* A kill is answered "ok" once nothing can bring the session back.
Ack(c, s) ==
    /\ phase[s] = "ended"
    /\ acked' = [acked EXCEPT ![c] = s]
    /\ UNCHANGED phase

Answered(c) ==
    /\ acked' = [acked EXCEPT ![c] = Nothing]
    /\ UNCHANGED phase

\* The daemon dies and the next one loads the ledger: a live session is lost,
\* what was lost, half open or half closed is lost or forgotten, and what had
\* ended stays so.
Survives(p) ==
    CASE p = "live" -> {"lost"}
      [] p \in {"opening", "closing", "lost"} -> {"lost", "ended"}
      [] OTHER -> {p}

Crash ==
    /\ phase' \in [Sessions -> Phases]
    /\ \A s \in Sessions : phase'[s] \in Survives(phase[s])
    /\ acked' = [c \in Clients |-> Nothing]

Next ==
    \/ \E s \in Sessions : Open(s) \/ Announce(s)
    \/ Withdraw
    \/ \E c \in Clients : Answered(c) \/ \E s \in Sessions : Ack(c, s)
    \/ Crash

Spec == Init /\ [][Next]_<<phase, acked>>
=============================================================================
