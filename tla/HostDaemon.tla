----------------------------- MODULE HostDaemon -----------------------------
(***************************************************************************)
(* The daemon processes of one host: crates/ade_session_daemon, server.rs  *)
(* (bind_listener, DaemonControl, the idle watcher, serve_connection's     *)
(* gates) and proxy.rs (start-if-absent).                                  *)
(*                                                                         *)
(* Clients connect to the socket path and start a daemon when nobody       *)
(* answers.  A daemon leaves when it has been idle, when a client asks it  *)
(* to and nothing worth keeping is held, or when a client insists.         *)
(* Starting and leaving take several file-system steps, and the processes  *)
(* interleave between any two of them.                                     *)
(*                                                                         *)
(* What a daemon's table holds is abstracted to what the gates ask of it:  *)
(* nothing but lost rows ("empty"), idle shells too ("idle"), or something *)
(* that must be kept ("busy").                                             *)
(***************************************************************************)
EXTENDS Naturals, FiniteSets

CONSTANTS
    Clients,      \* proxies, and the connections they carry
    Daemons,      \* daemon processes that may be started, in any order
    None,
    MaxStarting,  \* bound: daemons inside bind_listener at the same time
    Ops           \* which of AllOps may happen

AllOps == {"request", "shutdown", "force", "idle", "crash", "drift", "hangup", "timeout"}

ASSUME HostAssumption ==
    /\ None \notin Daemons
    /\ IsFiniteSet(Clients) /\ IsFiniteSet(Daemons)
    /\ MaxStarting \in Nat \ {0}
    /\ Ops \subseteq AllOps

VARIABLES
    file,      \* the daemon whose listener the socket path names, or None
    pidfile,   \* the daemon whose pid is recorded, or None
    daemon,    \* each process: where it is, and why it leaves
    shutting,  \* DaemonControl.shutting_down
    active,    \* DaemonControl.active_state_requests
    held,      \* what each daemon's session table holds
    client,    \* each client: where it is, and the daemon it is connected to
    strayed    \* history: daemons that another's start raced, or such a daemon's exit unlinked

vars == <<file, pidfile, daemon, shutting, active, held, client, strayed>>

Binding == {"exists", "probe", "remove", "bind"}
Leaving == {"unlink", "unpid", "exit"}
DaemonPcs == {"absent", "loading", "serving", "dead"} \cup Binding \cup Leaving
Reasons == {"none", "refused", "idle", "polite", "forced", "crashed"}

\* A connection's serve_connection task, and the client's own states.
Served == {"shaken", "handling", "acking"}
Counted == Served \cup {"opened"}
ClientPcs == Counted \cup {"start", "waiting", "backlog", "acked", "failed",
                           "eof", "cut", "unacked"}

\* What the variables range over.
TypeOK ==
    /\ file \in Daemons \cup {None} /\ pidfile \in Daemons \cup {None}
    /\ daemon \in [Daemons -> [pc : DaemonPcs, why : Reasons]]
    /\ shutting \subseteq Daemons
    /\ active \in [Daemons -> Nat]
    /\ held \in [Daemons -> {"empty", "idle", "busy"}]
    /\ client \in [Clients -> [pc : ClientPcs, at : Daemons \cup {None}, retried : BOOLEAN]]
    /\ strayed \subseteq Daemons

Init ==
    /\ file = None /\ pidfile = None
    /\ daemon = [d \in Daemons |-> [pc |-> "absent", why |-> "none"]]
    /\ shutting = {}
    /\ active = [d \in Daemons |-> 0]
    /\ held = [d \in Daemons |-> "empty"]
    /\ client = [c \in Clients |-> [pc |-> "start", at |-> None, retried |-> FALSE]]
    /\ strayed = {}

Bound == {d \in Daemons : daemon[d].pc \in {"loading", "serving"} \cup Leaving}

\* A connect to the path succeeds: the listener behind it still lives.
Answers == file \in Bound

At(d, pcs) == {c \in Clients : client[c].at = d /\ client[c].pc \in pcs}

Goto(d, pc) == daemon' = [daemon EXCEPT ![d].pc = pc]

\* A process ends, and every connection to it with it.
Ends(d, why) ==
    /\ daemon' = [daemon EXCEPT ![d] = [pc |-> "dead", why |-> why]]
    /\ client' = [c \in Clients |->
                    IF c \notin At(d, Counted \cup {"backlog"}) THEN client[c]
                    ELSE [client[c] EXCEPT !.pc = CASE @ = "handling" -> "cut"
                                                    [] @ = "acking" -> "unacked"
                                                    [] OTHER -> "eof"]]

-----------------------------------------------------------------------------
(* Starting a daemon: Server::bind.                                         *)

\* bind_listener, one system call per step.
Exists(d) ==
    /\ daemon[d].pc = "exists"
    /\ Goto(d, IF file = None THEN "bind" ELSE "probe")
    /\ UNCHANGED <<file, pidfile, shutting, active, held, client, strayed>>

Probe(d) ==
    /\ daemon[d].pc = "probe"
    /\ IF Answers THEN Ends(d, "refused")
       ELSE Goto(d, "remove") /\ UNCHANGED client
    /\ UNCHANGED <<file, pidfile, shutting, active, held, strayed>>

Remove(d) ==
    /\ daemon[d].pc = "remove"
    /\ IF file = None THEN Ends(d, "refused")
       ELSE Goto(d, "bind") /\ UNCHANGED client
    /\ file' = None
    /\ UNCHANGED <<pidfile, shutting, active, held, strayed>>

Bind(d) ==
    /\ daemon[d].pc = "bind"
    /\ IF file # None
       THEN Ends(d, "refused") /\ UNCHANGED file
       ELSE Goto(d, "loading") /\ file' = d /\ UNCHANGED client
    /\ UNCHANGED <<pidfile, shutting, active, held, strayed>>

\* write_pid, then SessionTable::load: every row comes back lost.
Load(d) ==
    /\ daemon[d].pc = "loading"
    /\ Goto(d, "serving")
    /\ pidfile' = d
    /\ held' = [held EXCEPT ![d] = "empty"]
    /\ UNCHANGED <<file, shutting, active, client, strayed>>

Starts(d) == Exists(d) \/ Probe(d) \/ Remove(d) \/ Bind(d) \/ Load(d)

-----------------------------------------------------------------------------
(* Leaving: DaemonControl::exit.                                            *)

\* exit sets the flag again and goes on only once (fired).
Leave(d, why) ==
    IF daemon[d].pc \in Leaving THEN UNCHANGED daemon
    ELSE daemon' = [daemon EXCEPT ![d] = [pc |-> "unlink", why |-> why]]

\* The path is unlinked, whoever's listener it names by now.
Unlink(d) ==
    /\ daemon[d].pc = "unlink"
    /\ Goto(d, "unpid")
    /\ file' = None
    /\ strayed' = IF d \in strayed THEN strayed \cup ({file} \ {d, None}) ELSE strayed
    /\ UNCHANGED <<pidfile, shutting, active, held, client>>

\* Mutant: the path is tidied up a second time.
RemovePidAndPath(d) ==
    /\ daemon[d].pc = "unpid"
    /\ Goto(d, "exit")
    /\ pidfile' = None
    /\ file' = None
    /\ UNCHANGED <<shutting, active, held, client, strayed>>

RemovePid(d) ==
    /\ daemon[d].pc = "unpid"
    /\ Goto(d, "exit")
    /\ pidfile' = None
    /\ UNCHANGED <<file, shutting, active, held, client, strayed>>

\* process::exit.
Exit(d) ==
    /\ daemon[d].pc = "exit"
    /\ Ends(d, daemon[d].why)
    /\ UNCHANGED <<file, pidfile, shutting, active, held, strayed>>

Leaves(d) == Unlink(d) \/ RemovePid(d) \/ Exit(d)

\* Mutant: the watcher looks at the table only.
IdleExitAnyway(d) ==
    /\ "idle" \in Ops /\ daemon[d].pc = "serving"
    /\ active[d] = 0 /\ held[d] = "empty"
    /\ shutting' = shutting \cup {d}
    /\ Leave(d, "idle")
    /\ UNCHANGED <<file, pidfile, active, held, client, strayed>>

\* spawn_idle_watcher's last look, under the admission lock: no request, no
\* connection, nothing but lost rows.
IdleExit(d) ==
    /\ "idle" \in Ops /\ daemon[d].pc = "serving"
    /\ active[d] = 0 /\ At(d, Counted) = {} /\ held[d] = "empty"
    /\ shutting' = shutting \cup {d}
    /\ Leave(d, "idle")
    /\ UNCHANGED <<file, pidfile, active, held, client, strayed>>

\* The process is killed.
Crash(d) ==
    /\ "crash" \in Ops /\ d \in Bound
    /\ Ends(d, "crashed")
    /\ UNCHANGED <<file, pidfile, shutting, active, held, strayed>>

\* An idle shell starts something by itself, or a busy one falls quiet.
Drift(d) ==
    /\ "drift" \in Ops /\ daemon[d].pc = "serving" /\ held[d] # "empty"
    /\ held' = [held EXCEPT ![d] = IF @ = "idle" THEN "busy" ELSE "idle"]
    /\ UNCHANGED <<file, pidfile, daemon, shutting, active, client, strayed>>

-----------------------------------------------------------------------------
(* Clients: connect_or_start and ensure.                                    *)

Starting == {d \in Daemons : daemon[d].pc \in Binding}

\* The first connect; when nobody answers, spawn_daemon.
Connect(c) ==
    /\ client[c].pc = "start"
    /\ \/ /\ Answers
          /\ client' = [client EXCEPT ![c] = [pc |-> "backlog", at |-> file, retried |-> client[c].retried]]
          /\ UNCHANGED <<daemon, strayed>>
       \/ /\ ~ Answers
          /\ Cardinality(Starting) < MaxStarting
          /\ \E d \in Daemons :
                /\ daemon[d].pc = "absent" /\ Goto(d, "exists")
                /\ strayed' = IF Starting = {} THEN strayed ELSE strayed \cup Starting \cup {d}
          /\ client' = [client EXCEPT ![c].pc = "waiting"]
    /\ UNCHANGED <<file, pidfile, shutting, active, held>>

\* A later connect of the retry loop; a failed one changes nothing.
Retry(c) ==
    /\ client[c].pc = "waiting" /\ Answers
    /\ client' = [client EXCEPT ![c] = [pc |-> "backlog", at |-> file, retried |-> client[c].retried]]
    /\ UNCHANGED <<file, pidfile, daemon, shutting, active, held, strayed>>

\* startup_timeout passes.
GiveUp(c) ==
    /\ "timeout" \in Ops /\ client[c].pc = "waiting" /\ ~ Answers
    /\ client' = [client EXCEPT ![c].pc = "failed"]
    /\ UNCHANGED <<file, pidfile, daemon, shutting, active, held, strayed>>

\* A handshake that ended in EOF buys one more attempt (ensure).
Again(c) ==
    /\ client[c].pc = "eof"
    /\ client' = [client EXCEPT ![c] =
                    [pc |-> IF client[c].retried THEN "failed" ELSE "start",
                     at |-> None, retried |-> TRUE]]
    /\ UNCHANGED <<file, pidfile, daemon, shutting, active, held, strayed>>

-----------------------------------------------------------------------------
(* Connections: accept_loop and serve_connection.                           *)

\* connection_opened, and a daemon that is shutting down hangs up at once.
Accept(c) ==
    /\ client[c].pc = "backlog" /\ daemon[client[c].at].pc = "serving"
    /\ client' = [client EXCEPT ![c].pc = IF client[c].at \in shutting THEN "eof"
                                          ELSE "opened"]
    /\ UNCHANGED <<file, pidfile, daemon, shutting, active, held, strayed>>

Handshake(c) ==
    /\ client[c].pc = "opened"
    /\ client' = [client EXCEPT ![c] = [pc |-> "shaken", at |-> client[c].at, retried |-> FALSE]]
    /\ UNCHANGED <<file, pidfile, daemon, shutting, active, held, strayed>>

\* Mutants of Request: one behind an accepted shutdown is admitted; one in
\* flight is not counted.
RequestAnyway(c) ==
    /\ "request" \in Ops /\ client[c].pc = "shaken"
    /\ client' = [client EXCEPT ![c].pc = "handling"]
    /\ active' = [active EXCEPT ![client[c].at] = @ + 1]
    /\ UNCHANGED <<file, pidfile, daemon, shutting, held, strayed>>

\* admit_state_request for a frame that touches_state; a declined one is
\* answered and changes nothing.
Request(c) ==
    /\ "request" \in Ops /\ client[c].pc = "shaken" /\ client[c].at \notin shutting
    /\ client' = [client EXCEPT ![c].pc = "handling"]
    /\ active' = [active EXCEPT ![client[c].at] = @ + 1]
    /\ UNCHANGED <<file, pidfile, daemon, shutting, held, strayed>>

\* The handler is done: sessions may have come or gone, and the guard is dropped.
Finish(c) ==
    /\ client[c].pc = "handling"
    /\ client' = [client EXCEPT ![c].pc = "shaken"]
    /\ \E h \in {"empty", "idle", "busy"} : held' = [held EXCEPT ![client[c].at] = h]
    /\ active' = [active EXCEPT ![client[c].at] = @ - 1]
    /\ UNCHANGED <<file, pidfile, daemon, shutting, strayed>>

\* Mutant: requests in flight are not counted against a shutdown.
ShutdownOverRequests(c, force) ==
    LET d == client[c].at IN
    /\ (IF force THEN "force" ELSE "shutdown") \in Ops
    /\ client[c].pc = "shaken"
    /\ force \/ held[d] # "busy"
    /\ shutting' = shutting \cup {d}
    /\ client' = [client EXCEPT ![c].pc = "acking"]
    /\ daemon' = [daemon EXCEPT ![d].why = IF force THEN "forced"
                                           ELSE IF @ = "none" THEN "polite" ELSE @]
    /\ UNCHANGED <<file, pidfile, active, held, strayed>>

\* A Shutdown frame that admit_shutdown accepts; a declined one is answered and
\* changes nothing.
Shutdown(c, force) ==
    LET d == client[c].at IN
    /\ (IF force THEN "force" ELSE "shutdown") \in Ops
    /\ client[c].pc = "shaken"
    /\ force \/ (active[d] = 0 /\ held[d] # "busy")
    /\ shutting' = shutting \cup {d}
    /\ client' = [client EXCEPT ![c].pc = "acking"]
    /\ daemon' = [daemon EXCEPT ![d].why = IF force THEN "forced"
                                           ELSE IF @ = "none" THEN "polite" ELSE @]
    /\ UNCHANGED <<file, pidfile, active, held, strayed>>

\* Mutant: exit is put off while others are connected.
AckIfAlone(c) ==
    LET d == client[c].at IN
    /\ client[c].pc = "acking"
    /\ client' = [client EXCEPT ![c].pc = "acked"]
    /\ IF At(d, Counted) = {c} THEN Leave(d, daemon[d].why) ELSE UNCHANGED daemon
    /\ UNCHANGED <<file, pidfile, shutting, active, held, strayed>>

\* The writer task has put the ShutdownAck on the wire, then exit.
Ack(c) ==
    LET d == client[c].at IN
    /\ client[c].pc = "acking"
    /\ client' = [client EXCEPT ![c].pc = "acked"]
    /\ Leave(d, daemon[d].why)
    /\ UNCHANGED <<file, pidfile, shutting, active, held, strayed>>

\* The client goes away between requests.
Hangup(c) ==
    /\ "hangup" \in Ops /\ client[c].pc \in {"opened", "shaken"}
    /\ client' = [client EXCEPT ![c] = [pc |-> "start", at |-> None, retried |-> FALSE]]
    /\ UNCHANGED <<file, pidfile, daemon, shutting, active, held, strayed>>

Serves(c) == Accept(c) \/ Handshake(c) \/ Finish(c) \/ Ack(c)

Next ==
    \/ \E d \in Daemons : Starts(d) \/ Leaves(d) \/ IdleExit(d) \/ Crash(d) \/ Drift(d)
    \/ \E c \in Clients :
          \/ Connect(c) \/ Retry(c) \/ GiveUp(c) \/ Again(c)
          \/ Serves(c) \/ Request(c) \/ Hangup(c)
          \/ \E force \in BOOLEAN : Shutdown(c, force)

Spec == Init /\ [][Next]_vars

-----------------------------------------------------------------------------
(* Properties.                                                              *)

\* admit_state_request and admit_shutdown share one gate: a request a daemon has
\* admitted is cut off only by a forced shutdown or a crash, however requests,
\* shutdowns and the idle watcher interleave.
RequestsFinish ==
    \A c \in Clients : client[c].pc = "cut" =>
        daemon[client[c].at].why \in {"forced", "crashed"}

\* spawn_idle_watcher: a daemon that leaves because it was idle takes no session
\* and no client that has been greeted with it.
IdleTakesNothing ==
    \A d \in Daemons :
        daemon[d].pc \in Leaving /\ daemon[d].why = "idle" =>
            held[d] = "empty" /\ At(d, Served) = {}

\* admit_shutdown and serve_connection: an accepted shutdown runs its course.  A
\* daemon that refuses requests because it is shutting down is on its way out, or
\* about to be sent there by the connection whose shutdown it accepted, and never
\* stays behind refusing everything; and the ShutdownAck is on the wire before
\* the process exits, unless another shutdown overtook it and has its answer.
ShutdownRunsItsCourse ==
    /\ \A d \in shutting :
         daemon[d].pc \in Leaving \cup {"dead"} \/ At(d, {"acking"}) # {}
    /\ \A c \in Clients : client[c].pc = "unacked" =>
         LET d == client[c].at
         IN  daemon[d].why = "crashed" \/ At(d, {"acked"}) # {}

\* bind_listener: a daemon that serves is the one the socket path leads to, so
\* a start next to an exit or a crash neither strands one nor runs two; unless
\* two raced through bind_listener, and then it is they and nobody else, but for
\* whom they take the path from as they leave.
ServingReachable ==
    \A d \in Daemons : daemon[d].pc \in {"loading", "serving"} => file = d \/ d \in strayed

\* A daemon takes the ledger over only when no other process has a request in
\* flight that would still write it, unless that one was told to go at once, or
\* a race through bind_listener has the two of them running.
HandoverIsQuiet ==
    [][\A d, e \in Daemons :
          daemon[d].pc = "loading" /\ daemon'[d].pc = "serving" /\ e \in Bound \ {d} =>
              active[e] = 0 \/ daemon[e].why = "forced" \/ {d, e} \cap strayed # {}]_vars

\* proxy: "Two proxies racing is fine: the loser's daemon exits through Server::bind's
\* already-running check".  However starts race, whoever serves can be reached.
RacingIsFine ==
    \A d \in Daemons : daemon[d].pc \in {"loading", "serving"} => file = d

-----------------------------------------------------------------------------
(* The inductive invariant behind these properties.                         *)

\* Where a client stands says where the daemon at the other end stands.
Placed(c) ==
    LET d == client[c].at IN
    /\ client[c].pc \in {"start", "waiting", "failed"} => d = None
    /\ client[c].pc = "backlog" => d \in Bound
    /\ client[c].pc \in Counted => d \in Daemons /\ daemon[d].pc \in {"serving"} \cup Leaving
    /\ client[c].pc = "acking" => d \in shutting
    /\ client[c].pc = "acked" => d \in Daemons /\ daemon[d].pc \in Leaving \cup {"dead"}
    /\ client[c].pc \in {"cut", "unacked"} => d \in Daemons /\ daemon[d].pc = "dead"

\* A request that was admitted is counted until it is done.
ActiveCounts(d) == daemon[d].pc # "dead" => active[d] = Cardinality(At(d, {"handling"}))

\* shutting_down is set for a reason.
GateReason(d) ==
    /\ d \in shutting => daemon[d].pc \in {"serving", "dead"} \cup Leaving
    /\ daemon[d].pc \in Leaving => d \in shutting /\ daemon[d].why \in {"idle", "polite", "forced"}
    /\ daemon[d].pc = "serving" => /\ daemon[d].why \in {"none", "polite", "forced"}
                                   /\ d \in shutting <=> daemon[d].why # "none"
    /\ daemon[d].pc \notin {"serving", "dead"} \cup Leaving => daemon[d].why = "none"

\* It closes the gate to requests unless a client insists; a daemon that has it
\* and serves owes somebody an answer, and one that leaves has given it, unless
\* it was idle and had nobody to answer.
GateClosed(d) ==
    /\ d \in shutting /\ daemon[d].why \notin {"forced", "crashed"} => At(d, {"handling"}) = {}
    /\ d \in shutting /\ daemon[d].pc = "serving" => At(d, {"acking"}) # {}
    /\ daemon[d].pc \in Leaving /\ daemon[d].why # "idle" => At(d, {"acked"}) # {}
    /\ daemon[d].pc \in Leaving /\ daemon[d].why = "idle" =>
          held[d] = "empty" /\ At(d, Counted) = {}

\* What a client that was cut off, or got no answer to its shutdown, tells of the
\* daemon's end.
EndExplained(c) ==
    LET d == client[c].at IN
    /\ client[c].pc = "cut" => daemon[d].why \in {"forced", "crashed"}
    /\ client[c].pc = "unacked" => daemon[d].why = "crashed" \/ At(d, {"acked"}) # {}

HostInv ==
    /\ TypeOK
    /\ \A c \in Clients : Placed(c) /\ EndExplained(c)
    /\ \A d \in Daemons : ActiveCounts(d) /\ GateReason(d) /\ GateClosed(d)

\* A daemon that no other start races starts where nobody holds the path but those
\* that were raced, and has the path to itself from its bind to its unlink.
Holding == {d \in Daemons : daemon[d].pc \in {"loading", "serving", "unlink"}}

OneHolder ==
    /\ \A d \in Starting \ strayed : Starting = {d} /\ Holding \subseteq strayed
    /\ \A d \in Holding \ strayed : file = d /\ Starting = {}
=============================================================================
