-------------------------- MODULE HostDaemonProofs --------------------------
(***************************************************************************)
(* Theorems about HostDaemon, for any number of clients and daemons: what  *)
(* a daemon's end may cut off, and that the socket path leads to a daemon  *)
(* that serves unless its start was raced.                                 *)
(***************************************************************************)
EXTENDS HostDaemon, FiniteSetTheorems, TLAPS

ClientState == [pc : ClientPcs, at : Daemons \cup {None}, retried : BOOLEAN]
DaemonState == [pc : DaemonPcs, why : Reasons]

\* serve_connection's states are among the client's, and daemons' states differ.
LEMMA PcTypes ==
    /\ Counted = {"shaken", "handling", "acking", "opened"}
    /\ Leaving = {"unlink", "unpid", "exit"} /\ Binding = {"exists", "probe", "remove", "bind"}
    /\ Counted \cup {"start", "waiting", "backlog", "acked", "failed", "eof", "cut", "unacked"} = ClientPcs
    /\ {"absent", "loading", "serving", "dead"} \cup Binding \cup Leaving = DaemonPcs
BY DEF Counted, Served, Leaving, Binding, ClientPcs, DaemonPcs

\* A host on which no daemon has run yet.
LEMMA InitHolds == Init => HostInv /\ OneHolder
<1> SUFFICES ASSUME Init PROVE HostInv /\ OneHolder
  OBVIOUS
<1>1. TypeOK
  BY DEF Init, TypeOK, DaemonPcs, Reasons, ClientPcs
<1>2. \A c \in Clients : Placed(c) /\ EndExplained(c)
  BY DEF Init, Placed, EndExplained, Counted, Served
<1>3. \A d \in Daemons : GateReason(d) /\ GateClosed(d)
  BY DEF Init, GateReason, GateClosed, Leaving
<1>4. \A d \in Daemons : At(d, {"handling"}) = {}
  BY DEF Init, At
<1>5. \A d \in Daemons : ActiveCounts(d)
  BY <1>4, FS_EmptySet DEF Init, ActiveCounts
<1>6. OneHolder
  BY DEF Init, OneHolder, Starting, Holding, Binding
<1> QED
  BY <1>1, <1>2, <1>3, <1>5, <1>6 DEF HostInv

\* A connection is where the client is, one for one: what a client's step does to
\* the connections of each daemon.
LEMMA ClientStep ==
    ASSUME TypeOK, NEW c \in Clients, NEW x \in ClientState, client' = [client EXCEPT ![c] = x]
    PROVE  /\ client' \in [Clients -> ClientState]
           /\ client'[c] = x
           /\ \A y \in Clients \ {c} : client'[y] = client[y]
           /\ \A d, pcs : /\ ~ (x.at = d /\ x.pc \in pcs) => At(d, pcs)' = At(d, pcs) \ {c}
                         /\ x.at = d /\ x.pc \in pcs => At(d, pcs)' = At(d, pcs) \cup {c}
BY DEF TypeOK, ClientState, At

\* The connections of a daemon are finitely many.
LEMMA AtFinite == \A d, pcs : IsFiniteSet(At(d, pcs)) /\ Cardinality(At(d, pcs)) \in Nat
<1> SUFFICES ASSUME NEW d, NEW pcs PROVE IsFiniteSet(At(d, pcs)) /\ Cardinality(At(d, pcs)) \in Nat
  OBVIOUS
<1>1. At(d, pcs) \subseteq Clients
  BY DEF At
<1> QED
  BY <1>1, HostAssumption, FS_Subset, FS_CardinalityType

\* The rest of a client's record.
LEMMA ClientTyped ==
    ASSUME TypeOK, NEW c \in Clients
    PROVE  /\ client[c] \in ClientState /\ client[c].pc \in ClientPcs
           /\ client[c].at \in Daemons \cup {None} /\ client[c].retried \in BOOLEAN
BY DEF TypeOK, ClientState

\* connect_or_start, ensure, accept_loop and the handshake: a client that is
\* owed no answer moves between states in which it is owed none.
LEMMA QuietMove ==
    ASSUME HostInv, NEW c \in Clients, NEW x \in ClientState,
           client' = [client EXCEPT ![c] = x],
           UNCHANGED <<file, pidfile, daemon, shutting, active, held, strayed>>,
           client[c].pc \in {"start", "waiting", "failed", "backlog", "opened", "shaken", "eof"},
           x.pc \in {"start", "waiting", "failed", "backlog", "opened", "shaken", "eof"},
           x.pc \in {"start", "waiting", "failed"} => x.at = None,
           x.pc = "backlog" => x.at \in Bound,
           x.pc \in {"opened", "shaken"} =>
              /\ x.at = client[c].at
              /\ x.pc = "shaken" => client[c].pc = "opened"
              /\ x.pc = "opened" => x.at \in Daemons /\ daemon[x.at].pc = "serving"
    PROVE  HostInv'
<1>1. /\ TypeOK /\ \A y \in Clients : Placed(y) /\ EndExplained(y)
      /\ \A d \in Daemons : ActiveCounts(d) /\ GateReason(d) /\ GateClosed(d)
  BY DEF HostInv
<1>2. /\ client' \in [Clients -> ClientState] /\ client'[c] = x
      /\ \A y \in Clients \ {c} : client'[y] = client[y]
      /\ \A d, pcs : /\ ~ (x.at = d /\ x.pc \in pcs) => At(d, pcs)' = At(d, pcs) \ {c}
                    /\ x.at = d /\ x.pc \in pcs => At(d, pcs)' = At(d, pcs) \cup {c}
  BY <1>1, ClientStep
<1>3. TypeOK'
  BY <1>1, <1>2 DEF TypeOK, ClientState
<1>4. \A d : /\ At(d, {"handling"})' = At(d, {"handling"})
             /\ At(d, {"acking"})' = At(d, {"acking"})
             /\ At(d, {"acked"})' = At(d, {"acked"})
  BY <1>2 DEF At
<1>5. \A d \in Daemons : daemon[d].pc \in Leaving /\ At(d, Counted) = {} => At(d, Counted)' = {}
  BY <1>2 DEF At, Counted, Served, Leaving
<1>6. \A d \in Daemons : (ActiveCounts(d) /\ GateReason(d) /\ GateClosed(d))'
  BY <1>1, <1>4, <1>5 DEF ActiveCounts, GateReason, GateClosed
<1>7. ASSUME NEW y \in Clients PROVE (Placed(y) /\ EndExplained(y))'
  <2>1. CASE y = c
    BY <1>1, <1>2, <2>1 DEF Placed, EndExplained, Counted, Served, Bound
  <2>2. CASE y # c
    BY <1>1, <1>2, <1>4, <2>2 DEF Placed, EndExplained, Bound
  <2> QED
    BY <2>1, <2>2
<1> QED
  BY <1>3, <1>6, <1>7 DEF HostInv

\* The states a client may go to, as records.
LEMMA MovesTyped ==
    ASSUME TypeOK, NEW c \in Clients
    PROVE  /\ \A pc \in ClientPcs :
                [client EXCEPT ![c].pc = pc]
                  = [client EXCEPT ![c] = [pc |-> pc, at |-> client[c].at, retried |-> client[c].retried]]
           /\ \A pc \in ClientPcs, b \in BOOLEAN :
                /\ \A at \in Daemons \cup {None} : [pc |-> pc, at |-> at, retried |-> b] \in ClientState
                /\ [pc |-> pc, at |-> client[c].at, retried |-> b] \in ClientState
           /\ client[c].retried \in BOOLEAN
<1>1. client[c] = [pc |-> client[c].pc, at |-> client[c].at, retried |-> client[c].retried]
  BY DEF TypeOK
<1>2. /\ client[c].at \in Daemons \cup {None} /\ client[c].retried \in BOOLEAN
      /\ client \in [Clients -> ClientState]
  BY DEF TypeOK, ClientState
<1>3. \A pc : [client[c] EXCEPT !.pc = pc]
                = [pc |-> pc, at |-> client[c].at, retried |-> client[c].retried]
  BY <1>1
<1>4. \A pc : [client EXCEPT ![c].pc = pc] = [client EXCEPT ![c] = [client[c] EXCEPT !.pc = pc]]
  BY <1>2
<1>5. \A pc \in ClientPcs, at \in Daemons \cup {None}, b \in BOOLEAN :
         [pc |-> pc, at |-> at, retried |-> b] \in ClientState
  BY DEF ClientState
<1> QED
  BY <1>2, <1>3, <1>4, <1>5

\* connect_or_start's connects that are answered.
LEMMA ConnectedHolds ==
    ASSUME HostInv, NEW c \in Clients, client[c].pc \in {"start", "waiting"}, Answers,
           client' = [client EXCEPT ![c] = [pc |-> "backlog", at |-> file, retried |-> client[c].retried]],
           UNCHANGED <<file, pidfile, daemon, shutting, active, held, strayed>>
    PROVE  HostInv'
<1> DEFINE x == [pc |-> "backlog", at |-> file, retried |-> client[c].retried]
<1>1. file \in Daemons /\ file \in Bound
  BY DEF Answers, Bound
<1>2. x \in ClientState /\ client' = [client EXCEPT ![c] = x]
  BY <1>1, MovesTyped, PcTypes DEF HostInv
<1>3. x.pc = "backlog" /\ x.at = file
  OBVIOUS
<1> HIDE DEF x
<1> QED
  BY <1>1, <1>2, <1>3, QuietMove

\* GiveUp and Accept: only the client's place changes.
LEMMA PlaceHolds ==
    ASSUME HostInv, NEW c \in Clients, GiveUp(c) \/ Accept(c)
    PROVE  HostInv'
<1>1. TypeOK /\ Placed(c)
  BY DEF HostInv
<1>2. PICK pc \in {"failed", "eof", "opened"} :
         /\ client' = [client EXCEPT ![c].pc = pc]
         /\ pc = "failed" => client[c].pc = "waiting"
         /\ pc # "failed" => client[c].pc = "backlog" /\ daemon[client[c].at].pc = "serving"
  BY DEF GiveUp, Accept
<1> DEFINE x == [pc |-> pc, at |-> client[c].at, retried |-> client[c].retried]
<1>3. pc \in ClientPcs
  BY PcTypes
<1>4. x \in ClientState /\ client' = [client EXCEPT ![c] = x]
  BY <1>1, <1>2, <1>3, MovesTyped
<1>5. x.pc = pc /\ x.at = client[c].at
  OBVIOUS
<1>6. /\ client[c].pc \in {"waiting", "backlog"}
      /\ pc = "failed" => x.at = None
      /\ pc = "opened" => x.at \in Daemons /\ daemon[x.at].pc = "serving"
  BY <1>1, <1>2, <1>5 DEF Placed, Bound
<1>7. UNCHANGED <<file, pidfile, daemon, shutting, active, held, strayed>>
  BY DEF GiveUp, Accept
<1> HIDE DEF x
<1> QED
  BY <1>4, <1>5, <1>6, <1>7, QuietMove

\* Again, Handshake and Hangup: the client's record is made anew.
LEMMA AnewHolds ==
    ASSUME HostInv, NEW c \in Clients, Again(c) \/ Handshake(c) \/ Hangup(c)
    PROVE  HostInv'
<1>1. TypeOK /\ Placed(c)
  BY DEF HostInv
<1>2. PICK x \in ClientState :
         /\ client' = [client EXCEPT ![c] = x]
         /\ \/ x.pc \in {"start", "failed"} /\ x.at = None
            \/ x.pc = "shaken" /\ x.at = client[c].at /\ client[c].pc = "opened"
  <2>1. {"start", "failed", "shaken"} \subseteq ClientPcs
    BY PcTypes
  <2>2. CASE Again(c)
    <3> DEFINE x == [pc |-> IF client[c].retried THEN "failed" ELSE "start", at |-> None, retried |-> TRUE]
    <3>1. x \in ClientState /\ x.pc \in {"start", "failed"} /\ x.at = None
      BY <1>1, <2>1, MovesTyped
    <3>2. client' = [client EXCEPT ![c] = x]
      BY <2>2 DEF Again
    <3> QED
      BY <3>1, <3>2
  <2>3. CASE Handshake(c)
    <3> DEFINE x == [pc |-> "shaken", at |-> client[c].at, retried |-> FALSE]
    <3>1. x \in ClientState /\ x.pc = "shaken" /\ x.at = client[c].at
      BY <1>1, <2>1, MovesTyped
    <3>2. client' = [client EXCEPT ![c] = x] /\ client[c].pc = "opened"
      BY <2>3 DEF Handshake
    <3> QED
      BY <3>1, <3>2
  <2>4. CASE Hangup(c)
    <3> DEFINE x == [pc |-> "start", at |-> None, retried |-> FALSE]
    <3>1. x \in ClientState /\ x.pc = "start" /\ x.at = None
      BY <1>1, <2>1, MovesTyped
    <3>2. client' = [client EXCEPT ![c] = x]
      BY <2>4 DEF Hangup
    <3> QED
      BY <3>1, <3>2
  <2> QED
    BY <2>2, <2>3, <2>4
<1>3. /\ UNCHANGED <<file, pidfile, daemon, shutting, active, held, strayed>>
      /\ client[c].pc \in {"eof", "opened", "shaken"}
  BY DEF Again, Handshake, Hangup
<1> QED
  BY <1>2, <1>3, QuietMove

\* spawn_daemon: the new process has no connection yet.
LEMMA SpawnHolds ==
    ASSUME HostInv, NEW c \in Clients, NEW d \in Daemons, client[c].pc = "start",
           daemon[d].pc = "absent", Goto(d, "exists"),
           client' = [client EXCEPT ![c].pc = "waiting"],
           strayed' \subseteq Daemons, UNCHANGED <<file, pidfile, shutting, active, held>>
    PROVE  HostInv'
<1>1. /\ TypeOK /\ \A y \in Clients : Placed(y) /\ EndExplained(y)
      /\ \A e \in Daemons : ActiveCounts(e) /\ GateReason(e) /\ GateClosed(e)
  BY DEF HostInv
<1> DEFINE x == [pc |-> "waiting", at |-> client[c].at, retried |-> client[c].retried]
<1>2. x \in ClientState /\ client' = [client EXCEPT ![c] = x] /\ x.pc = "waiting" /\ x.at = None
  BY <1>1, MovesTyped, PcTypes DEF Placed
<1> HIDE DEF x
<1>3. /\ client' \in [Clients -> ClientState] /\ client'[c] = x
      /\ \A y \in Clients \ {c} : client'[y] = client[y]
  BY <1>1, <1>2, ClientStep
<1>4. /\ daemon' \in [Daemons -> DaemonState]
      /\ daemon'[d].pc = "exists" /\ daemon'[d].why = daemon[d].why
      /\ \A e \in Daemons \ {d} : daemon'[e] = daemon[e]
  BY <1>1, PcTypes DEF Goto, TypeOK, DaemonState
<1>5. TypeOK'
  BY <1>1, <1>3, <1>4 DEF TypeOK, ClientState, DaemonState
<1>6. \A e, pcs : "start" \notin pcs /\ "waiting" \notin pcs => At(e, pcs)' = At(e, pcs)
  BY <1>2, <1>3 DEF At
<1>7. \A e : /\ At(e, {"handling"})' = At(e, {"handling"}) /\ At(e, {"acking"})' = At(e, {"acking"})
             /\ At(e, {"acked"})' = At(e, {"acked"}) /\ At(e, Counted)' = At(e, Counted)
  BY <1>6 DEF Counted, Served
<1>8. ASSUME NEW e \in Daemons PROVE (ActiveCounts(e) /\ GateReason(e) /\ GateClosed(e))'
  <2>1. CASE e = d
    BY <1>1, <1>4, <1>7, <2>1 DEF ActiveCounts, GateReason, GateClosed, Leaving
  <2>2. CASE e # d
    BY <1>1, <1>4, <1>7, <2>2 DEF ActiveCounts, GateReason, GateClosed
  <2> QED
    BY <2>1, <2>2
<1>9. ASSUME NEW y \in Clients PROVE (Placed(y) /\ EndExplained(y))'
  <2>1. CASE y = c
    BY <1>2, <1>3, <2>1 DEF Placed, EndExplained, Counted, Served
  <2>2. CASE y # c
    BY <1>1, <1>3, <1>4, <1>7, <2>2 DEF Placed, EndExplained, Bound, Leaving
  <2> QED
    BY <2>1, <2>2
<1> QED
  BY <1>5, <1>8, <1>9 DEF HostInv

\* Connect and Retry.
LEMMA ConnectHolds == ASSUME HostInv, NEW c \in Clients, Connect(c) \/ Retry(c) PROVE HostInv'
<1>1. CASE Retry(c)
  BY <1>1, ConnectedHolds DEF Retry
<1>2. CASE Connect(c) /\ UNCHANGED <<daemon, strayed>> /\ Answers /\ client' = [client EXCEPT ![c] = [pc |-> "backlog", at |-> file, retried |-> client[c].retried]]
  BY <1>2, ConnectedHolds DEF Connect
<1>3. CASE Connect(c) /\ client' = [client EXCEPT ![c].pc = "waiting"]
           /\ \E d \in Daemons :
                 /\ daemon[d].pc = "absent" /\ Goto(d, "exists")
                 /\ strayed' = IF Starting = {} THEN strayed ELSE strayed \cup Starting \cup {d}
  <2>1. PICK d \in Daemons :
           /\ daemon[d].pc = "absent" /\ Goto(d, "exists")
           /\ strayed' = IF Starting = {} THEN strayed ELSE strayed \cup Starting \cup {d}
    BY <1>3
  <2>2. strayed' \subseteq Daemons
    BY <2>1 DEF HostInv, TypeOK, Starting
  <2> QED
    BY <1>3, <2>1, <2>2, SpawnHolds DEF Connect
<1> QED
  BY <1>1, <1>2, <1>3 DEF Connect

-----------------------------------------------------------------------------
(* serve_connection.                                                        *)

\* One more request in flight is counted, and one less.
LEMMA CountStep ==
    ASSUME NEW d, NEW c,
           NEW S, S = At(d, {"handling"})
    PROVE  /\ c \notin S => Cardinality(S \cup {c}) = Cardinality(S) + 1
           /\ c \in S => Cardinality(S \ {c}) = Cardinality(S) - 1
           /\ Cardinality(S) = 0 => S = {}
<1>1. IsFiniteSet(S)
  BY AtFinite
<1>2. c \notin S => Cardinality(S \cup {c}) = Cardinality(S) + 1
  BY <1>1, FS_AddElement
<1>3. c \in S => Cardinality(S \ {c}) = Cardinality(S) - 1
  BY <1>1, FS_RemoveElement
<1>4. Cardinality(S) = 0 => S = {}
  BY <1>1, FS_EmptySet
<1> QED
  BY <1>2, <1>3, <1>4

\* admit_state_request: a request is let in by a daemon that is not shutting down.
LEMMA RequestHolds == ASSUME HostInv, NEW c \in Clients, Request(c) PROVE HostInv'
<1>1. /\ TypeOK /\ \A y \in Clients : Placed(y) /\ EndExplained(y)
      /\ \A e \in Daemons : ActiveCounts(e) /\ GateReason(e) /\ GateClosed(e)
  BY DEF HostInv
<1>0. PICK d \in Daemons : d = client[c].at
  BY <1>1 DEF Placed, Counted, Served, Request
<1> DEFINE x == [pc |-> "handling", at |-> d, retried |-> client[c].retried]
<1>2. client[c].pc = "shaken" /\ d \notin shutting /\ UNCHANGED <<file, pidfile, daemon, shutting, held, strayed>>
  BY <1>0 DEF Request
<1>3. d \in Daemons /\ daemon[d].pc \in {"serving"} \cup Leaving
  BY <1>0, <1>1, <1>2 DEF Placed, Counted, Served
<1>4. x \in ClientState /\ client' = [client EXCEPT ![c] = x] /\ x.pc = "handling" /\ x.at = d
  BY <1>0, <1>1, MovesTyped, PcTypes DEF Request
<1> HIDE DEF x
<1>5. /\ client' \in [Clients -> ClientState] /\ client'[c] = x
      /\ \A y \in Clients \ {c} : client'[y] = client[y]
  BY <1>1, <1>4, ClientStep
<1>6. active' \in [Daemons -> Nat] /\ active'[d] = active[d] + 1
      /\ \A e \in Daemons \ {d} : active'[e] = active[e]
  BY <1>0, <1>1, <1>3 DEF Request, TypeOK
<1>7. TypeOK'
  BY <1>1, <1>2, <1>5, <1>6 DEF TypeOK, ClientState
<1>8. /\ At(d, {"handling"})' = At(d, {"handling"}) \cup {c} /\ c \notin At(d, {"handling"})
      /\ \A e \in Daemons \ {d} : At(e, {"handling"})' = At(e, {"handling"})
      /\ \A e \in Daemons : /\ At(e, {"acking"})' = At(e, {"acking"})
                             /\ At(e, {"acked"})' = At(e, {"acked"})
                             /\ At(e, Counted)' = At(e, Counted)
  BY <1>0, <1>2, <1>4, <1>5 DEF At, Counted, Served
<1>9. ASSUME NEW e \in Daemons PROVE (ActiveCounts(e) /\ GateReason(e) /\ GateClosed(e))'
  <2>1. CASE e = d
    <3>1. Cardinality(At(d, {"handling"}) \cup {c}) = Cardinality(At(d, {"handling"})) + 1
      BY <1>8, CountStep
    <3>2. ActiveCounts(d)'
      BY <1>1, <1>2, <1>3, <1>6, <1>8, <3>1 DEF ActiveCounts
    <3>3. daemon[d].pc \notin Leaving
      BY <1>1, <1>2, <1>3 DEF GateReason
    <3> QED
      BY <1>1, <1>2, <1>3, <1>8, <2>1, <3>2, <3>3 DEF GateReason, GateClosed
  <2>2. CASE e # d
    BY <1>1, <1>2, <1>6, <1>8, <2>2 DEF ActiveCounts, GateReason, GateClosed
  <2> QED
    BY <2>1, <2>2
<1>10. ASSUME NEW y \in Clients PROVE (Placed(y) /\ EndExplained(y))'
  <2>1. CASE y = c
    BY <1>2, <1>3, <1>4, <1>5, <2>1 DEF Placed, EndExplained, Counted, Served
  <2>2. CASE y # c
    BY <1>1, <1>2, <1>5, <1>8, <2>2 DEF Placed, EndExplained, Bound
  <2> QED
    BY <2>1, <2>2
<1> QED
  BY <1>7, <1>9, <1>10 DEF HostInv

\* The handler's end: the guard is dropped, and the table may hold anything.
LEMMA FinishHolds == ASSUME HostInv, NEW c \in Clients, Finish(c) PROVE HostInv'
<1>1. /\ TypeOK /\ \A y \in Clients : Placed(y) /\ EndExplained(y)
      /\ \A e \in Daemons : ActiveCounts(e) /\ GateReason(e) /\ GateClosed(e)
  BY DEF HostInv
<1>0. PICK d \in Daemons : d = client[c].at
  BY <1>1 DEF Placed, Counted, Served, Finish
<1> DEFINE x == [pc |-> "shaken", at |-> d, retried |-> client[c].retried]
<1>2. client[c].pc = "handling" /\ UNCHANGED <<file, pidfile, daemon, shutting, strayed>>
  BY <1>0 DEF Finish
<1>3. d \in Daemons /\ daemon[d].pc \in {"serving"} \cup Leaving
  BY <1>0, <1>1, <1>2 DEF Placed, Counted, Served
<1>4. x \in ClientState /\ client' = [client EXCEPT ![c] = x] /\ x.pc = "shaken" /\ x.at = d
  BY <1>0, <1>1, MovesTyped, PcTypes DEF Finish
<1> HIDE DEF x
<1>5. /\ client' \in [Clients -> ClientState] /\ client'[c] = x
      /\ \A y \in Clients \ {c} : client'[y] = client[y]
  BY <1>1, <1>4, ClientStep
<1>6. /\ At(d, {"handling"})' = At(d, {"handling"}) \ {c} /\ c \in At(d, {"handling"})
      /\ \A e \in Daemons \ {d} : At(e, {"handling"})' = At(e, {"handling"})
      /\ \A e \in Daemons : /\ At(e, {"acking"})' = At(e, {"acking"})
                             /\ At(e, {"acked"})' = At(e, {"acked"})
                             /\ At(e, Counted)' = At(e, Counted)
      /\ c \in At(d, Counted)
  BY <1>0, <1>2, <1>4, <1>5 DEF At, Counted, Served
<1>7. Cardinality(At(d, {"handling"}) \ {c}) = Cardinality(At(d, {"handling"})) - 1
  BY <1>6, CountStep
<1>8. Cardinality(At(d, {"handling"}) \ {c}) \in Nat
  BY <1>6, AtFinite, FS_RemoveElement, FS_CardinalityType
<1>9. active[d] = Cardinality(At(d, {"handling"}))
  BY <1>1, <1>3, PcTypes DEF ActiveCounts
<1>10. /\ active' \in [Daemons -> Nat] /\ active'[d] = Cardinality(At(d, {"handling"}) \ {c})
       /\ \A e \in Daemons \ {d} : active'[e] = active[e]
  <2>1. active' = [active EXCEPT ![d] = active[d] - 1]
    BY <1>0 DEF Finish
  <2> QED
    BY <1>1, <1>3, <1>7, <1>8, <1>9, <2>1 DEF TypeOK
<1>11. /\ held' \in [Daemons -> {"empty", "idle", "busy"}]
       /\ \A e \in Daemons \ {d} : held'[e] = held[e]
  BY <1>0, <1>1, <1>3 DEF Finish, TypeOK
<1>12. TypeOK'
  BY <1>1, <1>2, <1>5, <1>10, <1>11 DEF TypeOK, ClientState
<1>13. ASSUME NEW e \in Daemons PROVE (ActiveCounts(e) /\ GateReason(e) /\ GateClosed(e))'
  <2>1. CASE e = d
    <3>1. ActiveCounts(d)'
      BY <1>6, <1>10 DEF ActiveCounts
    <3> QED
      BY <1>1, <1>2, <1>3, <1>6, <2>1, <3>1 DEF GateReason, GateClosed
  <2>2. CASE e # d
    BY <1>1, <1>2, <1>6, <1>10, <1>11, <2>2 DEF ActiveCounts, GateReason, GateClosed
  <2> QED
    BY <2>1, <2>2
<1>14. ASSUME NEW y \in Clients PROVE (Placed(y) /\ EndExplained(y))'
  <2>1. CASE y = c
    BY <1>2, <1>3, <1>4, <1>5, <2>1 DEF Placed, EndExplained, Counted, Served
  <2>2. CASE y # c
    BY <1>1, <1>2, <1>5, <1>6, <2>2 DEF Placed, EndExplained, Bound
  <2> QED
    BY <2>1, <2>2
<1> QED
  BY <1>12, <1>13, <1>14 DEF HostInv

\* admit_shutdown: without force, only where no request is in flight.
LEMMA ShutdownHolds ==
    ASSUME HostInv, NEW c \in Clients, NEW force \in BOOLEAN, Shutdown(c, force)
    PROVE  HostInv'
<1>1. /\ TypeOK /\ \A y \in Clients : Placed(y) /\ EndExplained(y)
      /\ \A e \in Daemons : ActiveCounts(e) /\ GateReason(e) /\ GateClosed(e)
  BY DEF HostInv
<1>0. PICK d \in Daemons : d = client[c].at
  BY <1>1 DEF Placed, Counted, Served, Shutdown
<1> DEFINE x == [pc |-> "acking", at |-> d, retried |-> client[c].retried]
           why == IF force THEN "forced" ELSE IF daemon[d].why = "none" THEN "polite" ELSE daemon[d].why
<1>2. client[c].pc = "shaken" /\ UNCHANGED <<file, pidfile, active, held, strayed>> /\ shutting' = shutting \cup {d}
  BY <1>0 DEF Shutdown
<1>3. d \in Daemons /\ daemon[d].pc \in {"serving"} \cup Leaving
  BY <1>0, <1>1, <1>2 DEF Placed, Counted, Served
<1>4. x \in ClientState /\ client' = [client EXCEPT ![c] = x] /\ x.pc = "acking" /\ x.at = d
  BY <1>0, <1>1, MovesTyped, PcTypes DEF Shutdown
<1> HIDE DEF x
<1>5. /\ client' \in [Clients -> ClientState] /\ client'[c] = x
      /\ \A y \in Clients \ {c} : client'[y] = client[y]
  BY <1>1, <1>4, ClientStep
<1>6. /\ \A e \in Daemons : At(e, {"handling"})' = At(e, {"handling"})
      /\ \A e \in Daemons \ {d} : At(e, {"acking"})' = At(e, {"acking"})
      /\ \A e \in Daemons : /\ At(e, {"acked"})' = At(e, {"acked"})
                             /\ At(e, Counted)' = At(e, Counted)
      /\ c \in At(d, {"acking"})' /\ c \in At(d, Counted)
  BY <1>0, <1>2, <1>4, <1>5 DEF At, Counted, Served
<1>7. daemon[d].why \in Reasons /\ why \in Reasons
  BY <1>1, <1>3 DEF TypeOK, Reasons
<1>8. daemon' = [daemon EXCEPT ![d].why = why]
  BY <1>0 DEF Shutdown
<1>9. why \in {"polite", "forced"}
  <2>1. daemon[d].why # "idle" \/ daemon[d].pc \notin Leaving
    BY <1>1, <1>3, <1>6 DEF GateClosed
  <2>2. daemon[d].why \in {"none", "polite", "forced"}
    BY <1>1, <1>3, <2>1, PcTypes DEF GateReason
  <2> QED
    BY <2>2
<1>10. why # "forced" => At(d, {"handling"}) = {}
  <2> SUFFICES ASSUME why # "forced" PROVE At(d, {"handling"}) = {}
    OBVIOUS
  <2>1. active[d] = 0
    BY <1>0 DEF Shutdown
  <2>2. active[d] = Cardinality(At(d, {"handling"}))
    BY <1>1, <1>3, PcTypes DEF ActiveCounts
  <2> QED
    BY <2>1, <2>2, CountStep
<1> HIDE DEF why
<1>11. /\ daemon' \in [Daemons -> DaemonState]
       /\ daemon'[d].pc = daemon[d].pc /\ daemon'[d].why = why
       /\ \A e \in Daemons \ {d} : daemon'[e] = daemon[e]
  BY <1>1, <1>3, <1>7, <1>8 DEF TypeOK, DaemonState
<1>12. TypeOK'
  BY <1>1, <1>2, <1>3, <1>5, <1>11 DEF TypeOK, ClientState, DaemonState
<1>13. ASSUME NEW e \in Daemons PROVE (ActiveCounts(e) /\ GateReason(e) /\ GateClosed(e))'
  <2>1. CASE e = d
    <3>1. ActiveCounts(d)'
      BY <1>1, <1>2, <1>3, <1>6, <1>11 DEF ActiveCounts
    <3>2. GateReason(d)'
      BY <1>2, <1>3, <1>9, <1>11, PcTypes DEF GateReason
    <3>3. GateClosed(d)'
      BY <1>1, <1>2, <1>3, <1>6, <1>9, <1>10, <1>11 DEF GateClosed
    <3> QED
      BY <2>1, <3>1, <3>2, <3>3
  <2>2. CASE e # d
    BY <1>1, <1>2, <1>6, <1>11, <2>2 DEF ActiveCounts, GateReason, GateClosed
  <2> QED
    BY <2>1, <2>2
<1>14. ASSUME NEW y \in Clients PROVE (Placed(y) /\ EndExplained(y))'
  <2>1. CASE y = c
    BY <1>2, <1>3, <1>4, <1>5, <1>11, <2>1 DEF Placed, EndExplained, Counted, Served
  <2>2. CASE y # c
    <3>1. \A e \in Daemons : daemon'[e].pc = daemon[e].pc
      BY <1>11
    <3>2. Placed(y)'
      BY <1>1, <1>2, <1>5, <2>2, <3>1 DEF Placed, Bound
    <3>3. client[y].pc \in {"cut", "unacked"} => client[y].at \in Daemons \ {d}
      BY <1>1, <1>3, PcTypes DEF Placed
    <3>4. EndExplained(y)'
      BY <1>1, <1>5, <1>6, <1>11, <2>2, <3>3 DEF EndExplained
    <3> QED
      BY <3>2, <3>4
  <2> QED
    BY <2>1, <2>2
<1> QED
  BY <1>12, <1>13, <1>14 DEF HostInv

\* The answer to a shutdown is on the wire, and the daemon leaves.
LEMMA AckHolds == ASSUME HostInv, NEW c \in Clients, Ack(c) PROVE HostInv'
<1>1. /\ TypeOK /\ \A y \in Clients : Placed(y) /\ EndExplained(y)
      /\ \A e \in Daemons : ActiveCounts(e) /\ GateReason(e) /\ GateClosed(e)
  BY DEF HostInv
<1>0. PICK d \in Daemons : d = client[c].at
  BY <1>1 DEF Placed, Counted, Served, Ack
<1> DEFINE x == [pc |-> "acked", at |-> d, retried |-> client[c].retried]
<1>2. client[c].pc = "acking" /\ UNCHANGED <<file, pidfile, shutting, active, held, strayed>>
  BY <1>0 DEF Ack
<1>3. d \in Daemons /\ daemon[d].pc \in {"serving"} \cup Leaving /\ d \in shutting
  BY <1>0, <1>1, <1>2 DEF Placed, Counted, Served
<1>4. x \in ClientState /\ client' = [client EXCEPT ![c] = x] /\ x.pc = "acked" /\ x.at = d
  BY <1>0, <1>1, MovesTyped, PcTypes DEF Ack
<1> HIDE DEF x
<1>5. /\ client' \in [Clients -> ClientState] /\ client'[c] = x
      /\ \A y \in Clients \ {c} : client'[y] = client[y]
  BY <1>1, <1>4, ClientStep
<1>6. /\ \A e \in Daemons : At(e, {"handling"})' = At(e, {"handling"})
      /\ \A e \in Daemons \ {d} : /\ At(e, {"acking"})' = At(e, {"acking"})
                                   /\ At(e, {"acked"})' = At(e, {"acked"})
                                   /\ At(e, Counted)' = At(e, Counted)
      /\ c \in At(d, {"acked"})' /\ c \in At(d, Counted)
  BY <1>0, <1>2, <1>4, <1>5 DEF At, Counted, Served
<1>7. daemon[d].why \in {"polite", "forced"}
  BY <1>1, <1>3, <1>6, PcTypes DEF GateReason, GateClosed
<1>8. /\ daemon' \in [Daemons -> DaemonState]
      /\ daemon'[d].pc \in Leaving /\ daemon'[d].why = daemon[d].why
      /\ \A e \in Daemons \ {d} : daemon'[e] = daemon[e]
  <2>1. daemon \in [Daemons -> DaemonState] /\ daemon[d].why \in Reasons /\ "unlink" \in DaemonPcs
    BY <1>1, <1>3, PcTypes DEF TypeOK, DaemonState
  <2>2. \/ daemon' = daemon /\ daemon[d].pc \in Leaving
        \/ daemon' = [daemon EXCEPT ![d] = [pc |-> "unlink", why |-> daemon[d].why]]
    BY <1>0 DEF Ack, Leave
  <2> QED
    BY <1>3, <2>1, <2>2, PcTypes DEF DaemonState
<1>9. TypeOK'
  BY <1>1, <1>2, <1>5, <1>8 DEF TypeOK, ClientState, DaemonState
<1>10. ASSUME NEW e \in Daemons PROVE (ActiveCounts(e) /\ GateReason(e) /\ GateClosed(e))'
  <2>1. CASE e = d
    <3>1. ActiveCounts(d)'
      BY <1>1, <1>2, <1>3, <1>6, PcTypes DEF ActiveCounts
    <3>2. GateReason(d)'
      BY <1>2, <1>3, <1>7, <1>8, PcTypes DEF GateReason
    <3>3. GateClosed(d)'
      BY <1>1, <1>2, <1>3, <1>6, <1>7, <1>8, PcTypes DEF GateClosed
    <3> QED
      BY <2>1, <3>1, <3>2, <3>3
  <2>2. CASE e # d
    BY <1>1, <1>2, <1>6, <1>8, <2>2 DEF ActiveCounts, GateReason, GateClosed
  <2> QED
    BY <2>1, <2>2
<1>11. ASSUME NEW y \in Clients PROVE (Placed(y) /\ EndExplained(y))'
  <2>1. CASE y = c
    BY <1>2, <1>3, <1>4, <1>5, <1>8, <2>1 DEF Placed, EndExplained, Counted, Served
  <2>2. CASE y # c
    <3>1. Placed(y)'
      BY <1>1, <1>2, <1>3, <1>5, <1>8, <2>2, PcTypes DEF Placed, Bound
    <3>2. client[y].pc \in {"cut", "unacked"} => client[y].at \in Daemons \ {d}
      BY <1>1, <1>3, PcTypes DEF Placed
    <3>3. EndExplained(y)'
      BY <1>1, <1>5, <1>6, <1>8, <2>2, <3>2 DEF EndExplained
    <3> QED
      BY <3>1, <3>3
  <2> QED
    BY <2>1, <2>2
<1> QED
  BY <1>9, <1>10, <1>11 DEF HostInv

-----------------------------------------------------------------------------
(* The daemon's own steps.                                                  *)

\* What a process's end does to the clients that are connected to it.
LEMMA EndsStep ==
    ASSUME TypeOK, NEW d \in Daemons, NEW why \in Reasons, Ends(d, why)
    PROVE  /\ daemon' \in [Daemons -> DaemonState] /\ daemon'[d] = [pc |-> "dead", why |-> why]
           /\ \A e \in Daemons \ {d} : daemon'[e] = daemon[e]
           /\ client' \in [Clients -> ClientState]
           /\ \A c \in Clients :
                /\ client'[c].at = client[c].at
                /\ client[c].at # d => client'[c].pc = client[c].pc
                /\ client[c].at = d =>
                     /\ client[c].pc = "handling" => client'[c].pc = "cut"
                     /\ client[c].pc = "acking" => client'[c].pc = "unacked"
                     /\ client[c].pc \in {"shaken", "opened", "backlog"} => client'[c].pc = "eof"
                     /\ client[c].pc \notin Counted \cup {"backlog"} => client'[c].pc = client[c].pc
<1>1. /\ daemon' = [daemon EXCEPT ![d] = [pc |-> "dead", why |-> why]]
      /\ client' = [c \in Clients |->
                    IF c \notin At(d, Counted \cup {"backlog"}) THEN client[c]
                    ELSE [client[c] EXCEPT !.pc = CASE client[c].pc = "handling" -> "cut"
                                                    [] client[c].pc = "acking" -> "unacked"
                                                    [] OTHER -> "eof"]]
  BY DEF Ends
<1>2. "dead" \in DaemonPcs /\ {"cut", "unacked", "eof"} \subseteq ClientPcs
  BY PcTypes
<1>3. daemon \in [Daemons -> DaemonState] /\ client \in [Clients -> ClientState]
  BY DEF TypeOK, DaemonState, ClientState
<1>4. /\ daemon' \in [Daemons -> DaemonState] /\ daemon'[d] = [pc |-> "dead", why |-> why]
      /\ \A e \in Daemons \ {d} : daemon'[e] = daemon[e]
  BY <1>1, <1>2, <1>3 DEF DaemonState
<1>5. ASSUME NEW c \in Clients
      PROVE  /\ client'[c] \in ClientState
             /\ client'[c].at = client[c].at
             /\ client[c].at # d => client'[c].pc = client[c].pc
             /\ client[c].at = d =>
                  /\ client[c].pc = "handling" => client'[c].pc = "cut"
                  /\ client[c].pc = "acking" => client'[c].pc = "unacked"
                  /\ client[c].pc \in {"shaken", "opened", "backlog"} => client'[c].pc = "eof"
                  /\ client[c].pc \notin Counted \cup {"backlog"} => client'[c].pc = client[c].pc
  <2>1. client[c] \in ClientState
    BY <1>3
  <2>2. CASE c \notin At(d, Counted \cup {"backlog"})
    <3>1. client'[c] = client[c]
      BY <1>1, <2>2
    <3> QED
      BY <2>1, <2>2, <3>1, PcTypes DEF At
  <2>3. CASE c \in At(d, Counted \cup {"backlog"})
    <3> DEFINE pc == CASE client[c].pc = "handling" -> "cut"
                       [] client[c].pc = "acking" -> "unacked"
                       [] OTHER -> "eof"
    <3>1. client'[c] = [client[c] EXCEPT !.pc = pc]
      BY <1>1, <2>3
    <3>2. /\ pc \in {"cut", "unacked", "eof"}
          /\ client[c].pc = "handling" => pc = "cut"
          /\ client[c].pc = "acking" => pc = "unacked"
          /\ client[c].pc \in {"shaken", "opened", "backlog"} => pc = "eof"
      OBVIOUS
    <3> HIDE DEF pc
    <3>3. client'[c] \in ClientState /\ client'[c].at = client[c].at /\ client'[c].pc = pc
      BY <1>2, <2>1, <3>1, <3>2 DEF ClientState
    <3>4. client[c].at = d /\ client[c].pc \in Counted \cup {"backlog"}
      BY <2>3 DEF At
    <3> QED
      BY <3>2, <3>3, <3>4
  <2> QED
    BY <2>2, <2>3
<1>6. client' \in [Clients -> ClientState]
  BY <1>1, <1>5
<1> QED
  BY <1>4, <1>5, <1>6

\* A process ends: refused before anybody could connect, killed, or having left.
LEMMA EndsHolds ==
    ASSUME HostInv, NEW d \in Daemons, NEW why \in Reasons, Ends(d, why),
           file' \in Daemons \cup {None}, UNCHANGED <<pidfile, shutting, active, held, strayed>>,
           \/ daemon[d].pc \in Binding
           \/ daemon[d].pc = "exit" /\ why = daemon[d].why
           \/ why = "crashed"
    PROVE  HostInv'
<1>1. /\ TypeOK /\ \A y \in Clients : Placed(y) /\ EndExplained(y)
      /\ \A e \in Daemons : ActiveCounts(e) /\ GateReason(e) /\ GateClosed(e)
  BY DEF HostInv
<1>2. /\ daemon' \in [Daemons -> DaemonState] /\ daemon'[d] = [pc |-> "dead", why |-> why]
      /\ \A e \in Daemons \ {d} : daemon'[e] = daemon[e]
      /\ client' \in [Clients -> ClientState]
      /\ \A c \in Clients :
           /\ client'[c].at = client[c].at
           /\ client[c].at # d => client'[c].pc = client[c].pc
           /\ client[c].at = d =>
                /\ client[c].pc = "handling" => client'[c].pc = "cut"
                /\ client[c].pc = "acking" => client'[c].pc = "unacked"
                /\ client[c].pc \in {"shaken", "opened", "backlog"} => client'[c].pc = "eof"
                /\ client[c].pc \notin Counted \cup {"backlog"} => client'[c].pc = client[c].pc
  BY <1>1, EndsStep
<1>3. TypeOK'
  BY <1>1, <1>2 DEF TypeOK, ClientState, DaemonState
<1>4. \A e \in Daemons \ {d} : \A pcs : At(e, pcs)' = At(e, pcs)
  BY <1>2 DEF At
<1>5. At(d, {"acked"}) \subseteq At(d, {"acked"})' /\ At(d, {"handling"})' = {}
  <2>1. \A c \in Clients : client[c].pc \in Counted \cup {"start", "waiting", "backlog", "acked", "failed", "eof", "cut", "unacked"}
    BY <1>1, PcTypes, ClientTyped
  <2> QED
    BY <1>2, <2>1, PcTypes DEF At
<1>6. ASSUME NEW e \in Daemons PROVE (ActiveCounts(e) /\ GateReason(e) /\ GateClosed(e))'
  <2>1. CASE e = d
    BY <1>2, <1>5, <2>1, PcTypes DEF ActiveCounts, GateReason, GateClosed
  <2>2. CASE e # d
    BY <1>1, <1>2, <1>4, <2>2 DEF ActiveCounts, GateReason, GateClosed
  <2> QED
    BY <2>1, <2>2
<1>7. ASSUME NEW y \in Clients PROVE (Placed(y) /\ EndExplained(y))'
  <2>1. CASE client[y].at # d
    <3>1. client'[y].at = client[y].at /\ client'[y].pc = client[y].pc
      BY <1>2, <2>1
    <3>2. Placed(y)'
      BY <1>1, <1>2, <2>1, <3>1, PcTypes DEF Placed, Bound
    <3>3. client[y].pc \in {"cut", "unacked"} => client[y].at \in Daemons \ {d}
      BY <1>1, <2>1 DEF Placed
    <3>4. EndExplained(y)'
      BY <1>1, <1>2, <1>4, <3>1, <3>3 DEF EndExplained
    <3> QED
      BY <3>2, <3>4
  <2>2. CASE client[y].at = d
    <3>1. client'[y].at = d /\ daemon'[d].pc = "dead" /\ daemon'[d].why = why
      BY <1>2, <2>2
    <3>2. client[y].pc \in Counted \cup {"start", "waiting", "backlog", "acked", "failed", "eof", "cut", "unacked"}
      BY <1>1, PcTypes, ClientTyped
    <3>3. Placed(y)'
      BY <1>1, <1>2, <2>2, <3>1, <3>2, PcTypes, HostAssumption DEF Placed
    <3>4. ASSUME client'[y].pc = "cut" PROVE why \in {"forced", "crashed"}
      <4>1. client[y].pc \in {"handling", "cut"}
        BY <1>2, <2>2, <3>2, <3>4, PcTypes
      <4>2. CASE daemon[d].pc \in Binding
        BY <1>1, <2>2, <4>1, <4>2, PcTypes DEF Placed
      <4>3. CASE daemon[d].pc = "exit" /\ why = daemon[d].why
        <5>1. client[y].pc = "handling"
          BY <1>1, <2>2, <4>1, <4>3 DEF Placed
        <5>2. y \in At(d, {"handling"})
          BY <2>2, <5>1 DEF At
        <5> QED
          BY <1>1, <4>3, <5>2, PcTypes DEF GateReason, GateClosed
      <4> QED
        BY <4>2, <4>3
    <3>5. ASSUME client'[y].pc = "unacked" PROVE why = "crashed" \/ At(d, {"acked"})' # {}
      <4>1. client[y].pc \in {"acking", "unacked"}
        BY <1>2, <2>2, <3>2, <3>5, PcTypes
      <4>2. CASE daemon[d].pc \in Binding
        BY <1>1, <2>2, <4>1, <4>2, PcTypes DEF Placed
      <4>3. CASE daemon[d].pc = "exit" /\ why = daemon[d].why
        <5>1. client[y].pc = "acking"
          BY <1>1, <2>2, <4>1, <4>3 DEF Placed
        <5>2. y \in At(d, Counted)
          BY <2>2, <5>1 DEF At, Counted, Served
        <5> QED
          BY <1>1, <1>5, <4>3, <5>2, PcTypes DEF GateClosed
      <4> QED
        BY <4>2, <4>3
    <3>6. EndExplained(y)'
      BY <3>1, <3>4, <3>5 DEF EndExplained
    <3> QED
      BY <3>3, <3>6
  <2> QED
    BY <2>1, <2>2
<1> QED
  BY <1>3, <1>6, <1>7 DEF HostInv

\* bind_listener, load and exit between two system calls: the clients stay, and
\* so does the reason.
LEMMA GotoHolds ==
    ASSUME HostInv, NEW d \in Daemons, NEW pc \in DaemonPcs, Goto(d, pc),
           file' \in Daemons \cup {None}, pidfile' \in Daemons \cup {None},
           held' \in [Daemons -> {"empty", "idle", "busy"}], strayed' \subseteq Daemons, UNCHANGED <<shutting, active, client>>,
           \/ daemon[d].pc \in Binding /\ pc \in Binding \cup {"loading"} /\ held' = held
           \/ daemon[d].pc = "loading" /\ pc = "serving" /\ \A e \in Daemons \ {d} : held'[e] = held[e]
           \/ daemon[d].pc \in Leaving /\ pc \in Leaving /\ held' = held
    PROVE  HostInv'
<1>1. /\ TypeOK /\ \A y \in Clients : Placed(y) /\ EndExplained(y)
      /\ \A e \in Daemons : ActiveCounts(e) /\ GateReason(e) /\ GateClosed(e)
  BY DEF HostInv
<1>2. /\ daemon' \in [Daemons -> DaemonState]
      /\ daemon'[d].pc = pc /\ daemon'[d].why = daemon[d].why
      /\ \A e \in Daemons \ {d} : daemon'[e] = daemon[e]
  BY <1>1 DEF Goto, TypeOK, DaemonState
<1>3. TypeOK'
  BY <1>1, <1>2 DEF TypeOK, DaemonState
<1>4. \A e, pcs : At(e, pcs)' = At(e, pcs)
  BY DEF At
<1>5. ASSUME NEW e \in Daemons PROVE (ActiveCounts(e) /\ GateReason(e) /\ GateClosed(e))'
  <2>1. CASE e = d
    BY <1>1, <1>2, <1>4, <2>1, PcTypes DEF ActiveCounts, GateReason, GateClosed
  <2>2. CASE e # d
    BY <1>1, <1>2, <1>4, <2>2 DEF ActiveCounts, GateReason, GateClosed
  <2> QED
    BY <2>1, <2>2
<1>6. ASSUME NEW y \in Clients PROVE (Placed(y) /\ EndExplained(y))'
  <2>1. Placed(y)'
    BY <1>1, <1>2, PcTypes DEF Placed, Bound
  <2>2. EndExplained(y)'
    BY <1>1, <1>2, <1>4 DEF EndExplained, Placed
  <2> QED
    BY <2>1, <2>2
<1> QED
  BY <1>3, <1>5, <1>6 DEF HostInv

\* spawn_idle_watcher: nobody is connected to a daemon that leaves because it was
\* idle.
LEMMA IdleExitHolds == ASSUME HostInv, NEW d \in Daemons, IdleExit(d) PROVE HostInv'
<1>1. /\ TypeOK /\ \A y \in Clients : Placed(y) /\ EndExplained(y)
      /\ \A e \in Daemons : ActiveCounts(e) /\ GateReason(e) /\ GateClosed(e)
  BY DEF HostInv
<1>2. /\ daemon[d].pc = "serving" /\ active[d] = 0 /\ At(d, Counted) = {} /\ held[d] = "empty"
      /\ shutting' = shutting \cup {d} /\ UNCHANGED <<file, pidfile, active, held, client, strayed>>
      /\ daemon' = [daemon EXCEPT ![d] = [pc |-> "unlink", why |-> "idle"]]
  BY PcTypes DEF IdleExit, Leave
<1>3. /\ daemon' \in [Daemons -> DaemonState]
      /\ daemon'[d].pc = "unlink" /\ daemon'[d].why = "idle"
      /\ \A e \in Daemons \ {d} : daemon'[e] = daemon[e]
  BY <1>1, <1>2, PcTypes DEF TypeOK, DaemonState, Reasons
<1>4. TypeOK'
  BY <1>1, <1>2, <1>3 DEF TypeOK, DaemonState
<1>5. /\ \A e, pcs : At(e, pcs)' = At(e, pcs)
      /\ At(d, {"handling"}) = {}
  BY <1>2 DEF At, Counted, Served
<1>6. ASSUME NEW e \in Daemons PROVE (ActiveCounts(e) /\ GateReason(e) /\ GateClosed(e))'
  <2>1. CASE e = d
    BY <1>1, <1>2, <1>3, <1>5, <2>1, PcTypes DEF ActiveCounts, GateReason, GateClosed
  <2>2. CASE e # d
    BY <1>1, <1>2, <1>3, <1>5, <2>2 DEF ActiveCounts, GateReason, GateClosed
  <2> QED
    BY <2>1, <2>2
<1>7. ASSUME NEW y \in Clients PROVE (Placed(y) /\ EndExplained(y))'
  <2>1. Placed(y)'
    BY <1>1, <1>2, <1>3, PcTypes DEF Placed, Bound
  <2>2. EndExplained(y)'
    BY <1>1, <1>2, <1>3, <1>5 DEF EndExplained, Placed
  <2> QED
    BY <2>1, <2>2
<1> QED
  BY <1>4, <1>6, <1>7 DEF HostInv

\* What the sessions of a daemon do by themselves.
LEMMA DriftHolds == ASSUME HostInv, NEW d \in Daemons, Drift(d) PROVE HostInv'
<1>1. /\ TypeOK /\ \A y \in Clients : Placed(y) /\ EndExplained(y)
      /\ \A e \in Daemons : ActiveCounts(e) /\ GateReason(e) /\ GateClosed(e)
  BY DEF HostInv
<1>2. /\ daemon[d].pc = "serving" /\ UNCHANGED <<file, pidfile, daemon, shutting, active, client, strayed>>
      /\ held' \in [Daemons -> {"empty", "idle", "busy"}]
      /\ \A e \in Daemons \ {d} : held'[e] = held[e]
  BY <1>1 DEF Drift, TypeOK
<1>3. TypeOK'
  BY <1>1, <1>2 DEF TypeOK
<1>4. \A e, pcs : At(e, pcs)' = At(e, pcs)
  BY <1>2 DEF At
<1>5. \A e \in Daemons : (ActiveCounts(e) /\ GateReason(e) /\ GateClosed(e))'
  BY <1>1, <1>2, <1>4, PcTypes DEF ActiveCounts, GateReason, GateClosed
<1>6. \A y \in Clients : (Placed(y) /\ EndExplained(y))'
  BY <1>1, <1>2, <1>4 DEF Placed, EndExplained, Bound
<1> QED
  BY <1>3, <1>5, <1>6 DEF HostInv

\* bind_listener and load, exit, and the end of a process.
LEMMA ProcessHolds ==
    ASSUME HostInv, NEW d \in Daemons, Starts(d) \/ Leaves(d) \/ Crash(d)
    PROVE  HostInv'
<1>1. TypeOK /\ GateReason(d)
  BY DEF HostInv
<1>2. /\ {"bind", "probe", "remove", "loading", "serving", "unpid", "exit"} \subseteq DaemonPcs
      /\ {"refused", "crashed"} \subseteq Reasons /\ daemon[d].why \in Reasons
  BY <1>1, PcTypes DEF Reasons, TypeOK
<1>3. /\ file \in Daemons \cup {None} /\ pidfile \in Daemons \cup {None}
      /\ held \in [Daemons -> {"empty", "idle", "busy"}] /\ strayed \subseteq Daemons
  BY <1>1 DEF TypeOK
<1>4. CASE Exists(d)
  <2>1. PICK pc \in {"bind", "probe"} : Goto(d, pc)
    BY <1>4 DEF Exists
  <2> QED
    BY <1>2, <1>3, <1>4, <2>1, GotoHolds, PcTypes DEF Exists
<1>5. CASE Probe(d)
  BY <1>2, <1>3, <1>5, GotoHolds, EndsHolds, PcTypes DEF Probe
<1>6. CASE Remove(d)
  BY <1>2, <1>3, <1>6, GotoHolds, EndsHolds, PcTypes DEF Remove
<1>7. CASE Bind(d)
  BY <1>2, <1>3, <1>7, GotoHolds, EndsHolds, PcTypes DEF Bind
<1>8. CASE Load(d)
  <2>1. /\ held' \in [Daemons -> {"empty", "idle", "busy"}]
        /\ \A e \in Daemons \ {d} : held'[e] = held[e]
    BY <1>3, <1>8 DEF Load
  <2> QED
    BY <1>2, <1>3, <1>8, <2>1, GotoHolds DEF Load
<1>9. CASE Unlink(d) \/ RemovePid(d)
  <2>1. strayed' \subseteq Daemons
    BY <1>3, <1>9 DEF Unlink, RemovePid
  <2> QED
    BY <2>1, <1>2, <1>3, <1>9, GotoHolds, PcTypes DEF Unlink, RemovePid
<1>10. CASE Exit(d)
  BY <1>2, <1>3, <1>10, EndsHolds DEF Exit
<1>11. CASE Crash(d)
  BY <1>2, <1>3, <1>11, EndsHolds DEF Crash
<1> QED
  BY <1>4, <1>5, <1>6, <1>7, <1>8, <1>9, <1>10, <1>11 DEF Starts, Leaves

\* Every step of the daemons and their clients keeps the invariant.
LEMMA NextHolds == HostInv /\ [Next]_vars => HostInv'
<1> SUFFICES ASSUME HostInv, [Next]_vars PROVE HostInv'
  OBVIOUS
<1>1. CASE UNCHANGED vars
  <2>1. \A d, pcs : At(d, pcs)' = At(d, pcs)
    BY <1>1 DEF vars, At
  <2>2. TypeOK'
    BY <1>1 DEF vars, HostInv, TypeOK
  <2>3. \A c \in Clients : (Placed(c) /\ EndExplained(c))'
    BY <1>1, <2>1 DEF vars, HostInv, Placed, EndExplained, Bound
  <2>4. \A d \in Daemons : (ActiveCounts(d) /\ GateReason(d) /\ GateClosed(d))'
    BY <1>1, <2>1 DEF vars, HostInv, ActiveCounts, GateReason, GateClosed
  <2> QED
    BY <2>2, <2>3, <2>4 DEF HostInv
<1>2. ASSUME NEW d \in Daemons, Starts(d) \/ Leaves(d) \/ IdleExit(d) \/ Crash(d) \/ Drift(d)
      PROVE  HostInv'
  BY <1>2, ProcessHolds, IdleExitHolds, DriftHolds
<1>3. ASSUME NEW c \in Clients,
             \/ Connect(c) \/ Retry(c) \/ GiveUp(c) \/ Again(c)
             \/ Serves(c) \/ Request(c) \/ Hangup(c)
             \/ \E force \in BOOLEAN : Shutdown(c, force)
      PROVE  HostInv'
  BY <1>3, ConnectHolds, PlaceHolds, AnewHolds, RequestHolds, FinishHolds, AckHolds, ShutdownHolds DEF Serves
<1> QED
  BY <1>1, <1>2, <1>3 DEF Next

\* The inductive invariant holds of every behaviour: among the rest, a daemon's
\* count is that of its requests, and one that shuts down politely has none.
THEOREM HostInvariant == Spec => []HostInv
<1>1. Init => HostInv
  BY InitHolds
<1> QED
  BY <1>1, NextHolds, PTL DEF Spec

\* admit_state_request and admit_shutdown: however many clients and daemons there
\* are, only a forced shutdown or a crash cuts an admitted request off.
THEOREM AdmittedRequestsFinish == Spec => []RequestsFinish
<1>1. HostInv => RequestsFinish
  BY DEF HostInv, RequestsFinish, EndExplained
<1> QED
  BY <1>1, HostInvariant, PTL

\* spawn_idle_watcher: a daemon that leaves as idle holds nothing and nobody.
THEOREM IdleExitIsEmpty == Spec => []IdleTakesNothing
<1>1. HostInv => IdleTakesNothing
  BY DEF HostInv, IdleTakesNothing, GateClosed, At, Counted
<1> QED
  BY <1>1, HostInvariant, PTL

\* admit_shutdown and serve_connection: a daemon that refuses requests is leaving
\* or has an answer to write first, and no process exits with its only shutdown
\* unanswered.
THEOREM ShutdownCompletes == Spec => []ShutdownRunsItsCourse
<1>1. HostInv => ShutdownRunsItsCourse
  <2> SUFFICES ASSUME HostInv PROVE ShutdownRunsItsCourse
    OBVIOUS
  <2>1. ASSUME NEW d \in shutting PROVE daemon[d].pc \in Leaving \cup {"dead"} \/ At(d, {"acking"}) # {}
    <3>1. d \in Daemons
      BY DEF HostInv, TypeOK
    <3> QED
      BY <3>1 DEF HostInv, GateReason, GateClosed
  <2>2. \A c \in Clients : client[c].pc = "unacked" =>
           LET d == client[c].at
           IN  daemon[d].why = "crashed" \/ At(d, {"acked"}) # {}
    BY DEF HostInv, EndExplained
  <2> QED
    BY <2>1, <2>2 DEF ShutdownRunsItsCourse
<1> QED
  BY <1>1, HostInvariant, PTL

-----------------------------------------------------------------------------
(* Starts that no other races.                                              *)

\* A step that starts nobody and makes nobody hold the path leaves a holder that
\* was not raced alone, if it leaves the path alone.
LEMMA HolderStays ==
    ASSUME OneHolder, strayed \subseteq strayed', Starting' \subseteq Starting,
           Holding' \subseteq Holding,
           \A d \in Holding' \ strayed' : file' = file
    PROVE  OneHolder'
BY DEF OneHolder

\* connect_or_start starts a daemon only when nobody answers at the path.
LEMMA ConnectOne ==
    ASSUME HostInv, OneHolder, NEW c \in Clients, Connect(c)
    PROVE  OneHolder'
<1>1. CASE UNCHANGED <<daemon, strayed>>
  BY <1>1, HolderStays DEF Connect, Starting, Holding
<1>2. CASE ~ UNCHANGED <<daemon, strayed>>
  <2>1. ~ Answers /\ UNCHANGED file
    BY <1>2 DEF Connect
  <2>2. PICK d \in Daemons :
           /\ daemon[d].pc = "absent" /\ Goto(d, "exists")
           /\ strayed' = IF Starting = {} THEN strayed ELSE strayed \cup Starting \cup {d}
    BY <1>2 DEF Connect
  <2>3. /\ daemon'[d].pc = "exists" /\ \A e \in Daemons \ {d} : daemon'[e] = daemon[e]
    BY <2>2 DEF Goto, HostInv, TypeOK
  <2>4. Holding \subseteq strayed
    BY <2>1, PcTypes DEF OneHolder, Holding, Answers, Bound
  <2>5. Starting' = Starting \cup {d}
    BY <2>3, PcTypes DEF Starting
  <2>6. Holding' \subseteq Holding
    BY <2>3 DEF Holding
  <2>7. Holding' \subseteq strayed'
    BY <2>2, <2>4, <2>6
  <2>8. CASE Starting = {}
    BY <2>5, <2>7, <2>8 DEF OneHolder
  <2>9. CASE Starting # {}
    <3>1. Starting' \subseteq strayed'
      BY <2>2, <2>5, <2>9
    <3> QED
      BY <2>7, <3>1 DEF OneHolder
  <2> QED
    BY <2>8, <2>9
<1> QED
  BY <1>1, <1>2

\* bind: a daemon that no other races takes a path that nobody holds.
LEMMA BindOne ==
    ASSUME HostInv, OneHolder, NEW d \in Daemons, Bind(d)
    PROVE  OneHolder'
<1>1. d \in Starting /\ daemon \in [Daemons -> DaemonState] /\ UNCHANGED strayed
  BY PcTypes DEF Bind, Starting, HostInv, TypeOK, DaemonState
<1>2. \A e \in Daemons \ {d} : daemon'[e] = daemon[e]
  BY <1>1 DEF Bind, Ends, Goto
<1>3. \/ daemon'[d].pc = "dead" /\ file' = file
      \/ daemon'[d].pc = "loading" /\ file' = d
  BY <1>1 DEF Bind, Ends, Goto, DaemonState
<1>4. Starting' \subseteq Starting \ {d}
  BY <1>2, <1>3, PcTypes DEF Starting
<1>5. \A e \in Holding' : e \in Holding \/ (e = d /\ file' = d)
  BY <1>2, <1>3 DEF Holding
<1>6. \A e \in Starting \ strayed : Starting = {e}
  BY DEF OneHolder
<1>7. Starting' \subseteq strayed'
  BY <1>1, <1>4, <1>6
<1>8. ASSUME NEW e \in Holding' \ strayed' PROVE file' = e /\ Starting' = {}
  <2>1. e \notin Holding
    BY <1>1, <1>8 DEF OneHolder
  <2>2. e = d /\ file' = d
    BY <1>5, <1>8, <2>1
  <2>3. Starting = {d}
    BY <1>1, <1>6, <1>8, <2>2
  <2> QED
    BY <1>4, <2>2, <2>3
<1> QED
  BY <1>7, <1>8 DEF OneHolder

\* The other steps of a daemon that starts.
LEMMA StartOne ==
    ASSUME HostInv, OneHolder, NEW d \in Daemons, Exists(d) \/ Probe(d) \/ Remove(d)
    PROVE  OneHolder'
<1>1. d \in Starting /\ daemon \in [Daemons -> DaemonState] /\ UNCHANGED strayed
  BY PcTypes DEF Exists, Probe, Remove, Starting, HostInv, TypeOK, DaemonState
<1>2. Holding \subseteq strayed
  BY <1>1 DEF OneHolder
<1>3. /\ \A e \in Daemons \ {d} : daemon'[e] = daemon[e]
      /\ daemon'[d].pc \in {"probe", "remove", "bind", "dead"}
  BY <1>1 DEF Exists, Probe, Remove, Ends, Goto, DaemonState
<1>4. Starting' \subseteq Starting /\ Holding' \subseteq Holding
  BY <1>1, <1>3 DEF Starting, Holding
<1> QED
  BY <1>1, <1>2, <1>4, HolderStays

\* Loading, idling out and a crash: the holder stays, or there is none left.
LEMMA HoldOne ==
    ASSUME HostInv, OneHolder, NEW d \in Daemons, Load(d) \/ IdleExit(d) \/ Crash(d) \/ Drift(d)
    PROVE  OneHolder'
<1>1. daemon \in [Daemons -> DaemonState] /\ UNCHANGED <<file, strayed>>
  BY DEF HostInv, TypeOK, DaemonState, Load, IdleExit, Crash, Drift
<1>2. /\ \A e \in Daemons \ {d} : daemon'[e] = daemon[e]
      /\ \/ daemon'[d] = daemon[d]
         \/ d \in Holding /\ daemon'[d].pc \in {"serving", "unlink"}
         \/ daemon'[d].pc = "dead"
  BY <1>1, PcTypes DEF Load, IdleExit, Leave, Crash, Drift, Ends, Goto, DaemonState, Holding
<1>3. Starting' \subseteq Starting /\ Holding' \subseteq Holding
  BY <1>2, PcTypes DEF Starting, Holding
<1> QED
  BY <1>1, <1>3, HolderStays

\* exit unlinks the path, once: its own, or that of a daemon it strays.
LEMMA LeaveOne ==
    ASSUME HostInv, OneHolder, NEW d \in Daemons, Leaves(d)
    PROVE  OneHolder'
<1>1. daemon \in [Daemons -> DaemonState]
  BY DEF HostInv, TypeOK, DaemonState
<1>2. /\ \A e \in Daemons \ {d} : daemon'[e] = daemon[e]
      /\ daemon'[d].pc \in {"unpid", "exit", "dead"}
      /\ Unlink(d) \/ UNCHANGED <<file, strayed>>
  BY <1>1 DEF Leaves, Unlink, RemovePid, Exit, Ends, Goto, DaemonState
<1>3. Starting' \subseteq Starting /\ Holding' \subseteq Holding \ {d}
  BY <1>2, PcTypes DEF Starting, Holding
<1>4. CASE UNCHANGED <<file, strayed>>
  BY <1>3, <1>4, HolderStays
<1>5. CASE Unlink(d)
  <2>1. /\ daemon[d].pc = "unlink"
        /\ strayed' = IF d \in strayed THEN strayed \cup ({file} \ {d, None}) ELSE strayed
    BY <1>5 DEF Unlink
  <2>2. d \in Holding
    BY <2>1 DEF Holding
  <2>3. ASSUME NEW e \in Holding' \ strayed' PROVE FALSE
    <3>1. e \in Holding \ strayed /\ e # d
      BY <1>3, <2>1, <2>3
    <3>2. file = e /\ e # None
      BY <3>1, HostAssumption DEF OneHolder, Holding
    <3>3. d \in strayed
      BY <2>2, <3>1, <3>2 DEF OneHolder
    <3> QED
      BY <2>1, <2>3, <3>1, <3>2, <3>3
  <2>4. strayed \subseteq strayed'
    BY <2>1
  <2> QED
    BY <1>3, <2>3, <2>4, HolderStays
<1> QED
  BY <1>2, <1>4, <1>5

\* The clients' other steps; an answered shutdown sends the holder on its way.
LEMMA ClientOne ==
    ASSUME HostInv, OneHolder, NEW c \in Clients,
           \/ Retry(c) \/ GiveUp(c) \/ Again(c) \/ Serves(c) \/ Request(c) \/ Hangup(c)
           \/ \E force \in BOOLEAN : Shutdown(c, force)
    PROVE  OneHolder'
<1>1. UNCHANGED <<file, strayed>> /\ daemon \in [Daemons -> DaemonState]
  BY DEF Retry, GiveUp, Again, Serves, Accept, Handshake, Finish, Ack, Request, Hangup, Shutdown,
         HostInv, TypeOK, DaemonState
<1>2. CASE UNCHANGED daemon
  BY <1>1, <1>2, HolderStays DEF Starting, Holding
<1>3. CASE \E force \in BOOLEAN : Shutdown(c, force)
  <2>1. \A e \in Daemons : daemon'[e].pc = daemon[e].pc
    BY <1>1, <1>3 DEF Shutdown, DaemonState
  <2> QED
    BY <1>1, <2>1, HolderStays DEF Starting, Holding
<1>4. CASE Ack(c)
  <2> DEFINE d == client[c].at
  <2>1. d \in Daemons /\ daemon[d].pc \in {"serving"} \cup Leaving
    BY <1>4 DEF Ack, HostInv, Placed, Counted, Served
  <2>2. \A e \in Daemons : \/ daemon'[e] = daemon[e]
                           \/ daemon[e].pc = "serving" /\ daemon'[e].pc = "unlink"
    BY <1>1, <1>4, <2>1 DEF Ack, Leave
  <2>3. Starting' \subseteq Starting /\ Holding' \subseteq Holding
    BY <2>2, PcTypes DEF Starting, Holding
  <2> QED
    BY <1>1, <2>3, HolderStays
<1> QED
  BY <1>2, <1>3, <1>4 DEF Retry, GiveUp, Again, Serves, Accept, Handshake, Finish, Request, Hangup

\* Every step keeps the path with the one daemon that holds it.
LEMMA NextOne == ASSUME HostInv, OneHolder, [Next]_vars PROVE OneHolder'
<1>1. CASE UNCHANGED vars
  BY <1>1, HolderStays DEF vars, Starting, Holding
<1>2. ASSUME NEW d \in Daemons, Starts(d) \/ Leaves(d) \/ IdleExit(d) \/ Crash(d) \/ Drift(d)
      PROVE  OneHolder'
  BY <1>2, BindOne, StartOne, HoldOne, LeaveOne DEF Starts
<1>3. ASSUME NEW c \in Clients, Connect(c) PROVE OneHolder'
  BY <1>3, ConnectOne
<1>4. ASSUME NEW c \in Clients,
             \/ Retry(c) \/ GiveUp(c) \/ Again(c) \/ Serves(c) \/ Request(c) \/ Hangup(c)
             \/ \E force \in BOOLEAN : Shutdown(c, force)
      PROVE  OneHolder'
  BY <1>4, ClientOne
<1> QED
  BY <1>1, <1>2, <1>3, <1>4 DEF Next

\* bind_listener and exit, however many daemons start at once: a start that no other
\* races finds nobody holding the path but those that were raced, and has the path
\* to itself from its bind to its unlink.
THEOREM OneHolderInvariant == Spec => []OneHolder
<1>1. Init => OneHolder
  BY InitHolds
<1>2. HostInv /\ OneHolder /\ [Next]_vars => OneHolder'
  BY NextOne
<1> QED
  BY <1>1, <1>2, HostInvariant, PTL DEF Spec

\* bind_listener, across exits, crashes and races of any number of daemons: a daemon
\* that serves is the one the socket path leads to, unless its own start was raced
\* or a daemon of such a race unlinked its path.
THEOREM ServingIsReachable == Spec => []ServingReachable
<1>1. OneHolder => ServingReachable
  BY DEF OneHolder, Holding, ServingReachable
<1> QED
  BY <1>1, OneHolderInvariant, PTL

\* load, where neither process was in a race: it takes the ledger over from a daemon
\* that has left the path and, unless it was forced out, has no request in flight
\* that would still write it.
THEOREM QuietHandover == Spec => HandoverIsQuiet
<1> DEFINE Quiet == \A d, e \in Daemons :
              daemon[d].pc = "loading" /\ daemon'[d].pc = "serving" /\ e \in Bound \ {d} =>
                  active[e] = 0 \/ daemon[e].why = "forced" \/ {d, e} \cap strayed # {}
<1>1. HostInv /\ OneHolder => Quiet
  <2> SUFFICES ASSUME HostInv, OneHolder, NEW d \in Daemons, NEW e \in Bound \ {d},
                      daemon[d].pc = "loading", daemon[e].why # "forced",
                      d \notin strayed, e \notin strayed
               PROVE  active[e] = 0
    BY DEF Bound
  <2>1. e \in Daemons /\ e \notin Holding
    BY DEF OneHolder, Holding, Bound
  <2>2. daemon[e].pc \in Leaving
    BY <2>1 DEF Bound, Holding
  <2>3. e \in shutting /\ daemon[e].why # "crashed"
    BY <2>1, <2>2 DEF HostInv, GateReason
  <2>4. At(e, {"handling"}) = {}
    BY <2>1, <2>3 DEF HostInv, GateClosed
  <2>5. active[e] = Cardinality(At(e, {"handling"}))
    BY <2>1, <2>2, PcTypes DEF HostInv, ActiveCounts
  <2> QED
    BY <2>4, <2>5, FS_EmptySet
<1>2. HostInv /\ OneHolder => [Quiet]_vars
  BY <1>1
<1> QED
  BY <1>2, HostInvariant, OneHolderInvariant, PTL DEF HandoverIsQuiet
=============================================================================
