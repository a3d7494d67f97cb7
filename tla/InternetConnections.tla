------------------------- MODULE InternetConnections -------------------------
(***************************************************************************)
(* Connections that clients make to the server over the internet.  A       *)
(* worker thread logs a client in and keeps the connection as a spare one; *)
(* a thread of the server that wants to talk to the client takes a spare   *)
(* connection, waits until the worker has connected it to a service of the *)
(* client, and goes away with its pipe.  The worker then destroys the      *)
(* connector, and only the connector.                                      *)
(*                                                                         *)
(* A step of a connection is one of the worker that has it, one of a       *)
(* caller is one between two acquisitions of a mutex.                      *)
(***************************************************************************)
EXTENDS FiniteSets

CONSTANTS Conns,     \* connections, each with its connector
          Callers,   \* threads that call getConnection
          Clients,   \* names of clients
          Workers,   \* threads (CServiceWorker), each with some of the connections
          WorkerOf,  \* the worker that has a connection
          None

ASSUME ConnectionsAssumption ==
    /\ None \notin Conns \cup Clients
    /\ WorkerOf \in [Conns -> Workers]

VARIABLES conn,      \* the connectors
          spares,    \* client_data: spare_connections
          entry,     \* client_data: whether there is an entry for the client
          endpoint,  \* client_data: whether endpoint_name is known
          call,      \* what each caller is doing
          reading    \* the connection in whose half read frame a worker waits, if it does

vars == <<conn, spares, entry, endpoint, call, reading>>

Idle == [pc |-> "idle", client |-> None, isc |-> None]

\* the connector after its Init
Fresh ==
    [state |-> "auth", client |-> None, has_timeout |-> FALSE, connect_start |-> FALSE,
     do_connect |-> FALSE, stop_connecting |-> FALSE, is_connected |-> FALSE,
     free_connection |-> FALSE, pinging |-> FALSE, done_cond |-> "null", pipes |-> "none",
     socket |-> "open", eof |-> FALSE]

Init ==
    /\ conn = [c \in Conns |-> Fresh]
    /\ spares = [k \in Clients |-> {}]
    /\ entry = [k \in Clients |-> FALSE]
    /\ endpoint = [k \in Clients |-> FALSE]
    /\ call = [g \in Callers |-> Idle]
    /\ reading = [w \in Workers |-> None]

\* ISS_CAPA has a second part here, "listed", in which the worker has put the connector into the
\* list; "leaving" is a connector whose Run has returned false.
Active == {"auth", "capa", "listed", "authed", "connecting", "used"}

Connector ==
    [state : Active \cup {"leaving", "gone"}, client : Clients \cup {None},
     has_timeout : BOOLEAN, connect_start : BOOLEAN, do_connect : BOOLEAN,
     stop_connecting : BOOLEAN, is_connected : BOOLEAN, free_connection : BOOLEAN,
     pinging : BOOLEAN, done_cond : {"null", "live", "destroyed"},
     pipes : {"none", "made", "deleted"}, socket : {"open", "closed"}, eof : BOOLEAN]

\* What a caller remembers: where it is in getConnection, for which client, with which connection
Attempt ==
    [pc : {"idle", "look", "connect", "wait", "take", "free", "again", "have"},
     client : Clients \cup {None}, isc : Conns \cup {None}]

TypeOK ==
    /\ conn \in [Conns -> Connector]
    /\ spares \in [Clients -> SUBSET Conns]
    /\ entry \in [Clients -> BOOLEAN]
    /\ endpoint \in [Clients -> BOOLEAN]
    /\ call \in [Callers -> Attempt]
    /\ reading \in [Workers -> Conns \cup {None}]

-------------------------------------------------------------------------------
(***************************************************************************)
(* The worker and the client at the other end: ReceivePackets.             *)
(***************************************************************************)
Stuck(c) == reading[WorkerOf[c]] # None

\* the worker reads what the client has sent
Reads(c, state) == ~Stuck(c) /\ conn[c].state = state /\ ~conn[c].has_timeout /\ ~conn[c].eof

\* Once the client is logged in the pipe reads until it has a whole frame, without a time
\* limit, and the worker does nothing else (not "listed", or "used" and not yet connected:
\* then it is still busy with what it has read before).
PartOfFrame(c) ==
    /\ \E state \in {"capa", "authed", "connecting"} : Reads(c, state)
    /\ \A d \in Conns : WorkerOf[d] = WorkerOf[c] =>
          conn[d].state # "listed" /\ (conn[d].state = "used" => conn[d].is_connected)
    /\ reading' = [reading EXCEPT ![WorkerOf[c]] = c]
    /\ UNCHANGED <<conn, spares, entry, endpoint, call>>

\* What the frame asks for is a step of its own.
RestOfFrame(c) ==
    /\ reading[WorkerOf[c]] = c /\ ~conn[c].eof
    /\ reading' = [reading EXCEPT ![WorkerOf[c]] = None]
    /\ UNCHANGED <<conn, spares, entry, endpoint, call>>

\* The connection is closed in the middle of a frame: Read returns nothing.
FrameLost(c) ==
    /\ reading[WorkerOf[c]] = c /\ conn[c].eof
    /\ reading' = [reading EXCEPT ![WorkerOf[c]] = None]
    /\ UNCHANGED <<conn, spares, entry, endpoint, call>>

\* A client that fails to log in may try again.
Auth(c) ==
    /\ Reads(c, "auth")
    /\ \E k \in Clients :
          conn' = [conn EXCEPT ![c].state = "capa", ![c].client = k, ![c].pipes = "made"]
    /\ UNCHANGED <<spares, entry, endpoint, call, reading>>

Capa(c) ==
    LET k == conn[c].client
    IN  /\ Reads(c, "capa")
        /\ conn' = [conn EXCEPT ![c].state = "listed"]
        /\ spares' = [spares EXCEPT ![k] = @ \cup {c}]
        /\ entry' = [entry EXCEPT ![k] = TRUE]
        /\ endpoint' = [endpoint EXCEPT ![k] = TRUE]
        /\ UNCHANGED <<call, reading>>

Authed(c) ==
    /\ ~Stuck(c) /\ conn[c].state = "listed"
    /\ conn' = [conn EXCEPT ![c].state = "authed"]
    /\ UNCHANGED <<spares, entry, endpoint, call, reading>>

\* An entry that is gone comes back, with neither connections nor endpoint.
Pong(c) ==
    /\ Reads(c, "authed") /\ conn[c].pinging
    /\ conn' = [conn EXCEPT ![c].pinging = FALSE]
    /\ entry' = [entry EXCEPT ![conn[c].client] = TRUE]
    /\ UNCHANGED <<spares, endpoint, call, reading>>

ConnectOk(c) ==
    /\ Reads(c, "connecting")
    /\ conn' = [conn EXCEPT ![c].state = "used"]
    /\ entry' = [entry EXCEPT ![conn[c].client] = TRUE]
    /\ UNCHANGED <<spares, endpoint, call, reading>>

\* is_connected is set, and connection_done_cond notified, under local_mutex
Connected(c) ==
    /\ ~Stuck(c) /\ conn[c].state = "used" /\ ~conn[c].is_connected
    /\ conn' = [conn EXCEPT ![c].is_connected = TRUE]
    /\ UNCHANGED <<spares, entry, endpoint, call, reading>>

\* cleanup_pipes
Cleaned(r) == [r EXCEPT !.pipes = IF @ = "made" THEN "deleted" ELSE @]
WithoutSpare(c) == [k \in Clients |-> IF k = conn[c].client THEN spares[k] \ {c} ELSE spares[k]]

\* slip: the connector stays in the list of its client
TimesOutListed(c) ==
    /\ ~conn[c].connect_start
    /\ conn' = [conn EXCEPT ![c] = [Cleaned(@) EXCEPT !.has_timeout = TRUE]]
    /\ UNCHANGED <<spares, entry, endpoint, call, reading>>

\* slip: nobody looks whether a caller has taken the connection
TimesOutTaken(c) ==
    /\ conn' = [conn EXCEPT ![c] = [Cleaned(@) EXCEPT !.has_timeout = TRUE]]
    /\ spares' = WithoutSpare(c)
    /\ UNCHANGED <<entry, endpoint, call, reading>>

TimesOut(c) ==
    /\ ~conn[c].connect_start
    /\ conn' = [conn EXCEPT ![c] = [Cleaned(@) EXCEPT !.has_timeout = TRUE]]
    /\ spares' = WithoutSpare(c)
    /\ UNCHANGED <<entry, endpoint, call, reading>>

\* The client has closed the connection: nothing is read.
ReadNothing(c) ==
    /\ ~Stuck(c)
    /\ conn[c].state \in {"auth", "capa", "authed"} /\ conn[c].eof /\ ~conn[c].has_timeout
    /\ TimesOut(c)

Break(c) ==
    /\ conn[c].state \in Active /\ ~conn[c].eof
    /\ conn' = [conn EXCEPT ![c].eof = TRUE]
    /\ UNCHANGED <<spares, entry, endpoint, call, reading>>

-------------------------------------------------------------------------------
(***************************************************************************)
(* The worker: Run, and what CServiceWorker does when it returns false.    *)
(***************************************************************************)
Runs(c) ==
    ~Stuck(c) /\ conn[c].state \in {"auth", "capa", "authed"} /\ ~conn[c].stop_connecting /\ ~conn[c].has_timeout

SendConnect(c) ==
    /\ Runs(c) /\ conn[c].state = "authed" /\ conn[c].do_connect /\ ~conn[c].pinging
    /\ conn' = [conn EXCEPT ![c].state = "connecting"]
    /\ UNCHANGED <<spares, entry, endpoint, call, reading>>

Ping(c) ==
    /\ Runs(c) /\ conn[c].state = "authed" /\ ~conn[c].pinging
    /\ conn' = [conn EXCEPT ![c].pinging = TRUE]
    /\ UNCHANGED <<spares, entry, endpoint, call, reading>>

PingTimeout(c) ==
    /\ Runs(c) /\ conn[c].state = "authed" /\ conn[c].pinging
    /\ TimesOut(c)

\* Not while ReceivePackets is at work: "listed", or "used" and not yet connected.
Leave(c) ==
    LET r == conn[c]
    IN  /\ ~Stuck(c)
        /\ r.state \in Active \ {"listed"} /\ (r.state = "used" => r.is_connected)
        /\ IF r.stop_connecting THEN conn' = [conn EXCEPT ![c] = [Cleaned(@) EXCEPT !.state = "leaving"]]
           ELSE /\ IF r.state = "used" THEN r.free_connection
                   ELSE r.state # "connecting" /\ r.has_timeout
                /\ conn' = [conn EXCEPT ![c].state = "leaving"]
        /\ UNCHANGED <<spares, entry, endpoint, call, reading>>

\* What is left of a destroyed connector; its pipes stay, if the destructor does not clean up.
Destroyed(r) ==
    [Fresh EXCEPT !.state = "gone", !.client = r.client,
                  !.pipes = IF r.connect_start THEN r.pipes ELSE Cleaned(r).pipes]

\* slip: closeSocket does not look whose the socket is
DestroyAndClose(c) ==
    /\ ~Stuck(c) /\ conn[c].state = "leaving"
    /\ conn' = [conn EXCEPT ![c] = [Destroyed(@) EXCEPT !.socket = "closed"]]
    /\ spares' = IF conn[c].connect_start THEN spares ELSE WithoutSpare(c)
    /\ UNCHANGED <<entry, endpoint, call, reading>>

\* closeSocket, and the destructor
Destroy(c) ==
    /\ ~Stuck(c) /\ conn[c].state = "leaving"
    /\ conn' = [conn EXCEPT ![c] = [Destroyed(@) EXCEPT
                   !.socket = IF conn[c].free_connection THEN conn[c].socket ELSE "closed"]]
    /\ spares' = IF conn[c].connect_start THEN spares ELSE WithoutSpare(c)
    /\ UNCHANGED <<entry, endpoint, call, reading>>

-------------------------------------------------------------------------------
(***************************************************************************)
(* A caller: getConnection.                                                *)
(***************************************************************************)
Call(g, k) ==
    /\ call[g].pc = "idle"
    /\ call' = [call EXCEPT ![g] = [pc |-> "look", client |-> k, isc |-> None]]
    /\ UNCHANGED <<conn, spares, entry, endpoint, reading>>

NoEntry(g) ==
    /\ call[g].pc = "look"
    /\ ~entry[call[g].client]
    /\ call' = [call EXCEPT ![g] = Idle]
    /\ UNCHANGED <<conn, spares, entry, endpoint, reading>>

NoSpare(g) ==
    /\ call[g].pc = "look"
    /\ entry[call[g].client] /\ spares[call[g].client] = {}
    /\ call' = [call EXCEPT ![g].pc = "again"]
    /\ UNCHANGED <<conn, spares, entry, endpoint, reading>>

\* connectStart.  The code takes the connection that was added last.
TakeSpare(g) ==
    LET k == call[g].client
    IN  /\ call[g].pc = "look"
        /\ \E c \in spares[k] :
              IF conn[c].has_timeout
              THEN call' = [call EXCEPT ![g].pc = "again"] /\ UNCHANGED <<conn, spares>>
              ELSE /\ conn' = [conn EXCEPT ![c].connect_start = TRUE]
                   /\ spares' = [spares EXCEPT ![k] = @ \ {c}]
                   /\ call' = [call EXCEPT ![g] = [pc |-> "connect", client |-> k, isc |-> c]]
        /\ UNCHANGED <<entry, endpoint, reading>>

Look(g) == NoEntry(g) \/ NoSpare(g) \/ TakeSpare(g)

Connect(g) ==
    /\ call[g].pc = "connect"
    /\ conn' = [conn EXCEPT ![call[g].isc].done_cond = "live", ![call[g].isc].do_connect = TRUE]
    /\ call' = [call EXCEPT ![g].pc = "wait"]
    /\ UNCHANGED <<spares, entry, endpoint, reading>>

\* slip: the wait has no time limit
EndWaitNotified(g) ==
    LET c == call[g].isc
    IN  /\ call[g].pc = "wait"
        /\ conn[c].is_connected
        /\ conn' = [conn EXCEPT ![c].done_cond = "destroyed"]
        /\ call' = [call EXCEPT ![g].pc = "take"]
        /\ UNCHANGED <<spares, entry, endpoint, reading>>

\* slip: the connector is not told to stop
EndWaitForgets(g) ==
    LET c == call[g].isc
    IN  /\ call[g].pc = "wait"
        /\ IF conn[c].is_connected
           THEN /\ conn' = [conn EXCEPT ![c].done_cond = "destroyed"]
                /\ call' = [call EXCEPT ![g].pc = "take"]
           ELSE /\ conn' = [conn EXCEPT ![c].done_cond = "null"]
                /\ call' = [call EXCEPT ![g].pc = "again", ![g].isc = None]
        /\ UNCHANGED <<spares, entry, endpoint, reading>>

\* Connect after its wait, which ends when it is notified, when its time is over, or for no
\* reason: the condition goes when Connect returns.
EndWait(g) ==
    LET c == call[g].isc
    IN  /\ call[g].pc = "wait"
        /\ IF conn[c].is_connected
           THEN /\ conn' = [conn EXCEPT ![c].done_cond = "destroyed"]
                /\ call' = [call EXCEPT ![g].pc = "take"]
           ELSE /\ conn' = [conn EXCEPT ![c].done_cond = "null", ![c].stop_connecting = TRUE]
                /\ call' = [call EXCEPT ![g].pc = "again", ![g].isc = None]
        /\ UNCHANGED <<spares, entry, endpoint, reading>>

GetISPipe(g) ==
    /\ call[g].pc = "take"
    /\ call' = [call EXCEPT ![g].pc = "free"]
    /\ UNCHANGED <<conn, spares, entry, endpoint, reading>>

FreeConnection(g) ==
    /\ call[g].pc = "free"
    /\ conn' = [conn EXCEPT ![call[g].isc].free_connection = TRUE]
    /\ call' = [call EXCEPT ![g].pc = "have"]
    /\ UNCHANGED <<spares, entry, endpoint, reading>>

\* The time of the call is over, or it is not.
GiveUp(g) ==
    /\ call[g].pc = "again"
    /\ call' = [call EXCEPT ![g] = Idle]
    /\ UNCHANGED <<conn, spares, entry, endpoint, reading>>

Retry(g) ==
    /\ call[g].pc = "again"
    /\ call' = [call EXCEPT ![g].pc = "look"]
    /\ UNCHANGED <<conn, spares, entry, endpoint, reading>>

\* The caller deletes the pipe, and with it what the pipe is made of.
ClosePipe(g) ==
    /\ call[g].pc = "have"
    /\ conn' = [conn EXCEPT ![call[g].isc].pipes = "deleted", ![call[g].isc].socket = "closed"]
    /\ call' = [call EXCEPT ![g] = Idle]
    /\ UNCHANGED <<spares, entry, endpoint, reading>>

-------------------------------------------------------------------------------
\* getOnlineClients drops a client that has had no spare connection for a minute.
EstablishTimeout(k) ==
    /\ entry[k] /\ spares[k] = {}
    /\ entry' = [entry EXCEPT ![k] = FALSE]
    /\ endpoint' = [endpoint EXCEPT ![k] = FALSE]
    /\ UNCHANGED <<conn, spares, call, reading>>

Worker(c) ==
    \/ Authed(c) \/ Connected(c) \/ ReadNothing(c) \/ FrameLost(c)
    \/ SendConnect(c) \/ PingTimeout(c) \/ Leave(c) \/ Destroy(c)

Client(c) ==
    \/ Auth(c) \/ Capa(c) \/ Pong(c) \/ ConnectOk(c) \/ Break(c)
    \/ PartOfFrame(c) \/ RestOfFrame(c)

Returns(g) == Look(g) \/ Connect(g) \/ EndWait(g) \/ GetISPipe(g) \/ FreeConnection(g) \/ Retry(g)

Next ==
    \/ \E c \in Conns : Worker(c) \/ Client(c) \/ Ping(c)
    \/ \E g \in Callers :
          Returns(g) \/ GiveUp(g) \/ ClosePipe(g) \/ (\E k \in Clients : Call(g, k))
    \/ \E k \in Clients : EstablishTimeout(k)

(***************************************************************************)
(* A worker that is not stuck looks at each of its connections before it   *)
(* reads again, and no longer than 10 ms later.  A caller goes on, its     *)
(* wait has a limit, and when it has tried often enough its time is over.  *)
(* Nothing is asked of the client, which may stop in the middle of a       *)
(* frame, or of what owns a pipe.                                          *)
(***************************************************************************)
Fairness ==
    /\ \A c \in Conns : SF_vars(Worker(c))
    /\ \A g \in Callers : WF_vars(Returns(g)) /\ SF_vars(GiveUp(g))

Spec == Init /\ [][Next]_vars /\ Fairness

-------------------------------------------------------------------------------
(***************************************************************************)
(* Every connection that is logged in and has not been taken or lost is in *)
(* the list of its client, and no other is: none is forgotten, and the one *)
(* that getConnection takes never refuses (connectStart), which would make *)
(* it take the same one over and over.  A client with spare connections    *)
(* has an endpoint to report (getOnlineClients), also after its entry was  *)
(* dropped and came back.                                                  *)
(***************************************************************************)
SparesExact ==
    /\ \A k \in Clients, c \in Conns :
          c \in spares[k] <=> /\ conn[c].client = k
                              /\ conn[c].state \in {"listed", "authed"}
                              /\ ~conn[c].connect_start /\ ~conn[c].has_timeout
    /\ \A k \in Clients : spares[k] # {} => endpoint[k] /\ entry[k]

(***************************************************************************)
(* A caller uses a connector only before the worker destroys it, and the   *)
(* worker notifies a condition only before the caller destroys it: the     *)
(* ping timeout and the end of the connection race with connectStart, the  *)
(* answer of the client with the end of the wait.                          *)
(***************************************************************************)
NothingUsedAfterDestroy ==
    /\ \A g \in Callers : call[g].pc \in {"connect", "wait", "take", "free"} =>
          conn[call[g].isc].state # "gone"
    /\ \A c \in Conns : conn[c].state = "used" /\ ~conn[c].is_connected =>
          conn[c].done_cond # "destroyed"

(***************************************************************************)
(* A connection that getConnection returns is one of the client asked for, *)
(* open, whole and no other caller's; what remains of a destroyed          *)
(* connector that no caller has is closed and deleted (closeSocket, the    *)
(* destructor).                                                            *)
(***************************************************************************)
HandedOver ==
    /\ \A g \in Callers : call[g].pc \in {"take", "free", "have"} =>
          /\ conn[call[g].isc].client = call[g].client
          /\ conn[call[g].isc].pipes = "made" /\ conn[call[g].isc].socket = "open"
          /\ \A h \in Callers \ {g} : call[h].isc # call[g].isc
    /\ \A c \in Conns : conn[c].state = "gone" /\ (\A g \in Callers : call[g].isc # c) =>
          conn[c].pipes # "made" /\ conn[c].socket = "closed"

(***************************************************************************)
(* getConnection returns, whatever the clients do: with a pipe, or empty-  *)
(* handed.                                                                 *)
(***************************************************************************)
CallsReturn == \A g \in Callers : call[g].pc # "idle" ~> call[g].pc \in {"idle", "have"}

(***************************************************************************)
(* A connection that a caller has taken, and one that its client has       *)
(* closed, leaves the worker in the end, however the call ended: nothing   *)
(* stays there for ever, unless a client of that worker is silent for ever *)
(* in the middle of a frame.                                               *)
(***************************************************************************)
ToEnd(w) ==
    {c \in Conns : WorkerOf[c] = w /\ conn[c].state # "gone" /\ (conn[c].connect_start \/ conn[c].eof)}

ConnectionsEnd == \A w \in Workers : []<>(ToEnd(w) = {}) \/ <>[](reading[w] # None)
===============================================================================
