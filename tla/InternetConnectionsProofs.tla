---------------------- MODULE InternetConnectionsProofs ----------------------
(***************************************************************************)
(* What holds of the connections over the internet for every number of     *)
(* connections, callers and clients.                                       *)
(***************************************************************************)
EXTENDS InternetConnections, TLAPS

(***************************************************************************)
(* The inductive invariant, in three parts.  The first is about a          *)
(* connector alone: which of its flags can be up together, and in which    *)
(* states.                                                                 *)
(***************************************************************************)
Ordered(r) ==
    /\ r.state \in {"capa", "listed", "authed"} => r.client \in Clients
    /\ r.state \in {"connecting", "used"} => r.connect_start /\ r.client \in Clients
    /\ r.state \in {"auth", "capa"} => ~r.connect_start
    /\ ~r.connect_start => /\ ~r.do_connect /\ ~r.stop_connecting /\ ~r.is_connected
                           /\ ~r.free_connection /\ r.done_cond = "null"
    /\ r.do_connect \/ r.done_cond = "null"
    /\ r.has_timeout => ~r.connect_start /\ r.pipes # "made" /\ r.state # "listed"
    /\ r.is_connected => r.state \in {"used", "leaving"}
    /\ r.done_cond = "destroyed" => r.is_connected
    /\ r.stop_connecting => r.done_cond = "null"
    /\ r.free_connection => r.done_cond = "destroyed"
    /\ r.state = "auth" => r.pipes = "none"
    /\ r.state \in Active \ {"auth"} /\ ~r.has_timeout /\ ~r.free_connection => r.pipes = "made"
    /\ r.state # "gone" /\ ~r.free_connection => r.socket = "open"
    /\ r.state = "leaving" => r.has_timeout \/ r.stop_connecting \/ r.free_connection
    /\ r.state = "leaving" /\ ~r.free_connection => r.pipes # "made"
    /\ r.state = "gone" => ~r.connect_start

Holding == {"connect", "wait", "take", "free", "have"}

\* The second relates a caller that holds a connector, its record m, to the connector.
Holds(m, r) ==
    /\ m.pc \in Holding => r.client = m.client
    /\ m.pc = "connect" => /\ r.connect_start /\ r.state \in {"listed", "authed"}
                           /\ ~r.do_connect /\ ~r.stop_connecting
    /\ m.pc = "wait" => /\ r.connect_start /\ r.state \in {"listed", "authed", "connecting", "used"}
                        /\ r.do_connect /\ ~r.stop_connecting /\ r.done_cond = "live"
    /\ m.pc \in {"take", "free"} => /\ r.connect_start /\ r.state = "used" /\ r.is_connected
                                    /\ ~r.stop_connecting /\ ~r.free_connection
                                    /\ r.done_cond = "destroyed"
    /\ m.pc = "have" => /\ r.pipes = "made" /\ r.socket = "open"
                        /\ \/ r.state = "gone"
                           \/ r.state \in {"used", "leaving"} /\ r.connect_start /\ r.free_connection

\* The third says of a connector that no caller holds how its last caller has left it.
LeftBehind(r) ==
    /\ r.state # "gone" /\ r.connect_start =>
          \/ r.stop_connecting
          \/ r.free_connection /\ r.pipes = "deleted" /\ r.socket = "closed"
    /\ r.state = "gone" => r.pipes # "made" /\ r.socket = "closed"

CallsOK ==
    \A g \in Callers :
        /\ call[g].pc # "idle" => call[g].client \in Clients
        /\ call[g].isc # None <=> call[g].pc \in Holding

Apart == \A g, h \in Callers : g # h /\ call[g].isc # None => call[g].isc # call[h].isc

Related ==
    /\ \A c \in Conns : Ordered(conn[c])
    /\ \A c \in Conns, g \in Callers : call[g].isc = c => Holds(call[g], conn[c])
    /\ \A c \in Conns : (\A g \in Callers : call[g].isc # c) => LeftBehind(conn[c])

Inner ==
    /\ conn \in [Conns -> Connector]
    /\ call \in [Callers -> Attempt]
    /\ CallsOK /\ Apart /\ Related

Lists ==
    /\ spares \in [Clients -> SUBSET Conns]
    /\ entry \in [Clients -> BOOLEAN]
    /\ endpoint \in [Clients -> BOOLEAN]
    /\ SparesExact

IInv == Inner /\ Lists

-------------------------------------------------------------------------------
(***************************************************************************)
(* Connectors.  A step of the worker that keeps a connector in order also  *)
(* leaves it to its caller, or to nobody, as it was.                       *)
(***************************************************************************)
Keeps(r, s) ==
    /\ s \in Connector /\ Ordered(s)
    /\ \A m \in Attempt : Holds(m, r) => Holds(m, s)
    /\ LeftBehind(r) => LeftBehind(s)

\* The connector belongs into the list of client k.
Spare(k, r) ==
    r.client = k /\ r.state \in {"listed", "authed"} /\ ~r.connect_start /\ ~r.has_timeout

SameSpare(r, s) == \A k \in Clients : Spare(k, s) <=> Spare(k, r)

\* ReceivePackets: the client logs in (InternetServiceConnector.cpp:294-466).
LEMMA LoggedIn ==
    ASSUME NEW r \in Connector, Ordered(r), NEW k \in Clients, r.state = "auth", ~r.has_timeout,
           NEW s, s = [r EXCEPT !.state = "capa", !.client = k, !.pipes = "made"]
    PROVE  Keeps(r, s) /\ SameSpare(r, s)
<1>1. s \in Connector /\ Ordered(s)
  BY DEF Connector, Active, Ordered
<1>2. ASSUME NEW m \in Attempt, Holds(m, r) PROVE Holds(m, s)
  BY <1>2 DEF Connector, Active, Ordered, Attempt, Holds, Holding
<1>3. (LeftBehind(r) => LeftBehind(s)) /\ SameSpare(r, s)
  BY DEF Connector, LeftBehind, SameSpare, Spare, Ordered
<1> QED BY <1>1, <1>2, <1>3 DEF Keeps

\* ISS_CAPA puts the connector into the list of its client and of no other.
LEMMA Pushed ==
    ASSUME NEW r \in Connector, Ordered(r), r.state = "capa", ~r.has_timeout,
           NEW s, s = [r EXCEPT !.state = "listed"]
    PROVE  Keeps(r, s) /\ \A k \in Clients : Spare(k, s) <=> k = r.client
<1>1. s \in Connector /\ Ordered(s)
  BY DEF Connector, Active, Ordered
<1>2. ASSUME NEW m \in Attempt, Holds(m, r) PROVE Holds(m, s)
  BY <1>2 DEF Connector, Active, Ordered, Attempt, Holds, Holding
<1>3. (LeftBehind(r) => LeftBehind(s)) /\ \A k \in Clients : Spare(k, s) <=> k = r.client
  BY DEF Connector, LeftBehind, Spare, Ordered
<1> QED BY <1>1, <1>2, <1>3 DEF Keeps

\* The worker goes on: logged in, CONNECT sent, CONNECT_OK received, the caller notified.
LEMMA MovesOn ==
    ASSUME NEW r \in Connector, Ordered(r), NEW s,
           \/ r.state = "listed" /\ s = [r EXCEPT !.state = "authed"]
           \/ r.state = "authed" /\ r.do_connect /\ s = [r EXCEPT !.state = "connecting"]
           \/ r.state = "connecting" /\ s = [r EXCEPT !.state = "used"]
           \/ r.state = "used" /\ s = [r EXCEPT !.is_connected = TRUE]
    PROVE  Keeps(r, s) /\ SameSpare(r, s)
<1>1. s \in Connector /\ Ordered(s)
  <2>1. CASE r.state = "listed" /\ s = [r EXCEPT !.state = "authed"]
    BY <2>1 DEF Connector, Active, Ordered
  <2>2. CASE r.state = "authed" /\ r.do_connect /\ s = [r EXCEPT !.state = "connecting"]
    BY <2>2 DEF Connector, Active, Ordered
  <2>3. CASE r.state = "connecting" /\ s = [r EXCEPT !.state = "used"]
    BY <2>3 DEF Connector, Active, Ordered
  <2>4. CASE r.state = "used" /\ s = [r EXCEPT !.is_connected = TRUE]
    BY <2>4 DEF Connector, Active, Ordered
  <2> QED BY <2>1, <2>2, <2>3, <2>4
<1>2. ASSUME NEW m \in Attempt, Holds(m, r) PROVE Holds(m, s)
  BY <1>2 DEF Connector, Active, Ordered, Attempt, Holds, Holding
<1>3. (LeftBehind(r) => LeftBehind(s)) /\ SameSpare(r, s)
  BY DEF Connector, LeftBehind, SameSpare, Spare, Ordered
<1> QED BY <1>1, <1>2, <1>3 DEF Keeps

\* A ping, its answer and a closed connection concern no caller and no list.
LEMMA Signalled ==
    ASSUME NEW r \in Connector, Ordered(r), NEW b \in BOOLEAN, NEW s,
           s = [r EXCEPT !.pinging = b] \/ s = [r EXCEPT !.eof = b]
    PROVE  Keeps(r, s) /\ SameSpare(r, s)
<1>1. s \in Connector /\ Ordered(s)
  BY DEF Connector, Active, Ordered
<1>2. ASSUME NEW m \in Attempt, Holds(m, r) PROVE Holds(m, s)
  BY <1>2 DEF Connector, Attempt, Holds, Holding
<1>3. (LeftBehind(r) => LeftBehind(s)) /\ SameSpare(r, s)
  BY DEF Connector, LeftBehind, SameSpare, Spare
<1> QED BY <1>1, <1>2, <1>3 DEF Keeps

\* A connection that no caller has taken is lost: it belongs into no list any more.
LEMMA GivenUp ==
    ASSUME NEW r \in Connector, Ordered(r), r.state \in {"auth", "capa", "authed"}, ~r.connect_start,
           NEW s, s = [Cleaned(r) EXCEPT !.has_timeout = TRUE]
    PROVE  Keeps(r, s) /\ \A k \in Clients : ~Spare(k, s)
<1>1. s \in Connector /\ Ordered(s)
  BY DEF Connector, Active, Ordered, Cleaned
<1>2. ASSUME NEW m \in Attempt, Holds(m, r) PROVE Holds(m, s)
  BY <1>2 DEF Connector, Active, Ordered, Attempt, Holds, Holding, Cleaned
<1>3. (LeftBehind(r) => LeftBehind(s)) /\ \A k \in Clients : ~Spare(k, s)
  BY DEF Connector, LeftBehind, Spare, Cleaned
<1> QED BY <1>1, <1>2, <1>3 DEF Keeps

\* Run returns false for a connector that no list has.
LEMMA RunReturnsFalse ==
    ASSUME NEW r \in Connector, Ordered(r), r.state \in Active \ {"listed"}, NEW s,
           \/ r.stop_connecting /\ s = [Cleaned(r) EXCEPT !.state = "leaving"]
           \/ /\ r.has_timeout \/ (r.state = "used" /\ r.free_connection)
              /\ s = [r EXCEPT !.state = "leaving"]
    PROVE  Keeps(r, s) /\ \A k \in Clients : ~Spare(k, s) /\ ~Spare(k, r)
<1>1. s \in Connector /\ Ordered(s)
  <2>1. CASE r.stop_connecting /\ s = [Cleaned(r) EXCEPT !.state = "leaving"]
    BY <2>1 DEF Connector, Active, Ordered, Cleaned
  <2>2. CASE s = [r EXCEPT !.state = "leaving"] /\ (r.has_timeout \/ r.free_connection)
    BY <2>2 DEF Connector, Active, Ordered
  <2> QED BY <2>1, <2>2
<1>2. ASSUME NEW m \in Attempt, Holds(m, r) PROVE Holds(m, s)
  BY <1>2 DEF Connector, Active, Ordered, Attempt, Holds, Holding, Cleaned
<1>3. (LeftBehind(r) => LeftBehind(s)) /\ \A k \in Clients : ~Spare(k, s) /\ ~Spare(k, r)
  BY DEF Connector, LeftBehind, Spare, Cleaned, Ordered
<1> QED BY <1>1, <1>2, <1>3 DEF Keeps

\* The destructor leaves to the caller that has the pipe what the pipe is made of.
LEMMA ConnectorDestroyed ==
    ASSUME NEW r \in Connector, Ordered(r), r.state = "leaving", NEW s,
           s = [Destroyed(r) EXCEPT !.socket = IF r.free_connection THEN r.socket ELSE "closed"]
    PROVE  Keeps(r, s) /\ \A k \in Clients : ~Spare(k, s) /\ ~Spare(k, r)
<1>1. s \in Connector /\ Ordered(s)
  BY DEF Connector, Active, Ordered, Destroyed, Fresh, Cleaned
<1>2. ASSUME NEW m \in Attempt, Holds(m, r) PROVE Holds(m, s)
  BY <1>2 DEF Connector, Active, Ordered, Attempt, Holds, Holding, Destroyed, Fresh, Cleaned
<1>3. LeftBehind(r) => LeftBehind(s)
  BY DEF Connector, Ordered, LeftBehind, Destroyed, Fresh, Cleaned
<1>4. \A k \in Clients : ~Spare(k, s) /\ ~Spare(k, r)
  BY DEF Connector, Spare, Destroyed, Fresh, Cleaned
<1> QED BY <1>1, <1>2, <1>3, <1>4 DEF Keeps

\* getConnection: a spare connection is taken, connected, and given up or taken over
\* (InternetServiceConnector.cpp:556-711).
LEMMA Taken ==
    ASSUME NEW r \in Connector, Ordered(r), NEW k \in Clients, Spare(k, r), NEW c \in Conns,
           NEW s, s = [r EXCEPT !.connect_start = TRUE],
           NEW m, m = [pc |-> "connect", client |-> k, isc |-> c]
    PROVE  /\ m \in Attempt /\ s \in Connector /\ Ordered(s) /\ Holds(m, s)
           /\ \A l \in Clients : ~Spare(l, s)
<1>1. s \in Connector /\ Ordered(s)
  BY DEF Connector, Active, Ordered, Spare
<1>2. m \in Attempt /\ Holds(m, s)
  BY DEF Connector, Ordered, Spare, Attempt, Holds, Holding
<1>3. \A l \in Clients : ~Spare(l, s)
  BY DEF Connector, Spare
<1> QED BY <1>1, <1>2, <1>3

\* Connect asks the worker for a connection and waits.
LEMMA Connects ==
    ASSUME NEW r \in Connector, Ordered(r), NEW m \in Attempt, m.pc = "connect", Holds(m, r),
           NEW s, s = [r EXCEPT !.done_cond = "live", !.do_connect = TRUE],
           NEW n, n = [m EXCEPT !.pc = "wait"]
    PROVE  s \in Connector /\ Ordered(s) /\ Holds(n, s) /\ \A l \in Clients : ~Spare(l, s) /\ ~Spare(l, r)
<1>1. s \in Connector /\ Ordered(s)
  BY DEF Connector, Active, Ordered, Holds
<1>2. Holds(n, s)
  BY DEF Connector, Attempt, Holds, Holding
<1>3. \A l \in Clients : ~Spare(l, s) /\ ~Spare(l, r)
  BY DEF Connector, Spare, Holds
<1> QED BY <1>1, <1>2, <1>3

\* The wait of Connect has found the client connected.
LEMMA WaitSucceeds ==
    ASSUME NEW r \in Connector, Ordered(r), NEW m \in Attempt, m.pc = "wait", Holds(m, r), r.is_connected,
           NEW s, s = [r EXCEPT !.done_cond = "destroyed"],
           NEW n, n = [m EXCEPT !.pc = "take"]
    PROVE  s \in Connector /\ Ordered(s) /\ Holds(n, s) /\ \A l \in Clients : ~Spare(l, s) /\ ~Spare(l, r)
<1>1. s \in Connector /\ Ordered(s)
  BY DEF Connector, Active, Ordered, Holds
<1>2. Holds(n, s)
  BY DEF Connector, Attempt, Holds, Holding, Ordered
<1>3. \A l \in Clients : ~Spare(l, s) /\ ~Spare(l, r)
  BY DEF Connector, Spare, Holds
<1> QED BY <1>1, <1>2, <1>3

\* The wait of Connect has failed: the connector is left to its worker, told to stop.
LEMMA WaitFails ==
    ASSUME NEW r \in Connector, Ordered(r), NEW m \in Attempt, m.pc = "wait", Holds(m, r), ~r.is_connected,
           NEW s, s = [r EXCEPT !.done_cond = "null", !.stop_connecting = TRUE]
    PROVE  s \in Connector /\ Ordered(s) /\ LeftBehind(s) /\ \A l \in Clients : ~Spare(l, s) /\ ~Spare(l, r)
<1>1. s \in Connector /\ Ordered(s)
  BY DEF Connector, Active, Ordered, Holds
<1>2. LeftBehind(s)
  BY DEF Connector, Holds, LeftBehind
<1>3. \A l \in Clients : ~Spare(l, s) /\ ~Spare(l, r)
  BY DEF Connector, Spare, Holds
<1> QED BY <1>1, <1>2, <1>3

\* freeConnection is the last that the caller does to a connector it keeps the pipe of.
LEMMA Freed ==
    ASSUME NEW r \in Connector, Ordered(r), NEW m \in Attempt, m.pc = "free", Holds(m, r),
           NEW s, s = [r EXCEPT !.free_connection = TRUE],
           NEW n, n = [m EXCEPT !.pc = "have"]
    PROVE  s \in Connector /\ Ordered(s) /\ Holds(n, s) /\ \A l \in Clients : ~Spare(l, s) /\ ~Spare(l, r)
<1>1. s \in Connector /\ Ordered(s)
  BY DEF Connector, Active, Ordered, Holds
<1>2. Holds(n, s)
  BY DEF Connector, Active, Attempt, Holds, Holding, Ordered
<1>3. \A l \in Clients : ~Spare(l, s) /\ ~Spare(l, r)
  BY DEF Connector, Spare, Holds
<1> QED BY <1>1, <1>2, <1>3

\* Nothing is left to clean up when the caller has deleted the pipe.
LEMMA PipeClosed ==
    ASSUME NEW r \in Connector, Ordered(r), NEW m \in Attempt, m.pc = "have", Holds(m, r),
           NEW s, s = [r EXCEPT !.pipes = "deleted", !.socket = "closed"]
    PROVE  s \in Connector /\ Ordered(s) /\ LeftBehind(s) /\ \A l \in Clients : ~Spare(l, s) /\ ~Spare(l, r)
<1>1. s \in Connector /\ Ordered(s)
  BY DEF Connector, Active, Ordered, Holds
<1>2. LeftBehind(s)
  BY DEF Connector, Holds, LeftBehind
<1>3. \A l \in Clients : ~Spare(l, s) /\ ~Spare(l, r)
  BY DEF Connector, Spare, Holds
<1> QED BY <1>1, <1>2, <1>3

-------------------------------------------------------------------------------
(***************************************************************************)
(* The whole state.  A step of the worker changes one connector: it is     *)
(* enough that the connector keeps what it owes its caller.                *)
(***************************************************************************)
LEMMA AtConnector ==
    ASSUME Inner, NEW c \in Conns, NEW s, Keeps(conn[c], s),
           conn' = [conn EXCEPT ![c] = s], UNCHANGED call
    PROVE  Inner'
<1>1. conn' \in [Conns -> Connector] /\ call' \in [Callers -> Attempt]
  BY DEF Inner, Keeps
<1>2. CallsOK' /\ Apart'
  BY DEF Inner, CallsOK, Apart
<1>3. conn'[c] = s /\ \A d \in Conns \ {c} : conn'[d] = conn[d]
  BY DEF Inner
<1>4. \A d \in Conns : Ordered(conn'[d])
  BY <1>3 DEF Inner, Related, Keeps
<1>5. \A d \in Conns, g \in Callers : call[g].isc = d => Holds(call[g], conn'[d])
  BY <1>3 DEF Inner, Related, Keeps
<1>6. \A d \in Conns : (\A g \in Callers : call[g].isc # d) => LeftBehind(conn'[d])
  BY <1>3 DEF Inner, Related, Keeps
<1>7. Related'
  BY <1>4, <1>5, <1>6 DEF Related
<1> QED BY <1>1, <1>2, <1>7 DEF Inner

(***************************************************************************)
(* A step of a caller changes what it is doing, and the connector it       *)
(* holds, takes or leaves.                                                 *)
(***************************************************************************)
CallerMoves(g, m, c, s) ==
    /\ m \in Attempt /\ call' = [call EXCEPT ![g] = m]
    /\ m.pc # "idle" => m.client \in Clients
    /\ m.isc # None <=> m.pc \in Holding
    /\ s \in Connector /\ conn' = [conn EXCEPT ![c] = s]
    /\ call[g].isc \in {None, c} /\ m.isc \in {None, c}
    /\ \A h \in Callers \ {g} : call[h].isc # c
    /\ Ordered(s)
    /\ m.isc = c => Holds(m, s)
    /\ m.isc # c => LeftBehind(s)

\* Such a step keeps callers and connectors related.
LEMMA AtCaller ==
    ASSUME Inner, NEW g \in Callers, NEW m, NEW c \in Conns, NEW s, CallerMoves(g, m, c, s)
    PROVE  Inner'
<1> USE ConnectionsAssumption
<1>1. conn' \in [Conns -> Connector] /\ call' \in [Callers -> Attempt]
  BY DEF CallerMoves, Inner
<1>2. conn'[c] = s /\ \A d \in Conns \ {c} : conn'[d] = conn[d]
  BY DEF CallerMoves, Inner
<1>3. call'[g] = m /\ \A h \in Callers \ {g} : call'[h] = call[h]
  BY DEF CallerMoves, Inner
<1>4. CallsOK'
  BY <1>3 DEF CallerMoves, Inner, CallsOK
<1>5. Apart'
  BY <1>3 DEF CallerMoves, Inner, Apart
<1>6. \A d \in Conns : Ordered(conn'[d])
  BY <1>2 DEF CallerMoves, Inner, Related
<1>7. \A d \in Conns, h \in Callers : call'[h].isc = d => Holds(call'[h], conn'[d])
  BY <1>2, <1>3 DEF CallerMoves, Inner, Related
<1>8. \A d \in Conns : (\A h \in Callers : call'[h].isc # d) => LeftBehind(conn'[d])
  BY <1>2, <1>3 DEF CallerMoves, Inner, Related
<1>9. Related'
  BY <1>6, <1>7, <1>8 DEF Related
<1> QED BY <1>1, <1>4, <1>5, <1>9 DEF Inner

\* As the lemma says, of a caller that holds no connector before the step and after it.
LEMMA AtFreeCaller ==
    ASSUME Inner,
           NEW g \in Callers, NEW m \in Attempt, call' = [call EXCEPT ![g] = m], UNCHANGED conn,
           m.pc # "idle" => m.client \in Clients,
           call[g].isc = None, m.isc = None, m.pc \notin Holding
    PROVE  Inner'
<1> USE ConnectionsAssumption
<1>1. call' \in [Callers -> Attempt]
  BY DEF Inner
<1>2. call'[g] = m /\ \A h \in Callers \ {g} : call'[h] = call[h]
  BY DEF Inner
<1>3. CallsOK'
  BY <1>2 DEF Inner, CallsOK
<1>4. Apart'
  BY <1>2 DEF Inner, Apart
<1>5. \A d \in Conns : Ordered(conn'[d])
  BY DEF Inner, Related
<1>6. \A d \in Conns, h \in Callers : call'[h].isc = d => Holds(call'[h], conn'[d])
  BY <1>2 DEF Inner, Related
<1>7. \A d \in Conns : (\A h \in Callers : call'[h].isc # d) => LeftBehind(conn'[d])
  BY <1>2 DEF Inner, Related
<1>8. Related'
  BY <1>5, <1>6, <1>7 DEF Related
<1> QED BY <1>1, <1>3, <1>4, <1>8 DEF Inner

\* The lists follow the one connector that changes.
ListsFollow(c, s) ==
    /\ conn' = [conn EXCEPT ![c] = s]
    /\ spares' \in [Clients -> SUBSET Conns]
    /\ entry' \in [Clients -> BOOLEAN] /\ endpoint' \in [Clients -> BOOLEAN]
    /\ \A k \in Clients : \A d \in Conns \ {c} : d \in spares'[k] <=> d \in spares[k]
    /\ \A k \in Clients : c \in spares'[k] <=> Spare(k, s)
    /\ \A k \in Clients : spares'[k] # {} => endpoint'[k] /\ entry'[k]

\* The lists stay exact when they follow the connector.
LEMMA AtLists ==
    ASSUME Inner, Lists, NEW c \in Conns, NEW s, ListsFollow(c, s)
    PROVE  Lists'
<1>1. conn'[c] = s /\ \A d \in Conns \ {c} : conn'[d] = conn[d]
  BY DEF ListsFollow, Inner
<1>2. ASSUME NEW k \in Clients, NEW d \in Conns PROVE d \in spares'[k] <=> Spare(k, conn'[d])
  <2>1. CASE d = c
    BY <1>1, <2>1 DEF ListsFollow
  <2>2. CASE d # c
    <3>1. d \in spares'[k] <=> d \in spares[k]
      BY <2>2 DEF ListsFollow
    <3>2. d \in spares[k] <=> Spare(k, conn[d])
      BY DEF Lists, SparesExact, Spare
    <3> QED BY <1>1, <2>2, <3>1, <3>2
  <2> QED BY <2>1, <2>2
<1>3. \A k \in Clients : spares'[k] # {} => endpoint'[k] /\ entry'[k]
  BY DEF ListsFollow
<1>4. SparesExact'
  BY <1>2, <1>3 DEF SparesExact, Spare
<1> QED BY <1>4 DEF ListsFollow, Lists

\* Most steps of the worker change no list.
LEMMA AtUnlisted ==
    ASSUME IInv, NEW c \in Conns, NEW s, Keeps(conn[c], s), SameSpare(conn[c], s),
           conn' = [conn EXCEPT ![c] = s], UNCHANGED <<spares, endpoint, call>>,
           entry' \in [Clients -> BOOLEAN], \A k \in Clients : entry[k] => entry'[k]
    PROVE  IInv'
<1>1. Inner'
  BY AtConnector DEF IInv
<1>2. \A k \in Clients : c \in spares[k] <=> Spare(k, s)
  BY DEF IInv, Lists, SparesExact, SameSpare, Spare
<1>3. \A k \in Clients : spares'[k] # {} => endpoint'[k] /\ entry'[k]
  BY DEF IInv, Lists, SparesExact
<1>4. ListsFollow(c, s)
  BY <1>2, <1>3 DEF ListsFollow, IInv, Lists
<1>5. Lists'
  BY <1>4, AtLists DEF IInv
<1> QED BY <1>1, <1>5 DEF IInv

\* What every step of a connection begins with
LEMMA Connection ==
    ASSUME IInv, NEW c \in Conns
    PROVE  conn[c] \in Connector /\ Ordered(conn[c])
BY DEF IInv, Inner, Related

\* While a frame is read, or has been, everything else stays as it is.
LEMMA FrameStep ==
    ASSUME IInv, UNCHANGED <<conn, spares, entry, endpoint, call>>
    PROVE  IInv'
<1>1. Inner'
  BY DEF IInv, Inner, CallsOK, Apart, Related
<1>2. Lists'
  BY DEF IInv, Lists, SparesExact
<1> QED BY <1>1, <1>2 DEF IInv

\* A step of the worker keeps the invariant.
LEMMA WorkerStep ==
    ASSUME IInv, NEW c \in Conns, Worker(c)
    PROVE  IInv'
<1> DEFINE r == conn[c]
<1>1. r \in Connector /\ Ordered(r)
  BY Connection
<1>2. conn \in [Conns -> Connector] /\ Inner /\ Lists
  BY DEF IInv, Inner
<1>3. CASE Authed(c) \/ Connected(c) \/ SendConnect(c)
  <2>1. PICK s \in {[r EXCEPT !.state = "authed"], [r EXCEPT !.is_connected = TRUE],
                    [r EXCEPT !.state = "connecting"]} :
          /\ conn' = [conn EXCEPT ![c] = s]
          /\ \/ r.state = "listed" /\ s = [r EXCEPT !.state = "authed"]
             \/ r.state = "authed" /\ r.do_connect /\ s = [r EXCEPT !.state = "connecting"]
             \/ r.state = "used" /\ s = [r EXCEPT !.is_connected = TRUE]
    BY <1>2, <1>3 DEF Authed, Connected, SendConnect
  <2>2. Keeps(r, s) /\ SameSpare(r, s)
    BY <1>1, <2>1, MovesOn
  <2>3. UNCHANGED <<spares, entry, endpoint, call>>
    BY <1>3 DEF Authed, Connected, SendConnect
  <2> QED BY <1>2, <2>1, <2>2, <2>3, AtUnlisted DEF Lists
<1>4. CASE ReadNothing(c) \/ PingTimeout(c)
  <2> DEFINE s == [Cleaned(r) EXCEPT !.has_timeout = TRUE]
  <2>1. /\ r.state \in {"auth", "capa", "authed"} /\ ~r.connect_start
        /\ conn' = [conn EXCEPT ![c] = s] /\ spares' = WithoutSpare(c)
        /\ UNCHANGED <<entry, endpoint, call>>
    BY <1>4 DEF ReadNothing, PingTimeout, TimesOut
  <2>2. Keeps(r, s) /\ \A k \in Clients : ~Spare(k, s)
    BY <1>1, <2>1, GivenUp
  <2>3. Inner'
    BY <1>2, <2>1, <2>2, AtConnector
  <2>4. /\ \A k \in Clients : \A d \in Conns \ {c} : d \in spares'[k] <=> d \in spares[k]
        /\ \A k \in Clients : c \notin spares'[k]
        /\ \A k \in Clients : spares'[k] \subseteq spares[k]
    BY <1>2, <2>1 DEF WithoutSpare, Lists, SparesExact
  <2>5. spares' \in [Clients -> SUBSET Conns]
    BY <1>2, <2>1 DEF WithoutSpare, Lists
  <2>6. \A k \in Clients : spares'[k] # {} => endpoint'[k] /\ entry'[k]
    BY <1>2, <2>1, <2>4 DEF Lists, SparesExact
  <2> HIDE DEF s
  <2>7. ListsFollow(c, s)
    BY <1>2, <2>1, <2>2, <2>4, <2>5, <2>6 DEF ListsFollow, Lists
  <2>8. Lists'
    BY <1>2, <2>7, AtLists
  <2> QED BY <2>3, <2>8 DEF IInv
<1>5. CASE Leave(c)
  <2>1. r.state \in Active \ {"listed"} /\ UNCHANGED <<spares, entry, endpoint, call>>
    BY <1>5 DEF Leave
  <2>2. CASE r.stop_connecting
    <3> DEFINE s == [Cleaned(r) EXCEPT !.state = "leaving"]
    <3>1. conn' = [conn EXCEPT ![c] = s]
      BY <1>5, <2>2 DEF Leave
    <3>2. Keeps(r, s) /\ SameSpare(r, s)
      BY <1>1, <2>1, <2>2, RunReturnsFalse DEF SameSpare
    <3> QED BY <1>2, <2>1, <3>1, <3>2, AtUnlisted DEF Lists
  <2>3. CASE ~r.stop_connecting
    <3> DEFINE s == [r EXCEPT !.state = "leaving"]
    <3>1. r.has_timeout \/ (r.state = "used" /\ r.free_connection)
      BY <1>5, <2>3 DEF Leave
    <3>2. conn' = [conn EXCEPT ![c] = s]
      BY <1>5, <2>3 DEF Leave
    <3>3. Keeps(r, s) /\ SameSpare(r, s)
      BY <1>1, <2>1, <3>1, RunReturnsFalse DEF SameSpare
    <3> QED BY <1>2, <2>1, <3>2, <3>3, AtUnlisted DEF Lists
  <2> QED BY <2>2, <2>3
<1>6. CASE Destroy(c)
  <2> DEFINE s == [Destroyed(r) EXCEPT !.socket = IF r.free_connection THEN r.socket ELSE "closed"]
  <2>1. r.state = "leaving" /\ conn' = [conn EXCEPT ![c] = s] /\ UNCHANGED <<entry, endpoint, call>>
    BY <1>6 DEF Destroy
  <2>2. Keeps(r, s) /\ \A k \in Clients : ~Spare(k, s) /\ ~Spare(k, r)
    BY <1>1, <2>1, ConnectorDestroyed
  <2>3. spares' = spares
    <3>1. \A k \in Clients : c \notin spares[k]
      BY <1>2, <2>2 DEF Lists, SparesExact, Spare
    <3> QED BY <1>2, <1>6, <3>1 DEF Destroy, WithoutSpare, Lists
  <2> QED BY <1>2, <2>1, <2>2, <2>3, AtUnlisted DEF SameSpare, Lists
<1>7. CASE FrameLost(c)
  BY <1>7, FrameStep DEF FrameLost
<1> QED BY <1>3, <1>4, <1>5, <1>6, <1>7 DEF Worker

\* What the client sends keeps the invariant, and so does a ping.
LEMMA ClientStep ==
    ASSUME IInv, NEW c \in Conns, Client(c) \/ Ping(c)
    PROVE  IInv'
<1> DEFINE r == conn[c]
<1>1. r \in Connector /\ Ordered(r)
  BY Connection
<1>2. conn \in [Conns -> Connector] /\ Inner /\ Lists
  BY DEF IInv, Inner
<1>3. CASE Auth(c)
  <2>1. PICK k \in Clients :
          conn' = [conn EXCEPT ![c].state = "capa", ![c].client = k, ![c].pipes = "made"]
    BY <1>3 DEF Auth
  <2> DEFINE s == [r EXCEPT !.state = "capa", !.client = k, !.pipes = "made"]
  <2>2. conn' = [conn EXCEPT ![c] = s]
    BY <1>2, <2>1
  <2>3. r.state = "auth" /\ ~r.has_timeout /\ UNCHANGED <<spares, entry, endpoint, call>>
    BY <1>3 DEF Auth, Reads
  <2>4. Keeps(r, s) /\ SameSpare(r, s)
    BY <1>1, <2>3, LoggedIn
  <2> QED BY <1>2, <2>2, <2>3, <2>4, AtUnlisted DEF Lists
<1>4. CASE Capa(c)
  <2> DEFINE s == [r EXCEPT !.state = "listed"]
             k == r.client
  <2>1. r.state = "capa" /\ ~r.has_timeout /\ conn' = [conn EXCEPT ![c] = s] /\ UNCHANGED call
    BY <1>4 DEF Capa, Reads
  <2>2. k \in Clients
    BY <1>1, <2>1 DEF Ordered
  <2>3. /\ spares' = [spares EXCEPT ![k] = @ \cup {c}]
        /\ entry' = [entry EXCEPT ![k] = TRUE] /\ endpoint' = [endpoint EXCEPT ![k] = TRUE]
    BY <1>4 DEF Capa
  <2>4. Keeps(r, s) /\ \A l \in Clients : Spare(l, s) <=> l = k
    BY <1>1, <2>1, Pushed
  <2>5. Inner'
    BY <1>2, <2>1, <2>4, AtConnector
  <2>6. \A l \in Clients : c \notin spares[l]
    BY <1>2, <2>1 DEF Lists, SparesExact
  <2>7. /\ spares' \in [Clients -> SUBSET Conns]
        /\ entry' \in [Clients -> BOOLEAN] /\ endpoint' \in [Clients -> BOOLEAN]
        /\ \A l \in Clients : \A d \in Conns \ {c} : d \in spares'[l] <=> d \in spares[l]
        /\ \A l \in Clients : c \in spares'[l] <=> l = k
        /\ \A l \in Clients : spares'[l] # {} => endpoint'[l] /\ entry'[l]
    BY <1>2, <2>2, <2>3, <2>6 DEF Lists, SparesExact
  <2>8. \A l \in Clients : c \in spares'[l] <=> Spare(l, s)
    BY <2>4, <2>7
  <2> HIDE DEF s
  <2>9. ListsFollow(c, s)
    BY <2>1, <2>7, <2>8 DEF ListsFollow
  <2>10. Lists'
    BY <1>2, <2>9, AtLists
  <2> QED BY <2>5, <2>10 DEF IInv
<1>5. CASE Pong(c) \/ Ping(c)
  <2>1. PICK b \in BOOLEAN : conn' = [conn EXCEPT ![c] = [r EXCEPT !.pinging = b]]
    BY <1>5 DEF Pong, Ping
  <2> DEFINE s == [r EXCEPT !.pinging = b]
  <2>2. Keeps(r, s) /\ SameSpare(r, s)
    BY <1>1, Signalled
  <2>3. UNCHANGED <<spares, endpoint, call>>
    BY <1>5 DEF Pong, Ping
  <2>4. entry' \in [Clients -> BOOLEAN] /\ \A k \in Clients : entry[k] => entry'[k]
    BY <1>2, <1>5 DEF Pong, Ping, Lists
  <2> QED BY <2>1, <2>2, <2>3, <2>4, AtUnlisted
<1>6. CASE Break(c)
  <2> DEFINE s == [r EXCEPT !.eof = TRUE]
  <2>1. conn' = [conn EXCEPT ![c] = s] /\ UNCHANGED <<spares, entry, endpoint, call>>
    BY <1>6 DEF Break
  <2>2. Keeps(r, s) /\ SameSpare(r, s)
    BY <1>1, Signalled
  <2> QED BY <1>2, <2>1, <2>2, AtUnlisted DEF Lists
<1>7. CASE ConnectOk(c)
  <2> DEFINE s == [r EXCEPT !.state = "used"]
  <2>1. /\ r.state = "connecting" /\ conn' = [conn EXCEPT ![c] = s]
        /\ UNCHANGED <<spares, endpoint, call>>
    BY <1>7 DEF ConnectOk, Reads
  <2>2. Keeps(r, s) /\ SameSpare(r, s)
    BY <1>1, <2>1, MovesOn
  <2>3. entry' \in [Clients -> BOOLEAN] /\ \A k \in Clients : entry[k] => entry'[k]
    BY <1>2, <1>7 DEF ConnectOk, Lists
  <2> QED BY <2>1, <2>2, <2>3, AtUnlisted
<1>8. CASE PartOfFrame(c) \/ RestOfFrame(c)
  BY <1>8, FrameStep DEF PartOfFrame, RestOfFrame
<1> QED BY <1>3, <1>4, <1>5, <1>6, <1>7, <1>8 DEF Client

\* A caller that goes on with nothing in its hands
LEMMA FreeCallerStep ==
    ASSUME IInv, NEW g \in Callers,
           \/ NoEntry(g) \/ NoSpare(g) \/ GiveUp(g) \/ Retry(g)
           \/ \E k \in Clients : Call(g, k)
    PROVE  IInv'
<1> DEFINE q == call[g]
<1>1. q \in Attempt /\ Inner /\ Lists /\ call \in [Callers -> Attempt]
  BY DEF IInv, Inner
<1>2. q.isc = None /\ q.pc \in {"idle", "look", "again"} /\ UNCHANGED <<conn, spares, entry, endpoint>>
  BY <1>1 DEF NoEntry, NoSpare, GiveUp, Retry, Call, Inner, CallsOK, Holding
<1>3. Lists'
  BY <1>1, <1>2 DEF Lists, SparesExact
<1>4. q.pc # "idle" => q.client \in Clients
  BY DEF IInv, Inner, CallsOK
<1>5. CASE NoEntry(g) \/ GiveUp(g)
  <2>1. call' = [call EXCEPT ![g] = Idle]
    BY <1>5 DEF NoEntry, GiveUp
  <2>2. Idle \in Attempt /\ Idle.isc = None /\ Idle.pc = "idle" /\ Idle.pc \notin Holding
    BY DEF Idle, Attempt, Holding
  <2> QED BY <1>1, <1>2, <1>3, <2>1, <2>2, AtFreeCaller DEF IInv
<1>6. CASE NoSpare(g)
  <2> DEFINE m == [q EXCEPT !.pc = "again"]
  <2>1. call' = [call EXCEPT ![g] = m] /\ q.pc = "look"
    BY <1>6 DEF NoSpare
  <2>2. m \in Attempt /\ m.isc = None /\ m.client \in Clients /\ m.pc \notin Holding
    BY <1>1, <1>2, <1>4, <2>1 DEF Attempt, Holding
  <2> QED BY <1>1, <1>2, <1>3, <2>1, <2>2, AtFreeCaller DEF IInv
<1>7. CASE Retry(g)
  <2> DEFINE m == [q EXCEPT !.pc = "look"]
  <2>1. call' = [call EXCEPT ![g] = m] /\ q.pc = "again"
    BY <1>7 DEF Retry
  <2>2. m \in Attempt /\ m.isc = None /\ m.client \in Clients /\ m.pc \notin Holding
    BY <1>1, <1>2, <1>4, <2>1 DEF Attempt, Holding
  <2> QED BY <1>1, <1>2, <1>3, <2>1, <2>2, AtFreeCaller DEF IInv
<1>8. ASSUME NEW k \in Clients, Call(g, k) PROVE IInv'
  <2> DEFINE m == [pc |-> "look", client |-> k, isc |-> None]
  <2>1. call' = [call EXCEPT ![g] = m]
    BY <1>8 DEF Call
  <2>2. m \in Attempt /\ m.isc = None /\ m.client \in Clients /\ m.pc \notin Holding
    BY DEF Attempt, Holding
  <2> QED BY <1>1, <1>2, <1>3, <2>1, <2>2, AtFreeCaller DEF IInv
<1> QED BY <1>5, <1>6, <1>7, <1>8

\* connectStart: the connector goes from the list to its caller.
LEMMA TakeStep ==
    ASSUME IInv, NEW g \in Callers, TakeSpare(g)
    PROVE  IInv'
<1> USE ConnectionsAssumption
<1> DEFINE q == call[g]
           k == call[g].client
<1>1. q \in Attempt /\ Inner /\ Lists /\ call \in [Callers -> Attempt] /\ conn \in [Conns -> Connector]
  BY DEF IInv, Inner
<1>2. q.pc = "look" /\ q.isc = None /\ k \in Clients /\ UNCHANGED <<entry, endpoint>>
  BY <1>1 DEF TakeSpare, Inner, CallsOK, Holding
<1>3. PICK c \in spares[k] :
        IF conn[c].has_timeout
        THEN call' = [call EXCEPT ![g].pc = "again"] /\ UNCHANGED <<conn, spares>>
        ELSE /\ conn' = [conn EXCEPT ![c].connect_start = TRUE]
             /\ spares' = [spares EXCEPT ![k] = @ \ {c}]
             /\ call' = [call EXCEPT ![g] = [pc |-> "connect", client |-> k, isc |-> c]]
  BY DEF TakeSpare
<1>4. c \in Conns
  BY <1>1, <1>2 DEF Lists
<1> DEFINE r == conn[c]
           s == [r EXCEPT !.connect_start = TRUE]
           m == [pc |-> "connect", client |-> k, isc |-> c]
<1>5. r \in Connector /\ Ordered(r) /\ Spare(k, r)
  BY <1>1, <1>2, <1>4, Connection DEF Lists, SparesExact, Spare
<1>6. /\ conn' = [conn EXCEPT ![c] = s] /\ spares' = [spares EXCEPT ![k] = @ \ {c}]
      /\ call' = [call EXCEPT ![g] = m]
  BY <1>3, <1>5 DEF Spare
<1>7. m \in Attempt /\ s \in Connector /\ Ordered(s) /\ Holds(m, s) /\ \A l \in Clients : ~Spare(l, s)
  BY <1>2, <1>4, <1>5, Taken
<1>8. \A h \in Callers : call[h].isc # c
  <2> SUFFICES ASSUME NEW h \in Callers, call[h].isc = c PROVE FALSE
    OBVIOUS
  <2>1. Holds(call[h], r) /\ call[h].pc \in Holding
    BY <1>1, <1>4 DEF Inner, Related, CallsOK
  <2> QED BY <1>5, <2>1 DEF Holds, Holding, Spare, Ordered
<1>9. m.pc \in Holding /\ m.isc = c /\ m.isc # None /\ m.client \in Clients
  BY <1>2, <1>4 DEF Holding
<1> HIDE DEF s, m
<1>10. CallerMoves(g, m, c, s)
  BY <1>2, <1>6, <1>7, <1>8, <1>9 DEF CallerMoves
<1>11. /\ spares' \in [Clients -> SUBSET Conns]
       /\ entry' \in [Clients -> BOOLEAN] /\ endpoint' \in [Clients -> BOOLEAN]
       /\ \A l \in Clients : \A d \in Conns \ {c} : d \in spares'[l] <=> d \in spares[l]
       /\ \A l \in Clients : spares'[l] # {} => endpoint'[l] /\ entry'[l]
  BY <1>1, <1>2, <1>6 DEF Lists, SparesExact
<1>12. \A l \in Clients : c \notin spares'[l]
  BY <1>1, <1>2, <1>4, <1>5, <1>6 DEF Lists, SparesExact, Spare
<1>13. \A l \in Clients : c \in spares'[l] <=> Spare(l, s)
  BY <1>7, <1>12
<1>14. ListsFollow(c, s)
  BY <1>6, <1>11, <1>13 DEF ListsFollow
<1> QED BY <1>1, <1>4, <1>10, <1>14, AtCaller, AtLists DEF IInv

\* A caller with a connector in its hands
LEMMA HolderStep ==
    ASSUME IInv, NEW g \in Callers,
           Connect(g) \/ EndWait(g) \/ GetISPipe(g) \/ FreeConnection(g) \/ ClosePipe(g)
    PROVE  IInv'
<1> USE ConnectionsAssumption
<1> DEFINE q == call[g]
<1>1. q \in Attempt /\ Inner /\ Lists /\ call \in [Callers -> Attempt] /\ conn \in [Conns -> Connector]
  BY DEF IInv, Inner
<1>2. PICK c \in Conns : c = q.isc
  BY <1>1 DEF Connect, EndWait, GetISPipe, FreeConnection, ClosePipe, Inner, CallsOK, Holding, Attempt
<1> DEFINE r == conn[c]
<1>held. c # None /\ q.pc \in Holding /\ q.client \in Clients /\ UNCHANGED <<spares, entry, endpoint>>
  BY <1>1 DEF Connect, EndWait, GetISPipe, FreeConnection, ClosePipe, Inner, CallsOK, Holding
<1>3. r \in Connector /\ Ordered(r) /\ Holds(q, r)
  BY <1>1, <1>2, <1>held, Connection DEF Inner, Related
<1>4. \A h \in Callers \ {g} : call[h].isc # c
  BY <1>1, <1>2 DEF Inner, Apart
\* Whatever becomes of the connector, it was in no list and gets into none.
<1>5. ASSUME NEW s, conn' = [conn EXCEPT ![c] = s],
             \A l \in Clients : ~Spare(l, s) /\ ~Spare(l, r)
      PROVE  Lists'
  <2>1. \A l \in Clients : c \notin spares[l]
    BY <1>1, <1>2, <1>held, <1>5 DEF Lists, SparesExact, Spare
  <2>2. ListsFollow(c, s)
    BY <1>1, <1>held, <1>5, <2>1 DEF ListsFollow, Lists, SparesExact
  <2> QED BY <1>1, <2>2, AtLists
<1>6. CASE Connect(g)
  <2> DEFINE s == [r EXCEPT !.done_cond = "live", !.do_connect = TRUE]
             n == [q EXCEPT !.pc = "wait"]
  <2>1. q.pc = "connect" /\ conn' = [conn EXCEPT ![c] = s] /\ call' = [call EXCEPT ![g] = n]
    BY <1>1, <1>2, <1>held, <1>6 DEF Connect
  <2>2. s \in Connector /\ Ordered(s) /\ Holds(n, s) /\ \A l \in Clients : ~Spare(l, s) /\ ~Spare(l, r)
    BY <1>1, <1>3, <2>1, Connects
  <2>3. n \in Attempt /\ n.isc = c /\ n.pc \in Holding /\ n.client \in Clients
    BY <1>1, <1>2, <1>held DEF Attempt, Holding
  <2> HIDE DEF s, n
  <2>4. CallerMoves(g, n, c, s)
    BY <1>2, <1>held, <1>4, <2>1, <2>2, <2>3 DEF CallerMoves
  <2> QED BY <1>1, <1>5, <2>1, <2>2, <2>4, AtCaller DEF IInv
<1>7. CASE EndWait(g) /\ r.is_connected
  <2> DEFINE s == [r EXCEPT !.done_cond = "destroyed"]
             n == [q EXCEPT !.pc = "take"]
  <2>1. q.pc = "wait" /\ conn' = [conn EXCEPT ![c] = s] /\ call' = [call EXCEPT ![g] = n]
    BY <1>1, <1>2, <1>held, <1>7 DEF EndWait
  <2>2. s \in Connector /\ Ordered(s) /\ Holds(n, s) /\ \A l \in Clients : ~Spare(l, s) /\ ~Spare(l, r)
    BY <1>1, <1>3, <1>7, <2>1, WaitSucceeds
  <2>3. n \in Attempt /\ n.isc = c /\ n.pc \in Holding /\ n.client \in Clients
    BY <1>1, <1>2, <1>held DEF Attempt, Holding
  <2> HIDE DEF s, n
  <2>4. CallerMoves(g, n, c, s)
    BY <1>2, <1>held, <1>4, <2>1, <2>2, <2>3 DEF CallerMoves
  <2> QED BY <1>1, <1>5, <2>1, <2>2, <2>4, AtCaller DEF IInv
<1>8. CASE EndWait(g) /\ ~r.is_connected
  <2> DEFINE s == [r EXCEPT !.done_cond = "null", !.stop_connecting = TRUE]
             n == [q EXCEPT !.pc = "again", !.isc = None]
  <2>1. q.pc = "wait" /\ conn' = [conn EXCEPT ![c] = s] /\ call' = [call EXCEPT ![g] = n]
    BY <1>1, <1>2, <1>held, <1>8 DEF EndWait
  <2>2. s \in Connector /\ Ordered(s) /\ LeftBehind(s) /\ \A l \in Clients : ~Spare(l, s) /\ ~Spare(l, r)
    BY <1>1, <1>3, <1>8, <2>1, WaitFails
  <2>3. n \in Attempt /\ n.isc = None /\ n.pc \notin Holding /\ n.client \in Clients
    BY <1>1, <1>2, <1>held DEF Attempt, Holding
  <2> HIDE DEF s, n
  <2>4. CallerMoves(g, n, c, s)
    BY <1>2, <1>held, <1>4, <2>1, <2>2, <2>3 DEF CallerMoves
  <2> QED BY <1>1, <1>5, <2>1, <2>2, <2>4, AtCaller DEF IInv
<1>9. CASE GetISPipe(g)
  <2> DEFINE n == [q EXCEPT !.pc = "free"]
  <2>1. q.pc = "take" /\ conn' = [conn EXCEPT ![c] = r] /\ call' = [call EXCEPT ![g] = n]
    BY <1>1, <1>2, <1>held, <1>9 DEF GetISPipe
  <2>2. n \in Attempt /\ n.isc = c /\ n.pc \in Holding /\ n.client \in Clients /\ Holds(n, r)
    BY <1>1, <1>2, <1>held, <1>3, <2>1 DEF Attempt, Holding, Holds
  <2>3. \A l \in Clients : ~Spare(l, r)
    BY <1>3, <2>1 DEF Holds, Spare
  <2> HIDE DEF n
  <2>4. CallerMoves(g, n, c, r)
    BY <1>2, <1>held, <1>3, <1>4, <2>1, <2>2 DEF CallerMoves
  <2> QED BY <1>1, <1>5, <2>1, <2>3, <2>4, AtCaller DEF IInv
<1>10. CASE FreeConnection(g)
  <2> DEFINE s == [r EXCEPT !.free_connection = TRUE]
             n == [q EXCEPT !.pc = "have"]
  <2>1. q.pc = "free" /\ conn' = [conn EXCEPT ![c] = s] /\ call' = [call EXCEPT ![g] = n]
    BY <1>1, <1>2, <1>held, <1>10 DEF FreeConnection
  <2>2. s \in Connector /\ Ordered(s) /\ Holds(n, s) /\ \A l \in Clients : ~Spare(l, s) /\ ~Spare(l, r)
    BY <1>1, <1>3, <2>1, Freed
  <2>3. n \in Attempt /\ n.isc = c /\ n.pc \in Holding /\ n.client \in Clients
    BY <1>1, <1>2, <1>held DEF Attempt, Holding
  <2> HIDE DEF s, n
  <2>4. CallerMoves(g, n, c, s)
    BY <1>2, <1>held, <1>4, <2>1, <2>2, <2>3 DEF CallerMoves
  <2> QED BY <1>1, <1>5, <2>1, <2>2, <2>4, AtCaller DEF IInv
<1>11. CASE ClosePipe(g)
  <2> DEFINE s == [r EXCEPT !.pipes = "deleted", !.socket = "closed"]
  <2>1. q.pc = "have" /\ conn' = [conn EXCEPT ![c] = s] /\ call' = [call EXCEPT ![g] = Idle]
    BY <1>1, <1>2, <1>held, <1>11 DEF ClosePipe
  <2>2. s \in Connector /\ Ordered(s) /\ LeftBehind(s) /\ \A l \in Clients : ~Spare(l, s) /\ ~Spare(l, r)
    BY <1>1, <1>3, <2>1, PipeClosed
  <2>3. Idle \in Attempt /\ Idle.isc = None /\ Idle.pc \notin Holding /\ Idle.pc = "idle"
    BY DEF Idle, Attempt, Holding
  <2> HIDE DEF s
  <2>4. CallerMoves(g, Idle, c, s)
    BY <1>2, <1>held, <1>4, <2>1, <2>2, <2>3 DEF CallerMoves
  <2> QED BY <1>1, <1>5, <2>1, <2>2, <2>4, AtCaller DEF IInv
<1> QED BY <1>6, <1>7, <1>8, <1>9, <1>10, <1>11

\* getOnlineClients: a client without spare connections is dropped.
LEMMA EstablishTimeoutStep ==
    ASSUME IInv, NEW k \in Clients, EstablishTimeout(k)
    PROVE  IInv'
<1>1. Inner'
  BY DEF IInv, EstablishTimeout, Inner, CallsOK, Apart, Related
<1>2. entry' \in [Clients -> BOOLEAN] /\ endpoint' \in [Clients -> BOOLEAN]
  BY DEF IInv, EstablishTimeout, Lists
<1>3. \A l \in Clients : spares[l] # {} => endpoint'[l] /\ entry'[l]
  BY DEF IInv, EstablishTimeout, Lists, SparesExact
<1>4. SparesExact'
  BY <1>3 DEF IInv, EstablishTimeout, Lists, SparesExact
<1> QED BY <1>1, <1>2, <1>4 DEF IInv, EstablishTimeout, Lists

\* A step of the specification keeps the invariant, and so does one that changes nothing.
LEMMA StepInvariant ==
    ASSUME IInv, [Next]_vars
    PROVE  IInv'
<1>1. CASE \E c \in Conns : Worker(c) \/ Client(c) \/ Ping(c)
  BY <1>1, WorkerStep, ClientStep
<1>2. CASE \E g \in Callers :
              Returns(g) \/ GiveUp(g) \/ ClosePipe(g) \/ (\E k \in Clients : Call(g, k))
  BY <1>2, FreeCallerStep, TakeStep, HolderStep DEF Returns, Look
<1>3. CASE \E k \in Clients : EstablishTimeout(k)
  BY <1>3, EstablishTimeoutStep
<1>4. CASE UNCHANGED vars
  BY <1>4 DEF vars, IInv, Inner, CallsOK, Apart, Related, Lists, SparesExact
<1> QED BY <1>1, <1>2, <1>3, <1>4 DEF Next

\* No caller has a connector, no client is known, and every connector is as its Init leaves it.
LEMMA InitInvariant ==
    ASSUME Init
    PROVE  IInv
<1>1. conn \in [Conns -> Connector] /\ call \in [Callers -> Attempt]
  BY DEF Init, Fresh, Idle, Connector, Active, Attempt
<1>2. CallsOK /\ Apart
  BY DEF Init, Idle, CallsOK, Apart, Holding
<1>3. Related
  <2>1. \A c \in Conns : conn[c] = Fresh
    BY DEF Init
  <2>2. Ordered(Fresh) /\ LeftBehind(Fresh)
    BY DEF Fresh, Ordered, LeftBehind, Active
  <2>3. \A c \in Conns, g \in Callers : call[g].isc # c
    BY ConnectionsAssumption DEF Init, Idle
  <2> QED BY <2>1, <2>2, <2>3 DEF Related
<1>4. Lists
  BY DEF Init, Fresh, Lists, SparesExact
<1> QED BY <1>1, <1>2, <1>3, <1>4 DEF IInv, Inner

\* The invariant holds in every state the server reaches.
LEMMA Invariant == Spec => []IInv
<1>1. Init => IInv
  BY InitInvariant
<1>2. IInv /\ [Next]_vars => IInv'
  BY StepInvariant
<1> QED BY <1>1, <1>2, PTL DEF Spec

-------------------------------------------------------------------------------
\* A worker waits for the rest of a frame of a connection, or of none.
Waiting == reading \in [Workers -> Conns \cup {None}]

LEMMA ReadingTyped == Spec => []Waiting
<1>1. Init => Waiting
  BY DEF Init, Waiting
<1>2. ASSUME Waiting, [Next]_vars
      PROVE  Waiting'
  <2>1. CASE UNCHANGED reading
    BY <1>2, <2>1 DEF Waiting
  <2>2. ASSUME NEW c \in Conns, PartOfFrame(c) \/ RestOfFrame(c) \/ FrameLost(c)
        PROVE  Waiting'
    BY <1>2, <2>2 DEF PartOfFrame, RestOfFrame, FrameLost, Waiting
  <2>3. ASSUME NEW c \in Conns, Worker(c) \/ Client(c) \/ Ping(c)
        PROVE  Waiting'
    <3>1. CASE PartOfFrame(c) \/ RestOfFrame(c) \/ FrameLost(c)
      BY <2>2, <3>1
    <3>2. CASE ~(PartOfFrame(c) \/ RestOfFrame(c) \/ FrameLost(c))
      BY <2>1, <2>3, <3>2
         DEF Worker, Client, Authed, Connected, ReadNothing, TimesOut, SendConnect, PingTimeout,
             Leave, Destroy, Auth, Capa, Pong, ConnectOk, Break, Ping
    <3> QED BY <3>1, <3>2
  <2>4. ASSUME NEW g \in Callers, \/ Returns(g) \/ GiveUp(g) \/ ClosePipe(g)
                                 \/ \E k \in Clients : Call(g, k)
        PROVE  Waiting'
    BY <2>1, <2>4
       DEF Returns, Look, NoEntry, NoSpare, TakeSpare, Connect, EndWait, GetISPipe,
           FreeConnection, Retry, GiveUp, ClosePipe, Call
  <2>5. ASSUME NEW k \in Clients, EstablishTimeout(k)
        PROVE  Waiting'
    BY <2>1, <2>5 DEF EstablishTimeout
  <2>6. CASE UNCHANGED vars
    BY <2>1, <2>6 DEF vars
  <2> QED BY <1>2, <2>3, <2>4, <2>5, <2>6 DEF Next
<1> QED BY <1>1, <1>2, PTL DEF Spec

(***************************************************************************)
(* Every flag, list and record keeps its type, whatever the interleaving   *)
(* of workers and callers.                                                 *)
(***************************************************************************)
THEOREM TypeCorrect == Spec => []TypeOK
<1>1. IInv /\ Waiting => TypeOK
  BY DEF IInv, Inner, Lists, Waiting, TypeOK
<1> QED BY <1>1, Invariant, ReadingTyped, PTL

(***************************************************************************)
(* The lists of spare connections hold exactly the connections that are    *)
(* logged in, not taken and not lost (ReceivePackets, getConnection, the   *)
(* ping timeout and the destructor change them).                           *)
(***************************************************************************)
THEOREM SparesAlwaysExact == Spec => []SparesExact
<1>1. IInv => SparesExact
  BY DEF IInv, Lists
<1> QED BY <1>1, Invariant, PTL

(***************************************************************************)
(* No caller of getConnection uses a connector that the worker has         *)
(* destroyed, and no worker a condition that its caller has destroyed.     *)
(***************************************************************************)
THEOREM NothingEverUsedAfterDestroy == Spec => []NothingUsedAfterDestroy
<1>1. ASSUME IInv PROVE NothingUsedAfterDestroy
  <2>1. ASSUME NEW g \in Callers, call[g].pc \in {"connect", "wait", "take", "free"}
        PROVE  conn[call[g].isc].state # "gone"
    <3>1. call[g].isc \in Conns
      BY <1>1, <2>1 DEF IInv, Inner, CallsOK, Holding, Attempt
    <3>2. Holds(call[g], conn[call[g].isc])
      BY <1>1, <3>1 DEF IInv, Inner, Related
    <3> QED BY <2>1, <3>2 DEF Holds
  <2>2. ASSUME NEW c \in Conns, conn[c].state = "used", ~conn[c].is_connected
        PROVE  conn[c].done_cond # "destroyed"
    BY <1>1, <2>2, Connection DEF Ordered
  <2> QED BY <2>1, <2>2 DEF NothingUsedAfterDestroy
<1> QED BY <1>1, Invariant, PTL

(***************************************************************************)
(* getConnection hands every connection to one caller, whole and open, and *)
(* what remains of a connector without a caller is cleaned up.             *)
(***************************************************************************)
THEOREM AlwaysHandedOver == Spec => []HandedOver
<1>1. ASSUME IInv PROVE HandedOver
  <2>1. ASSUME NEW g \in Callers, call[g].pc \in {"take", "free", "have"}
        PROVE  /\ conn[call[g].isc].client = call[g].client
               /\ conn[call[g].isc].pipes = "made" /\ conn[call[g].isc].socket = "open"
               /\ \A h \in Callers \ {g} : call[h].isc # call[g].isc
    <3>1. call[g].isc \in Conns /\ call[g].isc # None
      BY <1>1, <2>1 DEF IInv, Inner, CallsOK, Holding, Attempt
    <3>2. Holds(call[g], conn[call[g].isc]) /\ Ordered(conn[call[g].isc])
      BY <1>1, <3>1 DEF IInv, Inner, Related
    <3>3. conn[call[g].isc].client = call[g].client
      BY <2>1, <3>2 DEF Holds, Holding
    <3>4. conn[call[g].isc].pipes = "made" /\ conn[call[g].isc].socket = "open"
      BY <2>1, <3>2 DEF Holds, Ordered, Active
    <3>5. \A h \in Callers \ {g} : call[h].isc # call[g].isc
      BY <1>1, <3>1 DEF IInv, Inner, Apart
    <3> QED BY <3>3, <3>4, <3>5
  <2>2. ASSUME NEW c \in Conns, conn[c].state = "gone", \A g \in Callers : call[g].isc # c
        PROVE  conn[c].pipes # "made" /\ conn[c].socket = "closed"
    BY <1>1, <2>2 DEF IInv, Inner, Related, LeftBehind
  <2> QED BY <2>1, <2>2 DEF HandedOver
<1> QED BY <1>1, Invariant, PTL
===============================================================================
