---------------------------- MODULE SignalServer ----------------------------
(***************************************************************************)
(* The signal server of signalserver.go with the connections of            *)
(* signalconnection.go.                                                    *)
(*                                                                         *)
(* One goroutine (Run) owns the database and the session maps and selects  *)
(* among unbuffered channels.  Each connection has a reader goroutine,     *)
(* which hands requests and finally the connection itself to the server,   *)
(* and a writer goroutine, which takes responses from the connection's     *)
(* unbuffered ch_send.  A handler runs in one step: nothing else touches   *)
(* its state.  The sends that end a request are steps of their own: each   *)
(* blocks the server until that connection's writer takes it.              *)
(*                                                                         *)
(* What a request asks is chosen when the server receives it; the reader   *)
(* that is blocked with it does not look at it.                            *)
(*                                                                         *)
(* A definition marked "Faulty" is no part of the server: it is what the   *)
(* definition after it would be with a plausible mistake, and is there to  *)
(* see that a property notices the mistake.                                *)
(***************************************************************************)
EXTENDS SignalDatabase, Sequences

CONSTANTS Conns,        \* connection objects; a finished one is used again
          NoConn,       \* "no connection": an id that is not in onlines
          ReLogin,      \* may an online connection log in again?
          PingMayFail   \* may a writer give up because a ping failed?

ASSUME NoConnAssumption == NoConn \notin Conns
ASSUME SwitchAssumption == ReLogin \in BOOLEAN /\ PingMayFail \in BOOLEAN

VARIABLES
  db,           \* SignalDatabase
  connections,  \* connections that are not logged in
  onlines,      \* uid => connection
  connId,       \* SignalConnection.id, never reset while the object lives
  chan,         \* ch_send of a connection: not made, open or closed
  reader,       \* readPump: in ReadMessage, blocked on ch_receive, blocked on
                \* ch_close, or returned
  writer,       \* writePump: in its select, or returned
  sends,        \* what OnReceiveRequest still has to send, in order
  panicked      \* the process died of a send on a closed channel

sessions == <<connections, onlines, connId>>
vars == <<db, sessions, chan, reader, writer, sends, panicked>>

\* A response on its way to conn: an event for user toId, or the reply to a
\* request (toId = Nobody, the model's own field).  No handler sets FromId or
\* ServiceName, so both are always empty.
Message == [conn : Conns, toId : Ids \cup {Nobody},
            event : BOOLEAN, fromId : {""}, serviceName : {""}]

TypeOK ==
  /\ db \in Databases
  /\ connections \subseteq Conns
  /\ onlines \in [Ids -> Conns \cup {NoConn}]
  /\ connId \in [Conns -> Ids \cup {Nobody}]
  /\ chan \in [Conns -> {"none", "open", "closed"}]
  /\ reader \in [Conns -> {"none", "reading", "sending", "closing", "done"}]
  /\ writer \in [Conns -> {"none", "running", "stopped"}]
  /\ sends \in Seq(Message)
  /\ panicked \in BOOLEAN

\* With no storage to load; what a server finds in one is SignalStore's matter.
Init ==
  /\ db = EmptyDatabase
  /\ connections = {}
  /\ onlines = [i \in Ids |-> NoConn]
  /\ connId = [c \in Conns |-> Nobody]
  /\ chan = [c \in Conns |-> "none"]
  /\ reader = [c \in Conns |-> "none"]
  /\ writer = [c \in Conns |-> "none"]
  /\ sends = <<>>
  /\ panicked = FALSE

-----------------------------------------------------------------------------
(* The server's own state. *)

\* Faulty: whoever is registered counts as online.
IsRegistered(i) == i \in db.peers

\* CheckOnline and CheckOnlineConn succeed.  The id is the one the request
\* names; it is not compared with the connection the request came on.
IsOnline(i) == onlines[i] # NoConn /\ i \in db.peers

\* The server is in its select and receives the request c's reader holds.
Receive(c) ==
  /\ sends = <<>>
  /\ reader[c] = "sending"
  /\ reader' = [reader EXCEPT ![c] = "reading"]
  /\ UNCHANGED <<chan, writer, panicked>>

Response(c, i, isEvent) ==
  [conn |-> c, toId |-> i, event |-> isEvent, fromId |-> "", serviceName |-> ""]

Reply(c) == Response(c, Nobody, FALSE)

EventFor(i) == Response(onlines[i], i, TRUE)

Answer(c) == sends' = <<Reply(c)>>

-----------------------------------------------------------------------------
(* Requests.  An action is the handler's successful path.  Every path that *)
(* changes nothing but the reply (bad parameters, a wrong password, an     *)
(* unmet condition, a read-only request) is AnswerOnly.                    *)

AnswerOnly(c) == Receive(c) /\ Answer(c) /\ UNCHANGED <<db, sessions>>

Register(c, i) ==
  /\ Receive(c)
  /\ i \notin db.peers
  /\ db' = AddPeer(db, i)
  /\ Answer(c)
  /\ UNCHANGED sessions

\* The program's client refuses a second login while it believes itself
\* online (SignalClient.Login); ReLogin lifts that: it has lost the reply to
\* the first one, or it is another client.
MayLogin(c) == ReLogin \/ \A i \in Ids : onlines[i] # c

\* Faulty: the connection stays pending.
GoOnlineStillPending(c, i) ==
  /\ connId' = [connId EXCEPT ![c] = i]
  /\ onlines' = [onlines EXCEPT ![i] = c]
  /\ UNCHANGED connections

\* Faulty: the connection is not given its id.
GoOnlineUnnamed(c, i) ==
  /\ connections' = connections \ {c}
  /\ onlines' = [onlines EXCEPT ![i] = c]
  /\ UNCHANGED connId

\* Takes the place of the connection that was online under i, if any, which is
\* then neither pending nor online.
GoOnline(c, i) ==
  /\ connId' = [connId EXCEPT ![c] = i]
  /\ connections' = connections \ {c}
  /\ onlines' = [onlines EXCEPT ![i] = c]

\* Faulty: the id need not be registered.
LoginUnregistered(c, i) ==
  Receive(c) /\ MayLogin(c) /\ GoOnline(c, i) /\ Answer(c) /\ UNCHANGED db

Login(c, i) ==
  /\ Receive(c)
  /\ MayLogin(c)
  /\ i \in db.peers
  /\ GoOnline(c, i)
  /\ Answer(c)
  /\ UNCHANGED db

\* Takes down whatever connection is online under c's id.
Logout(c) ==
  /\ Receive(c)
  /\ c \notin connections
  /\ connId[c] # Nobody
  /\ onlines[connId[c]] # NoConn
  /\ onlines' = [onlines EXCEPT ![connId[c]] = NoConn]
  /\ connections' = connections \cup {c}
  /\ Answer(c)
  /\ UNCHANGED <<db, connId>>

ShowService(c, i, n) ==
  /\ Receive(c)
  /\ IsOnline(i)
  /\ ServiceExists(db, n)
  /\ db' = Refresh(db, n, IsOnline(db.owner[n]))
  /\ Answer(c)
  /\ UNCHANGED sessions

JoinService(c, i, n) ==
  /\ Receive(c)
  /\ IsOnline(i)
  /\ ServiceExists(db, n)
  /\ db.owner[n] # i
  /\ db' = Join(db, i, n)
  /\ Answer(c)
  /\ UNCHANGED sessions

LeaveService(c, i, n) ==
  /\ Receive(c)
  /\ IsOnline(i)
  /\ ServiceExists(db, n)
  /\ db.owner[n] # i
  /\ db' = Leave(db, i, n)
  /\ Answer(c)
  /\ UNCHANGED sessions

\* Faulty: the name may be taken.
CreateServiceOver(c, i, n) ==
  /\ Receive(c)
  /\ IsOnline(i)
  /\ db' = AddService(db, n, i)
  /\ Answer(c)
  /\ UNCHANGED sessions

CreateService(c, i, n) ==
  /\ Receive(c)
  /\ IsOnline(i)
  /\ ~ServiceExists(db, n)
  /\ db' = AddService(db, n, i)
  /\ Answer(c)
  /\ UNCHANGED sessions

RemoveService(c, i, n) ==
  /\ Receive(c)
  /\ IsOnline(i)
  /\ db.owner[n] = i
  /\ db' = RemoveServiceOf(db, n)
  /\ Answer(c)
  /\ UNCHANGED sessions

EnableService(c, i, n, flag) ==
  /\ Receive(c)
  /\ IsOnline(i)
  /\ db.owner[n] = i
  /\ db' = SetEnabled(db, n, flag)
  /\ Answer(c)
  /\ UNCHANGED sessions

\* The owner addresses the client it names; anybody else with an entry for
\* the service, joined or left, addresses the owner.
Recipient(i, n, toId) == IF db.owner[n] = i THEN toId ELSE db.owner[n]

\* An ice-* request: the event goes to the recipient's connection first, and
\* only then is the request answered.
ForwardServiceData(c, i, n, toId) ==
  LET to == Recipient(i, n, toId) IN
  /\ Receive(c)
  /\ IsOnline(i)
  /\ ServiceExists(db, n)
  /\ db.owner[n] = i \/ HasEntry(db, i, n)
  /\ IsOnline(to)
  /\ sends' = <<EventFor(to), Reply(c)>>
  /\ UNCHANGED <<db, sessions>>

\* connect-service and disconnect-service: only a present member's request
\* becomes an ice-open or ice-close event for the owner.
ConnectService(c, i, n) ==
  /\ IsJoined(db, i, n)
  /\ db.owner[n] # i
  /\ ForwardServiceData(c, i, n, db.owner[n])

HandleRequest(c) ==
  \/ AnswerOnly(c)
  \/ Logout(c)
  \/ \E i \in Ids :
       \/ Register(c, i)
       \/ Login(c, i)
       \/ \E n \in Names :
            \/ ShowService(c, i, n)
            \/ JoinService(c, i, n)
            \/ LeaveService(c, i, n)
            \/ CreateService(c, i, n)
            \/ RemoveService(c, i, n)
            \/ \E flag \in BOOLEAN : EnableService(c, i, n, flag)
            \/ \E toId \in Ids : ForwardServiceData(c, i, n, toId)
            \/ ConnectService(c, i, n)

-----------------------------------------------------------------------------
(* Blocking sends, connecting and closing.  The panic leaves what it could  *)
(* not send in sends, so the server does nothing any more; the goroutines   *)
(* of the connections end with the process.                                 *)

\* The writer takes the next response; writing it to the socket, which the
\* write deadline bounds, changes nothing here.
Deliver ==
  /\ sends # <<>>
  /\ chan[Head(sends).conn] = "open"
  /\ writer[Head(sends).conn] = "running"
  /\ sends' = Tail(sends)
  /\ UNCHANGED <<db, sessions, chan, reader, writer, panicked>>

SendPanics ==
  /\ ~panicked
  /\ sends # <<>>
  /\ chan[Head(sends).conn] = "closed"
  /\ panicked' = TRUE
  /\ UNCHANGED <<db, sessions, chan, reader, writer, sends>>

\* serveWs hands a new connection over and starts its two goroutines.
Connect(c) ==
  /\ sends = <<>>
  /\ chan[c] = "none"
  /\ connections' = connections \cup {c}
  /\ chan' = [chan EXCEPT ![c] = "open"]
  /\ reader' = [reader EXCEPT ![c] = "reading"]
  /\ writer' = [writer EXCEPT ![c] = "running"]
  /\ UNCHANGED <<db, onlines, connId, sends, panicked>>

\* Faulty: the closed connection stays online.
NobodyDropped(c) == onlines

\* A closed connection that is not pending takes down whatever is online under
\* its id, as Logout does.
Dropped(c) == IF c \in connections
                THEN onlines
                ELSE [i \in Ids |-> IF i = connId[c] THEN NoConn ELSE onlines[i]]

\* Faulty: another goroutine than the one that sends replies closes c.
CloseMeanwhile(c) ==
  /\ reader[c] = "closing"
  /\ connections' = connections \ {c}
  /\ onlines' = Dropped(c)
  /\ chan' = [chan EXCEPT ![c] = "closed"]
  /\ reader' = [reader EXCEPT ![c] = "done"]
  /\ UNCHANGED <<db, connId, writer, sends, panicked>>

\* Faulty: ch_send is not closed.
CloseNotChannel(c) ==
  /\ sends = <<>>
  /\ reader[c] = "closing"
  /\ connections' = connections \ {c}
  /\ onlines' = Dropped(c)
  /\ reader' = [reader EXCEPT ![c] = "done"]
  /\ UNCHANGED <<db, connId, chan, writer, sends, panicked>>

\* The server receives c from ch_close.
Close(c) ==
  /\ sends = <<>>
  /\ reader[c] = "closing"
  /\ connections' = connections \ {c}
  /\ onlines' = Dropped(c)
  /\ chan' = [chan EXCEPT ![c] = "closed"]
  /\ reader' = [reader EXCEPT ![c] = "done"]
  /\ UNCHANGED <<db, connId, writer, sends, panicked>>

-----------------------------------------------------------------------------
(* The goroutines of a connection. *)

ReadRequest(c) ==
  /\ ~panicked
  /\ reader[c] = "reading"
  /\ reader' = [reader EXCEPT ![c] = "sending"]
  /\ UNCHANGED <<db, sessions, chan, writer, sends, panicked>>

\* Faulty: readPump returns without telling the server.
ReaderReturns(c) ==
  /\ ~panicked
  /\ reader[c] = "reading"
  /\ reader' = [reader EXCEPT ![c] = "done"]
  /\ UNCHANGED <<db, sessions, chan, writer, sends, panicked>>

\* The peer closed, no pong came in time, the frame was too long, or the
\* writer closed the socket.
ReadFails(c) ==
  /\ ~panicked
  /\ reader[c] = "reading"
  /\ reader' = [reader EXCEPT ![c] = "closing"]
  /\ UNCHANGED <<db, sessions, chan, writer, sends, panicked>>

\* writePump returns and closes the socket; nobody receives from ch_send.
PingFails(c) ==
  /\ ~panicked
  /\ PingMayFail
  /\ writer[c] = "running"
  /\ writer' = [writer EXCEPT ![c] = "stopped"]
  /\ UNCHANGED <<db, sessions, chan, reader, sends, panicked>>

\* Faulty: writePump also returns when a response could not be written.
WriterStopsOnError(c) ==
  /\ ~panicked
  /\ writer[c] = "running"
  /\ writer' = [writer EXCEPT ![c] = "stopped"]
  /\ UNCHANGED <<db, sessions, chan, reader, sends, panicked>>

\* The server closed the channel.
WriterStops(c) ==
  /\ ~panicked
  /\ writer[c] = "running"
  /\ chan[c] = "closed"
  /\ writer' = [writer EXCEPT ![c] = "stopped"]
  /\ UNCHANGED <<db, sessions, chan, reader, sends, panicked>>

\* Nothing refers to the finished connection any more.
Forget(c) ==
  /\ ~panicked
  /\ reader[c] = "done"
  /\ writer[c] = "stopped"
  /\ \A i \in Ids : onlines[i] # c
  /\ connId' = [connId EXCEPT ![c] = Nobody]
  /\ chan' = [chan EXCEPT ![c] = "none"]
  /\ reader' = [reader EXCEPT ![c] = "none"]
  /\ writer' = [writer EXCEPT ![c] = "none"]
  /\ UNCHANGED <<db, connections, onlines, sends, panicked>>

Connection(c) ==
  \/ Connect(c) \/ Close(c)
  \/ ReadRequest(c) \/ ReadFails(c)
  \/ PingFails(c) \/ WriterStops(c) \/ Forget(c)

Next == \/ Deliver
        \/ SendPanics
        \/ \E c \in Conns : HandleRequest(c) \/ Connection(c)

Spec == Init /\ [][Next]_vars

\* Go's select picks at random among the ready channels and a channel serves
\* its blocked senders in order, so a connection that waits for the server is
\* received if the server returns to its select again and again.  A writer in
\* its select takes what is ready.
Fairness ==
  /\ WF_vars(Deliver)
  /\ \A c \in Conns : /\ SF_vars(HandleRequest(c))
                      /\ SF_vars(Close(c))
                      /\ WF_vars(WriterStops(c))

FairSpec == Spec /\ Fairness

-----------------------------------------------------------------------------
(* Properties of every behaviour, whatever the clients do. *)

\* However registrations, joins, removals and re-creations follow each other,
\* a membership entry is a registered non-owner's entry for a service that
\* exists, and owners are registered.
DatabaseConsistent == Consistent(db)

\* A connection's ch_send is open exactly while its reader can still hand
\* something to the server.  So close(conn.ch_send) never hits a closed
\* channel, and a pending connection is never one that was closed.
OpenWhileReading ==
  /\ \A c \in Conns :
       (chan[c] = "open") <=> (reader[c] \in {"reading", "sending", "closing"})
  /\ \A c \in connections : chan[c] = "open"

\* The reply to a request finds the channel open, even if the client has gone
\* since: the server sees the request and the closing in that order.
ReplyChannelOpen ==
  \A k \in DOMAIN sends : sends[k].toId = Nobody => chan[sends[k].conn] = "open"

\* errClientNotExist cannot happen in CheckOnline: an online id is registered.
OnlineIsRegistered == \A i \in Ids : onlines[i] # NoConn => i \in db.peers

\* The handlers implement the catalogue.  A stale entry or flag that survives
\* the removal of a service would show in the next service of that name.
CatalogueView ==
  INSTANCE Catalogue WITH
    owner <- db.owner,
    members <- Members(db),
    enabled <- db.enabled

ImplementsCatalogue == CatalogueView!Spec

\* To the storage the server is a process that handles requests: whoever is
\* online, a handler changes the database as SignalStore!Handle, which knows
\* no sessions, lets any registered peer change it.
StoreView ==
  INSTANCE SignalStore WITH
    MaxSize <- 0, file <- [whole |-> FALSE, data |-> EmptyDatabase],
    process <- "running"

ImplementsStore == StoreView!Spec

-----------------------------------------------------------------------------
(* Properties that need clients which do not log in twice (~ReLogin). *)

\* An online connection is not pending, its own id is the one it is online
\* under, and its channel is open.
SessionsConsistent ==
  \A i \in Ids : onlines[i] # NoConn =>
                  /\ onlines[i] \notin connections
                  /\ connId[onlines[i]] = i
                  /\ chan[onlines[i]] = "open"

\* An event for a user is sent on a connection whose user that is.
EventReachesItsUser ==
  \A k \in DOMAIN sends :
    sends[k].toId # Nobody => connId[sends[k].conn] = sends[k].toId

\* No forward hits the channel of a connection that has been closed.
NeverPanics == ~panicked

-----------------------------------------------------------------------------
(* Liveness properties of FairSpec, which need, besides, that no writer    *)
(* gives up (~PingMayFail).                                                *)

\* A reader that holds a request gets rid of it, and the reply is taken.
EveryRequestAnswered ==
  \A c \in Conns :
    /\ (reader[c] = "sending") ~> (reader[c] # "sending")
    /\ (sends # <<>> /\ sends[Len(sends)] = Reply(c)) ~> (sends = <<>>)

\* The goroutines of a connection that has failed both end.
GoroutinesEnd ==
  \A c \in Conns :
    (reader[c] = "closing") ~> (reader[c] = "done" /\ writer[c] = "stopped")

=============================================================================
