------------------------- MODULE SignalServerProofs -------------------------
(***************************************************************************)
(* Theorems about SignalServer for any number of users, connections and    *)
(* services.                                                               *)
(***************************************************************************)
EXTENDS SignalServer, SignalDatabaseProofs, Integers

-----------------------------------------------------------------------------
(* What a request handler does to each part of the state.                  *)

\* A handler that is given a database leaves one, keeps it consistent, and
\* forgets no peer.
LEMMA RequestDatabase ==
  ASSUME TypeOK, NEW c \in Conns, HandleRequest(c)
  PROVE  /\ db' \in Databases
         /\ Consistent(db) => Consistent(db')
         /\ db.peers \subseteq db'.peers
<1> DEFINE Goal == /\ db' \in Databases
                   /\ Consistent(db) => Consistent(db')
                   /\ db.peers \subseteq db'.peers
<1>1. db \in Databases
  BY DEF TypeOK
<1>2. CASE db' = db
  BY <1>1, <1>2
<1>3. ASSUME NEW i \in Ids, Register(c, i)
      PROVE  Goal
  <2>1. db' = AddPeer(db, i)
    BY <1>3 DEF Register
  <2>2. db.peers \subseteq db'.peers
    BY <1>1, <2>1 DEF AddPeer, Databases
  <2>3. QED
    BY <1>1, <2>1, <2>2, AddPeerKeeps
<1>4. ASSUME NEW i \in Ids, NEW n \in Names, ShowService(c, i, n)
      PROVE  Goal
  <2>1. db' = Refresh(db, n, IsOnline(db.owner[n])) /\ IsOnline(db.owner[n]) \in BOOLEAN
    BY <1>4 DEF ShowService, IsOnline
  <2>2. db.peers \subseteq db'.peers
    BY <1>1, <2>1 DEF Refresh, Databases
  <2>3. QED
    BY <1>1, <2>1, <2>2, RefreshKeeps
<1>5. ASSUME NEW i \in Ids, NEW n \in Names, JoinService(c, i, n)
      PROVE  Goal
  <2>1. db' = Join(db, i, n) /\ i \in db.peers /\ ServiceExists(db, n) /\ db.owner[n] # i
    BY <1>5 DEF JoinService, IsOnline
  <2>2. db.peers \subseteq db'.peers
    BY <1>1, <2>1 DEF Join, Databases
  <2>3. QED
    BY <1>1, <2>1, <2>2, JoinKeeps
<1>6. ASSUME NEW i \in Ids, NEW n \in Names, LeaveService(c, i, n)
      PROVE  Goal
  <2>1. db' = Leave(db, i, n)
    BY <1>6 DEF LeaveService
  <2>2. db.peers \subseteq db'.peers
    BY <1>1, <2>1 DEF Leave, Databases
  <2>3. QED
    BY <1>1, <2>1, <2>2, LeaveKeeps
<1>7. ASSUME NEW i \in Ids, NEW n \in Names, CreateService(c, i, n)
      PROVE  Goal
  <2>1. db' = AddService(db, n, i) /\ i \in db.peers /\ ~ServiceExists(db, n)
    BY <1>7 DEF CreateService, IsOnline
  <2>2. db.peers \subseteq db'.peers
    BY <1>1, <2>1 DEF AddService, Databases
  <2>3. QED
    BY <1>1, <2>1, <2>2, AddServiceKeeps
<1>8. ASSUME NEW i \in Ids, NEW n \in Names, RemoveService(c, i, n)
      PROVE  Goal
  <2>1. db' = RemoveServiceOf(db, n)
    BY <1>8 DEF RemoveService
  <2>2. db.peers \subseteq db'.peers
    BY <1>1, <2>1 DEF RemoveServiceOf, Databases
  <2>3. QED
    BY <1>1, <2>1, <2>2, RemoveServiceKeeps
<1>9. ASSUME NEW i \in Ids, NEW n \in Names, NEW flag \in BOOLEAN,
             EnableService(c, i, n, flag)
      PROVE  Goal
  <2>1. db' = SetEnabled(db, n, flag)
    BY <1>9 DEF EnableService
  <2>2. db.peers \subseteq db'.peers
    BY <1>1, <2>1 DEF SetEnabled, Databases
  <2>3. QED
    BY <1>1, <2>1, <2>2, SetEnabledKeeps
<1>10. \/ db' = db
       \/ \E i \in Ids : Register(c, i)
       \/ \E i \in Ids, n \in Names :
            \/ ShowService(c, i, n) \/ JoinService(c, i, n) \/ LeaveService(c, i, n)
            \/ CreateService(c, i, n) \/ RemoveService(c, i, n)
            \/ \E flag \in BOOLEAN : EnableService(c, i, n, flag)
  BY DEF HandleRequest, AnswerOnly, Logout, Login, ForwardServiceData, ConnectService
<1>11. QED
  BY <1>2, <1>3, <1>4, <1>5, <1>6, <1>7, <1>8, <1>9, <1>10

\* Only Login and Logout move sessions.
LEMMA RequestSessions ==
  ASSUME NEW c \in Conns, HandleRequest(c)
  PROVE  UNCHANGED sessions \/ Logout(c) \/ \E i \in Ids : Login(c, i)
BY DEF HandleRequest, AnswerOnly, Register, ShowService, JoinService, LeaveService,
       CreateService, RemoveService, EnableService, ForwardServiceData, ConnectService

\* A handler takes its request off the reader and leaves one reply to send,
\* after at most one event, which is for an online user.
LEMMA RequestSends ==
  ASSUME TypeOK, NEW c \in Conns, HandleRequest(c)
  PROVE  /\ Receive(c)
         /\ \/ sends' = <<Reply(c)>>
            \/ /\ UNCHANGED <<db, sessions>>
               /\ \E to \in Ids :
                    /\ IsOnline(to)
                    /\ sends' = <<EventFor(to), Reply(c)>>
<1>1. ASSUME NEW i \in Ids, NEW n \in Names, NEW toId \in Ids,
             ForwardServiceData(c, i, n, toId)
      PROVE  \E to \in Ids :
               /\ IsOnline(to)
               /\ sends' = <<EventFor(to), Reply(c)>>
  <2>1. Recipient(i, n, toId) \in Ids
    BY <1>1 DEF TypeOK, Databases, ForwardServiceData, ServiceExists, Recipient
  <2>2. QED
    BY <1>1, <2>1 DEF ForwardServiceData
<1>2. ASSUME NEW i \in Ids, NEW n \in Names, ConnectService(c, i, n)
      PROVE  \E toId \in Ids : ForwardServiceData(c, i, n, toId)
  BY <1>2 DEF ConnectService, ForwardServiceData, TypeOK, Databases, ServiceExists
<1>3. QED
  BY <1>1, <1>2
     DEF HandleRequest, AnswerOnly, Register, Login, Logout, ShowService, JoinService,
         LeaveService, CreateService, RemoveService, EnableService, ForwardServiceData,
         Answer

\* Where a response goes, and for whom.
LEMMA ResponseIsFor ==
  ASSUME NEW c, NEW i
  PROVE  /\ Reply(c).conn = c /\ Reply(c).toId = Nobody
         /\ EventFor(i).conn = onlines[i] /\ EventFor(i).toId = i
  BY DEF Reply, EventFor, Response

-----------------------------------------------------------------------------
(* Type correctness. *)

LEMMA InitTyped == Init => TypeOK
<1> SUFFICES ASSUME Init PROVE TypeOK
  OBVIOUS
<1>1. db \in Databases
  BY EmptyIsConsistent DEF Init
<1>2. sends \in Seq(Message)
  BY DEF Init
<1>3. /\ onlines \in [Ids -> Conns \cup {NoConn}]
      /\ connId \in [Conns -> Ids \cup {Nobody}]
  BY DEF Init
<1>4. QED
  BY <1>1, <1>2, <1>3 DEF Init, TypeOK

LEMMA RequestTyped ==
  ASSUME TypeOK, NEW c \in Conns, HandleRequest(c)
  PROVE  TypeOK'
<1>1. db' \in Databases
  BY RequestDatabase
<1>2. /\ connections' \subseteq Conns
      /\ onlines' \in [Ids -> Conns \cup {NoConn}]
      /\ connId' \in [Conns -> Ids \cup {Nobody}]
  <2>1. CASE UNCHANGED sessions
    BY <2>1 DEF sessions, TypeOK
  <2>2. CASE Logout(c)
    BY <2>2 DEF Logout, TypeOK
  <2>3. ASSUME NEW i \in Ids, Login(c, i)
        PROVE  <1>2!1 /\ <1>2!2 /\ <1>2!3
    BY <2>3 DEF Login, GoOnline, TypeOK
  <2>4. QED
    BY <2>1, <2>2, <2>3, RequestSessions
<1>3. Receive(c)
  BY RequestSends
<1>4. /\ chan' \in [Conns -> {"none", "open", "closed"}]
      /\ reader' \in [Conns -> {"none", "reading", "sending", "closing", "done"}]
      /\ writer' \in [Conns -> {"none", "running", "stopped"}]
      /\ panicked' \in BOOLEAN
  BY <1>3 DEF Receive, TypeOK
<1>5. sends' \in Seq(Message)
  <2>1. Reply(c) \in Message
    BY DEF Reply, Response, Message
  <2>2. ASSUME NEW to \in Ids, IsOnline(to)
        PROVE  EventFor(to) \in Message
    BY <2>2 DEF IsOnline, TypeOK, EventFor, Response, Message
  <2>3. CASE sends' = <<Reply(c)>>
    BY <2>1, <2>3
  <2>4. ASSUME NEW m \in Message, sends' = <<m, Reply(c)>>
        PROVE  sends' \in Seq(Message)
    BY <2>1, <2>4
  <2>5. QED
    BY <2>2, <2>3, <2>4, RequestSends
<1>6. QED
  BY <1>1, <1>2, <1>4, <1>5 DEF TypeOK

LEMMA ConnectionTyped ==
  ASSUME TypeOK, NEW c \in Conns, Connection(c)
  PROVE  TypeOK'
<1>1. CASE Connect(c)
  BY <1>1 DEF Connect, TypeOK
<1>2. CASE Close(c)
  BY <1>2 DEF Close, Dropped, TypeOK
<1>3. CASE ReadRequest(c)
  BY <1>3 DEF ReadRequest, TypeOK, sessions
<1>4. CASE ReadFails(c)
  BY <1>4 DEF ReadFails, TypeOK, sessions
<1>5. CASE PingFails(c)
  BY <1>5 DEF PingFails, TypeOK, sessions
<1>6. CASE WriterStops(c)
  BY <1>6 DEF WriterStops, TypeOK, sessions
<1>7. CASE Forget(c)
  BY <1>7 DEF Forget, TypeOK
<1>8. QED
  BY <1>1, <1>2, <1>3, <1>4, <1>5, <1>6, <1>7 DEF Connection

\* Every step of the server and of its connections keeps every variable in its
\* type: the maps, the databases, and the queue of what is still to send.
THEOREM TypeCorrect == Spec => []TypeOK
<1>1. ASSUME TypeOK, [Next]_vars
      PROVE  TypeOK'
  <2>1. CASE UNCHANGED vars
    BY <1>1, <2>1 DEF TypeOK, vars, sessions
  <2>2. CASE Deliver
    BY <1>1, <2>2 DEF Deliver, TypeOK, sessions
  <2>3. CASE SendPanics
    BY <1>1, <2>3 DEF SendPanics, TypeOK, sessions
  <2>4. ASSUME NEW c \in Conns, HandleRequest(c) \/ Connection(c)
        PROVE  TypeOK'
    BY <1>1, <2>4, RequestTyped, ConnectionTyped
  <2>5. QED
    BY <1>1, <2>1, <2>2, <2>3, <2>4 DEF Next
<1>2. QED
  BY <1>1, InitTyped, PTL DEF Spec

-----------------------------------------------------------------------------
(* The database. *)

\* DatabaseConsistent is inductive: each handler's checks are what its update
\* needs to keep the database consistent, and nothing else touches it.
THEOREM DatabaseStaysConsistent == Spec => []DatabaseConsistent
<1>1. Init => DatabaseConsistent
  BY EmptyIsConsistent DEF Init, DatabaseConsistent
<1>2. ASSUME TypeOK, DatabaseConsistent, [Next]_vars
      PROVE  DatabaseConsistent'
  <2>1. CASE db' = db
    BY <1>2, <2>1 DEF DatabaseConsistent
  <2>2. ASSUME NEW c \in Conns, HandleRequest(c)
        PROVE  DatabaseConsistent'
    BY <1>2, <2>2, RequestDatabase DEF DatabaseConsistent
  <2>3. ASSUME NEW c \in Conns, Connection(c)
        PROVE  db' = db
    BY <2>3 DEF Connection, Connect, Close, ReadRequest, ReadFails, PingFails,
                WriterStops, Forget
  <2>4. QED
    BY <1>2, <2>1, <2>2, <2>3 DEF Next, Deliver, SendPanics, vars
<1>3. QED
  BY <1>1, <1>2, TypeCorrect, PTL DEF Spec

\* A user that is online is registered: Login checks it and no handler forgets
\* a peer.  So CheckOnline never answers errClientNotExist.
THEOREM OnlineStaysRegistered == Spec => []OnlineIsRegistered
<1>1. Init => OnlineIsRegistered
  BY DEF Init, OnlineIsRegistered
<1>2. ASSUME TypeOK, OnlineIsRegistered, [Next]_vars
      PROVE  OnlineIsRegistered'
  <2>1. CASE db' = db /\ onlines' = onlines
    BY <1>2, <2>1 DEF OnlineIsRegistered
  <2>2. ASSUME NEW c \in Conns, HandleRequest(c)
        PROVE  OnlineIsRegistered'
    <3>1. db.peers \subseteq db'.peers
      BY <1>2, <2>2, RequestDatabase
    <3>2. CASE UNCHANGED sessions
      BY <1>2, <3>1, <3>2 DEF OnlineIsRegistered, sessions
    <3>3. CASE Logout(c)
      BY <1>2, <3>1, <3>3 DEF OnlineIsRegistered, Logout, TypeOK
    <3>4. ASSUME NEW i \in Ids, Login(c, i)
          PROVE  OnlineIsRegistered'
      BY <1>2, <3>1, <3>4 DEF OnlineIsRegistered, Login, GoOnline, TypeOK
    <3>5. QED
      BY <2>2, <3>2, <3>3, <3>4, RequestSessions
  <2>3. ASSUME NEW c \in Conns, Connection(c)
        PROVE  OnlineIsRegistered'
    BY <1>2, <2>3
       DEF OnlineIsRegistered, TypeOK, Connection, Connect, Close, Dropped, ReadRequest,
           ReadFails, PingFails, WriterStops, Forget, sessions
  <2>4. QED
    BY <1>2, <2>1, <2>2, <2>3 DEF Next, Deliver, SendPanics, vars, sessions
<1>3. QED
  BY <1>1, <1>2, TypeCorrect, PTL DEF Spec

-----------------------------------------------------------------------------
(* Channels. *)

\* The reply of a request: each needs the other.  ReplyChannelOpen carries the
\* reader's request over to the send; OpenWhileReading says that the channel
\* was open when the request came.
ChannelInv == OpenWhileReading /\ ReplyChannelOpen

LEMMA RequestChannels ==
  ASSUME TypeOK, ChannelInv, NEW c \in Conns, HandleRequest(c)
  PROVE  ChannelInv'
<1>1. Receive(c)
  BY RequestSends
<1>2. chan[c] = "open" /\ UNCHANGED chan
  BY <1>1 DEF Receive, ChannelInv, OpenWhileReading
<1>3. \A d \in Conns : (chan'[d] = "open") <=>
                        (reader'[d] \in {"reading", "sending", "closing"})
  BY <1>1, <1>2 DEF Receive, TypeOK, ChannelInv, OpenWhileReading
<1>4. connections' \subseteq connections \cup {c}
  BY RequestSessions DEF sessions, Login, GoOnline, Logout
<1>5. OpenWhileReading'
  BY <1>2, <1>3, <1>4 DEF ChannelInv, OpenWhileReading
<1>6. ReplyChannelOpen'
  <2>1. CASE sends' = <<Reply(c)>>
    BY <1>2, <2>1, ResponseIsFor DEF ReplyChannelOpen
  <2>2. ASSUME NEW to \in Ids,
               sends' = <<EventFor(to), Reply(c)>>
        PROVE  ReplyChannelOpen'
    BY <1>2, <2>2, ResponseIsFor, NobodyAssumption DEF ReplyChannelOpen
  <2>3. QED
    BY <2>1, <2>2, RequestSends
<1>7. QED
  BY <1>5, <1>6 DEF ChannelInv

\* Close comes only when nothing is left to send, and Forget only to a channel
\* that is closed.
LEMMA ConnectionChannels ==
  ASSUME TypeOK, ChannelInv, NEW c \in Conns, Connection(c)
  PROVE  ChannelInv'
<1>1. CASE Connect(c)
  BY <1>1 DEF Connect, TypeOK, ChannelInv, OpenWhileReading, ReplyChannelOpen
<1>2. CASE Close(c)
  BY <1>2 DEF Close, Dropped, TypeOK, ChannelInv, OpenWhileReading, ReplyChannelOpen
<1>3. CASE ReadRequest(c)
  BY <1>3 DEF ReadRequest, TypeOK, ChannelInv, OpenWhileReading, ReplyChannelOpen, sessions
<1>4. CASE ReadFails(c)
  BY <1>4 DEF ReadFails, TypeOK, ChannelInv, OpenWhileReading, ReplyChannelOpen, sessions
<1>5. CASE PingFails(c) \/ WriterStops(c)
  BY <1>5 DEF PingFails, WriterStops, ChannelInv, OpenWhileReading, ReplyChannelOpen, sessions
<1>6. CASE Forget(c)
  <2>1. chan[c] # "open"
    BY <1>6 DEF Forget, ChannelInv, OpenWhileReading
  <2>2. OpenWhileReading'
    BY <1>6, <2>1 DEF Forget, TypeOK, ChannelInv, OpenWhileReading
  <2>3. ReplyChannelOpen'
    BY <1>6, <2>1 DEF Forget, TypeOK, ChannelInv, ReplyChannelOpen
  <2>4. QED
    BY <2>2, <2>3 DEF ChannelInv
<1>7. QED
  BY <1>1, <1>2, <1>3, <1>4, <1>5, <1>6 DEF Connection

LEMMA ChannelsAlways == Spec => []ChannelInv
<1>1. Init => ChannelInv
  BY DEF Init, ChannelInv, OpenWhileReading, ReplyChannelOpen
<1>2. ASSUME TypeOK, ChannelInv, [Next]_vars
      PROVE  ChannelInv'
  <2>1. CASE UNCHANGED <<connections, chan, reader, sends>>
    BY <1>2, <2>1 DEF ChannelInv, OpenWhileReading, ReplyChannelOpen
  <2>2. CASE Deliver
    <3>1. OpenWhileReading'
      BY <1>2, <2>2 DEF Deliver, ChannelInv, OpenWhileReading, sessions
    <3>2. \A k \in DOMAIN Tail(sends) : /\ k + 1 \in DOMAIN sends
                                        /\ Tail(sends)[k] = sends[k + 1]
      BY <1>2, <2>2 DEF Deliver, TypeOK
    <3>3. ReplyChannelOpen'
      BY <1>2, <2>2, <3>2 DEF Deliver, ChannelInv, ReplyChannelOpen
    <3>4. QED
      BY <3>1, <3>3 DEF ChannelInv
  <2>3. ASSUME NEW c \in Conns, HandleRequest(c) \/ Connection(c)
        PROVE  ChannelInv'
    BY <1>2, <2>3, RequestChannels, ConnectionChannels
  <2>4. QED
    BY <1>2, <2>1, <2>2, <2>3 DEF Next, SendPanics, vars, sessions
<1>3. QED
  BY <1>1, <1>2, TypeCorrect, PTL DEF Spec

\* A connection's ch_send is open exactly while its reader can still hand
\* something to the server, so close(conn.ch_send) never closes it twice.
THEOREM ChannelOpenWhileReading == Spec => []OpenWhileReading
  BY ChannelsAlways, PTL DEF ChannelInv

\* The server's reply to a request never goes to a closed channel.
THEOREM RepliesFindChannelOpen == Spec => []ReplyChannelOpen
  BY ChannelsAlways, PTL DEF ChannelInv

-----------------------------------------------------------------------------
(* Sessions, of clients that do not log in twice on a connection.          *)

\* An event that waits goes to the connection of its user, which is open.
EventsConsistent ==
  \A k \in DOMAIN sends : sends[k].toId # Nobody =>
                           /\ connId[sends[k].conn] = sends[k].toId
                           /\ chan[sends[k].conn] = "open"

\* SessionsConsistent alone is inductive, given the channels; EventsConsistent
\* takes it from the forward to the send, and rules SendPanics out.
SessionInv == SessionsConsistent /\ EventsConsistent /\ NeverPanics

LEMMA RequestKeepsSessions ==
  ASSUME ReLogin = FALSE, TypeOK, ChannelInv, SessionInv,
         NEW c \in Conns, HandleRequest(c)
  PROVE  SessionInv'
<1>1. Receive(c) /\ chan[c] = "open" /\ UNCHANGED <<chan, panicked>>
  BY RequestSends DEF Receive, ChannelInv, OpenWhileReading
<1>2. SessionsConsistent'
  <2>1. CASE UNCHANGED sessions
    BY <1>1, <2>1 DEF sessions, SessionInv, SessionsConsistent
  <2>2. CASE Logout(c)
    <3>1. \A i \in Ids : onlines'[i] # NoConn => onlines'[i] = onlines[i] /\ onlines[i] # c
      BY <2>2 DEF Logout, TypeOK, SessionInv, SessionsConsistent
    <3>2. QED
      BY <1>1, <2>2, <3>1 DEF Logout, SessionInv, SessionsConsistent
  <2>3. ASSUME NEW i \in Ids, Login(c, i)
        PROVE  SessionsConsistent'
    <3>1. \A j \in Ids : onlines[j] # c
      BY <2>3 DEF Login, MayLogin
    <3>2. QED
      BY <1>1, <2>3, <3>1, NoConnAssumption
         DEF Login, GoOnline, TypeOK, SessionInv, SessionsConsistent
  <2>4. QED
    BY <2>1, <2>2, <2>3, RequestSessions
<1>3. EventsConsistent'
  <2>1. CASE sends' = <<Reply(c)>>
    BY <2>1, ResponseIsFor DEF EventsConsistent
  <2>2. ASSUME NEW to \in Ids, IsOnline(to), UNCHANGED <<db, sessions>>,
               sends' = <<EventFor(to), Reply(c)>>
        PROVE  EventsConsistent'
    <3>1. connId[onlines[to]] = to /\ chan[onlines[to]] = "open"
      BY <2>2 DEF IsOnline, SessionInv, SessionsConsistent
    <3>2. QED
      BY <1>1, <2>2, <3>1, ResponseIsFor DEF EventsConsistent, sessions
  <2>3. QED
    BY <2>1, <2>2, RequestSends
<1>4. QED
  BY <1>1, <1>2, <1>3 DEF SessionInv, NeverPanics

LEMMA ConnectionKeepsSessions ==
  ASSUME TypeOK, ChannelInv, SessionInv, NEW c \in Conns, Connection(c)
  PROVE  SessionInv'
<1>1. CASE Connect(c)
  BY <1>1 DEF Connect, TypeOK, SessionInv, SessionsConsistent, EventsConsistent, NeverPanics
<1>2. CASE Close(c)
  <2>1. \A i \in Ids : onlines'[i] # NoConn => onlines'[i] = onlines[i] /\ onlines[i] # c
    BY <1>2 DEF Close, Dropped, TypeOK, SessionInv, SessionsConsistent
  <2>2. SessionsConsistent'
    BY <1>2, <2>1 DEF Close, Dropped, TypeOK, SessionInv, SessionsConsistent
  <2>3. QED
    BY <1>2, <2>2 DEF Close, SessionInv, EventsConsistent, NeverPanics
<1>3. CASE ReadRequest(c) \/ ReadFails(c) \/ PingFails(c) \/ WriterStops(c)
  BY <1>3 DEF ReadRequest, ReadFails, PingFails, WriterStops, sessions,
              SessionInv, SessionsConsistent, EventsConsistent, NeverPanics
<1>4. CASE Forget(c)
  <2>1. chan[c] # "open"
    BY <1>4 DEF Forget, ChannelInv, OpenWhileReading
  <2>2. SessionsConsistent'
    BY <1>4, <2>1 DEF Forget, TypeOK, SessionInv, SessionsConsistent
  <2>3. EventsConsistent'
    BY <1>4, <2>1 DEF Forget, TypeOK, SessionInv, EventsConsistent
  <2>4. QED
    BY <1>4, <2>2, <2>3 DEF Forget, SessionInv, NeverPanics
<1>5. QED
  BY <1>1, <1>2, <1>3, <1>4 DEF Connection

LEMMA SessionsAlways ==
  ASSUME ReLogin = FALSE
  PROVE  Spec => []SessionInv
<1>1. Init => SessionInv
  BY DEF Init, SessionInv, SessionsConsistent, EventsConsistent, NeverPanics
<1>2. ASSUME TypeOK, ChannelInv, SessionInv, [Next]_vars
      PROVE  SessionInv'
  <2>1. CASE UNCHANGED vars
    BY <1>2, <2>1
       DEF SessionInv, SessionsConsistent, EventsConsistent, NeverPanics, vars, sessions
  <2>2. CASE Deliver
    <3>1. \A k \in DOMAIN Tail(sends) : /\ k + 1 \in DOMAIN sends
                                        /\ Tail(sends)[k] = sends[k + 1]
      BY <1>2, <2>2 DEF Deliver, TypeOK
    <3>2. EventsConsistent'
      BY <1>2, <2>2, <3>1 DEF Deliver, sessions, SessionInv, EventsConsistent
    <3>3. QED
      BY <1>2, <2>2, <3>2 DEF Deliver, sessions, SessionInv, SessionsConsistent, NeverPanics
  <2>3. ~SendPanics
    <3>1. sends = <<>> \/ (1 \in DOMAIN sends /\ Head(sends) = sends[1])
      BY <1>2 DEF TypeOK
    <3>2. sends = <<>> \/ chan[Head(sends).conn] = "open"
      BY <1>2, <3>1 DEF ChannelInv, ReplyChannelOpen, SessionInv, EventsConsistent
    <3>3. QED
      BY <3>2 DEF SendPanics
  <2>4. ASSUME NEW c \in Conns, HandleRequest(c) \/ Connection(c)
        PROVE  SessionInv'
    BY <1>2, <2>4, RequestKeepsSessions, ConnectionKeepsSessions
  <2>5. QED
    BY <1>2, <2>1, <2>2, <2>3, <2>4 DEF Next
<1>3. QED
  BY <1>1, <1>2, TypeCorrect, ChannelsAlways, PTL DEF Spec

\* If no online connection logs in again, a connection that is online for a
\* user is that user's, open, and not pending.
THEOREM SessionsStayConsistent ==
  ASSUME ReLogin = FALSE
  PROVE  Spec => []SessionsConsistent
  BY SessionsAlways, PTL DEF SessionInv

\* If no online connection logs in again, an event waits for the connection of
\* the user it is for.
THEOREM EventsReachTheirUsers ==
  ASSUME ReLogin = FALSE
  PROVE  Spec => []EventReachesItsUser
<1>1. SessionInv => EventReachesItsUser
  BY DEF SessionInv, EventsConsistent, EventReachesItsUser
<1>2. QED
  BY <1>1, SessionsAlways, PTL

\* If no online connection logs in again, the server never sends on a closed
\* channel, whatever else connects, closes, fails or gives up.
THEOREM ServerNeverPanics ==
  ASSUME ReLogin = FALSE
  PROVE  Spec => []NeverPanics
  BY SessionsAlways, PTL DEF SessionInv

-----------------------------------------------------------------------------
(* The abstract catalogue: every step of the server is, seen through        *)
(* CatalogueView, a step of Catalogue or leaves the catalogue alone.        *)

\* A name without a service has no enabled flag left over.  With the database's
\* consistency this is what Create needs to find.
FlagsCleared == \A n \in Names : ~ServiceExists(db, n) => ~db.enabled[n]

View == <<db.owner, Members(db), db.enabled>>

-----------------------------------------------------------------------------
(* One lemma for each handler that writes the database. *)

\* A new peer was no member of anything, and is none.
LEMMA RegisterStutters ==
  ASSUME TypeOK, DatabaseConsistent, NEW c \in Conns, NEW i \in Ids, Register(c, i)
  PROVE  UNCHANGED View
<1>1. db' = AddPeer(db, i) /\ i \notin db.peers /\ db \in Databases
  BY DEF Register, TypeOK
<1>2. \A n \in Names : ~HasEntry(db, i, n)
  BY <1>1 DEF DatabaseConsistent, Consistent, EntriesConsistent
<1>3. db'.owner = db.owner /\ db'.enabled = db.enabled
  BY <1>1 DEF AddPeer, Databases
<1>4. \A j \in Ids, n \in Names : IsJoined(db', j, n) <=> IsJoined(db, j, n)
  BY <1>1, <1>2 DEF AddPeer, Databases, IsJoined, HasEntry
<1>5. Members(db') = Members(db)
  BY <1>4 DEF Members
<1>6. QED
  BY <1>3, <1>5 DEF View

LEMMA ShowStutters ==
  ASSUME TypeOK, NEW c \in Conns, NEW i \in Ids, NEW n \in Names, ShowService(c, i, n)
  PROVE  UNCHANGED View
<1>1. db' = Refresh(db, n, IsOnline(db.owner[n])) /\ db \in Databases
  BY DEF ShowService, TypeOK
<1>2. /\ db'.owner = db.owner
      /\ db'.enabled = db.enabled
      /\ db'.inServices = db.inServices
  BY <1>1 DEF Refresh, Databases
<1>3. QED
  BY <1>2 DEF View, Members, IsJoined

LEMMA JoinRefines ==
  ASSUME TypeOK, NEW c \in Conns, NEW i \in Ids, NEW n \in Names, JoinService(c, i, n)
  PROVE  CatalogueView!Join(n, i)
<1>1. db' = Join(db, i, n) /\ db \in Databases /\ db.owner[n] \notin {Nobody, i}
  BY DEF JoinService, TypeOK, ServiceExists
<1>2. db'.owner = db.owner /\ db'.enabled = db.enabled
  BY <1>1 DEF Join, Databases
<1>3. \A j \in Ids, m \in Names :
        IsJoined(db', j, m) <=> IsJoined(db, j, m) \/ (j = i /\ m = n)
  BY <1>1 DEF Join, Databases, IsJoined
<1>4. Members(db') = [Members(db) EXCEPT ![n] = Members(db)[n] \cup {i}]
  BY <1>3 DEF Members
<1>5. QED
  BY <1>1, <1>2, <1>4 DEF CatalogueView!Join

LEMMA LeaveRefines ==
  ASSUME TypeOK, NEW c \in Conns, NEW i \in Ids, NEW n \in Names, LeaveService(c, i, n)
  PROVE  CatalogueView!Leave(n, i)
<1>1. db' = Leave(db, i, n) /\ db \in Databases /\ db.owner[n] # Nobody
  BY DEF LeaveService, TypeOK, ServiceExists
<1>2. db'.owner = db.owner /\ db'.enabled = db.enabled
  BY <1>1 DEF Leave, Databases
<1>3. \A j \in Ids, m \in Names :
        IsJoined(db', j, m) <=> IsJoined(db, j, m) /\ ~(j = i /\ m = n)
  BY <1>1 DEF Leave, Databases, IsJoined, HasEntry
<1>4. Members(db') = [Members(db) EXCEPT ![n] = Members(db)[n] \ {i}]
  BY <1>3 DEF Members
<1>5. QED
  BY <1>1, <1>2, <1>4 DEF CatalogueView!Leave

LEMMA CreateRefines ==
  ASSUME TypeOK, DatabaseConsistent, FlagsCleared,
         NEW c \in Conns, NEW i \in Ids, NEW n \in Names, CreateService(c, i, n)
  PROVE  CatalogueView!Create(n, i)
<1>1. db' = AddService(db, n, i) /\ db \in Databases /\ ~ServiceExists(db, n)
  BY DEF CreateService, TypeOK
<1>2. db.owner[n] = Nobody /\ ~db.enabled[n]
  BY <1>1 DEF ServiceExists, FlagsCleared
<1>3. \A j \in Ids : ~IsJoined(db, j, n)
  BY <1>1 DEF DatabaseConsistent, Consistent, EntriesConsistent, HasEntry, IsJoined
<1>4. Members(db)[n] = {}
  BY <1>3 DEF Members
<1>5. /\ db'.owner = [db.owner EXCEPT ![n] = i]
      /\ db'.enabled = db.enabled
      /\ db'.inServices = db.inServices
  BY <1>1, <1>2 DEF AddService, Databases
<1>6. Members(db') = Members(db)
  BY <1>5 DEF Members, IsJoined
<1>7. QED
  BY <1>2, <1>4, <1>5, <1>6 DEF CatalogueView!Create

LEMMA RemoveRefines ==
  ASSUME TypeOK, DatabaseConsistent,
         NEW c \in Conns, NEW i \in Ids, NEW n \in Names, RemoveService(c, i, n)
  PROVE  CatalogueView!Remove(n)
<1>1. db' = RemoveServiceOf(db, n) /\ db \in Databases /\ db.owner[n] # Nobody
  BY NobodyAssumption DEF RemoveService, TypeOK
<1>2. /\ db'.owner = [db.owner EXCEPT ![n] = Nobody]
      /\ db'.enabled = [db.enabled EXCEPT ![n] = FALSE]
  BY <1>1 DEF RemoveServiceOf, Databases
<1>3. \A j \in Ids : j \notin db.peers => ~IsJoined(db, j, n)
  BY DEF DatabaseConsistent, Consistent, EntriesConsistent, HasEntry, IsJoined
<1>4. \A j \in Ids, m \in Names :
        db'.inServices[j][m] = IF j \in db.peers /\ m = n
                                 THEN "absent" ELSE db.inServices[j][m]
  BY <1>1 DEF RemoveServiceOf, Databases
<1>5. \A j \in Ids, m \in Names : IsJoined(db', j, m) <=> IsJoined(db, j, m) /\ m # n
  BY <1>3, <1>4 DEF IsJoined
<1>6. Members(db') = [Members(db) EXCEPT ![n] = {}]
  BY <1>5 DEF Members
<1>7. QED
  BY <1>1, <1>2, <1>6 DEF CatalogueView!Remove

LEMMA EnableRefines ==
  ASSUME TypeOK, NEW c \in Conns, NEW i \in Ids, NEW n \in Names,
         NEW flag \in BOOLEAN, EnableService(c, i, n, flag)
  PROVE  CatalogueView!SetEnabled(n, flag)
<1>1. db' = SetEnabled(db, n, flag) /\ db \in Databases /\ db.owner[n] # Nobody
  BY NobodyAssumption DEF EnableService, TypeOK
<1>2. /\ db'.owner = db.owner
      /\ db'.enabled = [db.enabled EXCEPT ![n] = flag]
      /\ db'.inServices = db.inServices
  BY <1>1 DEF SetEnabled, Databases
<1>3. Members(db') = Members(db)
  BY <1>2 DEF Members, IsJoined
<1>4. QED
  BY <1>1, <1>2, <1>3 DEF CatalogueView!SetEnabled

-----------------------------------------------------------------------------
(* Steps and behaviours. *)

LEMMA RequestRefines ==
  ASSUME TypeOK, DatabaseConsistent, FlagsCleared, NEW c \in Conns, HandleRequest(c)
  PROVE  CatalogueView!Next \/ UNCHANGED View
<1>1. CASE db' = db
  BY <1>1 DEF View, Members, IsJoined
<1>2. ASSUME NEW i \in Ids, Register(c, i)
      PROVE  UNCHANGED View
  BY <1>2, RegisterStutters
<1>3. ASSUME NEW i \in Ids, NEW n \in Names,
             \/ ShowService(c, i, n) \/ JoinService(c, i, n) \/ LeaveService(c, i, n)
             \/ CreateService(c, i, n) \/ RemoveService(c, i, n)
             \/ \E flag \in BOOLEAN : EnableService(c, i, n, flag)
      PROVE  CatalogueView!Next \/ UNCHANGED View
  BY <1>3, ShowStutters, JoinRefines, LeaveRefines, CreateRefines, RemoveRefines,
     EnableRefines
     DEF CatalogueView!Next
<1>4. QED
  BY <1>1, <1>2, <1>3
     DEF HandleRequest, AnswerOnly, Logout, Login, ForwardServiceData, ConnectService

LEMMA StepRefines ==
  ASSUME TypeOK, DatabaseConsistent, FlagsCleared, [Next]_vars
  PROVE  CatalogueView!Next \/ UNCHANGED View
<1>1. CASE db' = db
  BY <1>1 DEF View, Members, IsJoined
<1>2. ASSUME NEW c \in Conns, HandleRequest(c)
      PROVE  CatalogueView!Next \/ UNCHANGED View
  BY <1>2, RequestRefines
<1>3. ASSUME NEW c \in Conns, Connection(c)
      PROVE  db' = db
  BY <1>3 DEF Connection, Connect, Close, ReadRequest, ReadFails, PingFails,
              WriterStops, Forget
<1>4. QED
  BY <1>1, <1>2, <1>3 DEF Next, Deliver, SendPanics, vars

\* What the catalogue may do keeps the flags of free names cleared.
LEMMA FlagsStayCleared == Spec => []FlagsCleared
<1>1. Init => FlagsCleared
  BY DEF Init, FlagsCleared, EmptyDatabase
<1>2. ASSUME TypeOK, DatabaseConsistent, FlagsCleared, [Next]_vars
      PROVE  FlagsCleared'
  <2>1. /\ db.owner \in [Names -> Ids \cup {Nobody}]
        /\ db.enabled \in [Names -> BOOLEAN]
    BY <1>2 DEF TypeOK, Databases
  <2>2. CASE UNCHANGED View
    BY <1>2, <2>2 DEF View, FlagsCleared, ServiceExists
  <2>3. ASSUME NEW n \in Names,
               \/ CatalogueView!Remove(n)
               \/ \E i \in Ids : \/ CatalogueView!Create(n, i)
                                \/ CatalogueView!Join(n, i)
                                \/ CatalogueView!Leave(n, i)
               \/ \E flag \in BOOLEAN : CatalogueView!SetEnabled(n, flag)
        PROVE  FlagsCleared'
    <3>1. CASE CatalogueView!Remove(n)
      BY <1>2, <2>1, <3>1 DEF CatalogueView!Remove, FlagsCleared, ServiceExists
    <3>2. ASSUME NEW i \in Ids, CatalogueView!Create(n, i)
          PROVE  FlagsCleared'
      BY <1>2, <2>1, <3>2 DEF CatalogueView!Create, FlagsCleared, ServiceExists
    <3>3. ASSUME NEW i \in Ids, CatalogueView!Join(n, i) \/ CatalogueView!Leave(n, i)
          PROVE  FlagsCleared'
      BY <1>2, <3>3
         DEF CatalogueView!Join, CatalogueView!Leave, FlagsCleared, ServiceExists
    <3>4. ASSUME NEW flag \in BOOLEAN, CatalogueView!SetEnabled(n, flag)
          PROVE  FlagsCleared'
      BY <1>2, <2>1, <3>4 DEF CatalogueView!SetEnabled, FlagsCleared, ServiceExists
    <3>5. QED
      BY <2>3, <3>1, <3>2, <3>3, <3>4
  <2>4. QED
    BY <1>2, <2>2, <2>3, StepRefines DEF CatalogueView!Next
<1>3. QED
  BY <1>1, <1>2, TypeCorrect, DatabaseStaysConsistent, PTL DEF Spec

\* The server's handlers, connections and failures together do only what the
\* catalogue allows: nothing of a removed service survives into the next
\* service of its name, and an owner is never a member.
THEOREM ServerImplementsCatalogue == Spec => ImplementsCatalogue
<1>1. Init => CatalogueView!Init
  <2> SUFFICES ASSUME Init PROVE CatalogueView!Init
    OBVIOUS
  <2>1. Members(db) = [n \in Names |-> {}]
    BY DEF Init, EmptyDatabase, Members, IsJoined
  <2>2. QED
    BY <2>1 DEF Init, EmptyDatabase, CatalogueView!Init
<1>2. TypeOK /\ DatabaseConsistent /\ FlagsCleared /\ [Next]_vars
        => [CatalogueView!Next]_CatalogueView!vars
  BY StepRefines DEF View, CatalogueView!vars
<1>3. QED
  BY <1>1, <1>2, TypeCorrect, DatabaseStaysConsistent, FlagsStayCleared, PTL
     DEF Spec, ImplementsCatalogue, CatalogueView!Spec

-----------------------------------------------------------------------------
(* The storage: the database changes as SignalStore!Handle lets it.        *)

\* SignalStore's operators on databases, seen through StoreView, are SignalDatabase's.
LEMMA StoreOperators ==
  /\ StoreView!EmptyDatabase = EmptyDatabase
  /\ \A d, n : StoreView!ServiceExists(d, n) <=> ServiceExists(d, n)
  /\ \A d, i : StoreView!AddPeer(d, i) = AddPeer(d, i)
  /\ \A d, i, n : /\ StoreView!AddService(d, n, i) = AddService(d, n, i)
                  /\ StoreView!Join(d, i, n) = Join(d, i, n)
                  /\ StoreView!Leave(d, i, n) = Leave(d, i, n)
  /\ \A d, n, flag : /\ StoreView!RemoveServiceOf(d, n) = RemoveServiceOf(d, n)
                     /\ StoreView!SetEnabled(d, n, flag) = SetEnabled(d, n, flag)
                     /\ StoreView!Refresh(d, n, flag) = Refresh(d, n, flag)
BY DEF EmptyDatabase, ServiceExists, AddPeer, AddService, Join, Leave, HasEntry,
       RemoveServiceOf, SetEnabled, Refresh,
       StoreView!EmptyDatabase, StoreView!ServiceExists, StoreView!AddPeer,
       StoreView!AddService, StoreView!Join, StoreView!Leave, StoreView!HasEntry,
       StoreView!RemoveServiceOf, StoreView!SetEnabled, StoreView!Refresh

\* Every handler that writes names a registered peer, because only users that
\* are registered are online, and makes the checks Handle makes.
LEMMA RequestIsHandled ==
  ASSUME NEW c \in Conns, HandleRequest(c)
  PROVE  StoreView!Handle \/ UNCHANGED db
<1>1. ASSUME NEW i \in Ids, Register(c, i)
      PROVE  StoreView!Handle
  BY <1>1, StoreOperators DEF Register, StoreView!Handle
<1>2. ASSUME NEW i \in Ids, NEW n \in Names, ShowService(c, i, n)
      PROVE  StoreView!Handle
  <2>1. IsOnline(db.owner[n]) \in BOOLEAN
    BY DEF IsOnline
  <2>2. QED
    BY <1>2, <2>1, StoreOperators DEF ShowService, IsOnline, StoreView!Handle
<1>3. ASSUME NEW i \in Ids, NEW n \in Names, JoinService(c, i, n) \/ LeaveService(c, i, n)
      PROVE  StoreView!Handle
  BY <1>3, StoreOperators DEF JoinService, LeaveService, IsOnline, StoreView!Handle
<1>4. ASSUME NEW i \in Ids, NEW n \in Names, CreateService(c, i, n) \/ RemoveService(c, i, n)
      PROVE  StoreView!Handle
  BY <1>4, StoreOperators DEF CreateService, RemoveService, IsOnline, StoreView!Handle
<1>5. ASSUME NEW i \in Ids, NEW n \in Names, NEW flag \in BOOLEAN,
             EnableService(c, i, n, flag)
      PROVE  StoreView!Handle
  BY <1>5, StoreOperators DEF EnableService, IsOnline, StoreView!Handle
<1>6. QED
  BY <1>1, <1>2, <1>3, <1>4, <1>5
     DEF HandleRequest, AnswerOnly, Logout, Login, ForwardServiceData, ConnectService

\* What SignalStore assumes of the requests is what the server does: its steps
\* change the database as Handle does, or not at all.  So what is proved of the
\* storage holds of the server's database.
THEOREM ServerImplementsStore == Spec => ImplementsStore
<1>1. Init => StoreView!Init
  BY StoreOperators DEF Init, StoreView!Init, StoreView!NoContents
<1>2. ASSUME [Next]_vars
      PROVE  [StoreView!Next]_StoreView!vars
  <2>1. CASE UNCHANGED db
    BY <2>1 DEF StoreView!vars
  <2>2. ASSUME NEW c \in Conns, HandleRequest(c)
        PROVE  [StoreView!Next]_StoreView!vars
    BY <2>1, <2>2, RequestIsHandled DEF StoreView!Next
  <2>3. ASSUME NEW c \in Conns, Connection(c)
        PROVE  UNCHANGED db
    BY <2>3 DEF Connection, Connect, Close, ReadRequest, ReadFails, PingFails,
                WriterStops, Forget
  <2>4. QED
    BY <1>2, <2>1, <2>2, <2>3 DEF Next, Deliver, SendPanics, vars
<1>3. QED
  BY <1>1, <1>2, PTL DEF Spec, ImplementsStore, StoreView!Spec

=============================================================================
