# netpie: models, checks and proofs

netpie lets two programs behind NATs reach each other's services. A *signal
server* keeps a database of users and services and forwards the messages with
which two clients set up a direct ICE connection. A *client*, or a *server
endpoint*, is a shell over a signal client, with a table of the local services
that its peers may use. The signalling half of the program is complete and works.
The other half, which is to connect the peers directly, is written in parts: the
ICE agent and the STUN connection are there and modelled here, but nothing in the
program calls them yet.

This directory models the program in TLA+, checks the models with TLC, and
proves theorems about them with TLAPS. `PROJECT.json` lists the components, the
runs, the mutants, the hazards, the findings and the theorems, and maps each
definition to the lines it models.

## 1. Inventory

| Component (source) | State | Operations | Where |
|---|---|---|---|
| Signal server (`signalserver.go`, `signalcommon.go`) | database of peers, memberships and services; `connections`, `onlines` | connect, receive, close, tick; one handler per action | `SignalDatabase`, `SignalServer`, `Catalogue` |
| Signal connection (`signalconnection.go`) | unbuffered `ch_send`; a reader and a writer goroutine | `readPump`, `writePump`, `serveWs` | `SignalServer` |
| Storage (`signalserver.go`, `utils.go`) | the database in memory, a file | `SyncToStorage`, `SyncFromStorage`, `WriteFile`, `ReadFile` | `SignalStore`, `Checkpoint` |
| Signal client (`signalclient.go`) | network status, online flag, `ch_send`, `pending`, `ch_exit` | `Start`, `Run`, its reader, `SendRequest`, `Close`, the shell's commands | `SignalClient` |
| Endpoint and local services (`endpoint.go`, `localservice.go`, `client.go`, `server.go`) | local services by service name, own id and peer | commands and their hook, remote events | `Endpoint`; its acknowledgements also in `SignalClient` |
| Command line (`utils.go`, `completer.go`) | none | `ParseCommandLine`, `IsExist` | `CommandLine`, `Endpoint` |
| ICE agent (`iceagent.go`, `localservice.go`) | the library's agent and connection; `ch_send`, `ch_recv`, `ch_err` | `Init`, `Start`, `Stop`, `Uninit` | `IceAgent` |
| STUN connection (`connection.go`) | ready, checking and response flags; an interval | received packets, a retry goroutine | `StunConnection` |
| Events, tokens, gateway, peer connection, network services, `main.go`, texts and stubs | none, or the state of a library | | not modelled (section 11) |

How they interact. The server's one goroutine (`Run`) selects among three unbuffered
channels, which all connections share, and a 5 s ticker. A connection's reader hands
requests to the server and, when it ends, the connection itself; its writer takes
responses from the connection's own unbuffered `ch_send`, and a response that nobody
takes blocks the whole server. A handler may look up another user's connection and
forward an event to it before the reply. On the other side, a signal client has a
goroutine that dials, writes and reconnects, a reader for each link, and the shell;
they share a queue, a map of pending requests, two flags and one exit channel,
without locks. Events fire listeners inside the reader, so that a remote event is
handled on the reader's goroutine while the shell, on its own, enables and disables
services in the same table, and while a reader of an earlier link may still handle
one. An ICE agent has a goroutine that starts it, one that stops it, a writer and a
reader, around three unbuffered channels. A STUN connection is called with each
packet and has a goroutine that asks its peer again.

What is hard here, and what makes each component correct:

* *Server.* The database is spread over several maps (owner, membership, flags),
  which the handlers must keep consistent; a new service must not inherit the
  members of an old one. Sessions are in two maps and in the connection's own
  id, and clients may log in twice, log out elsewhere, and fail at any point. A
  send on a closed channel ends the process, and a send that nobody receives
  stops it.
* *Connection.* Two goroutines and the server must agree on who closes what. Both
  must end when the connection fails.
* *Storage.* The file is truncated before it is written, the process may end at
  any point, a write may fail, and what is read back is cut at a maximal size.
* *Client.* Requests, answers, timeouts, disconnects and reconnects interleave
  freely. A command must return, an answer must not block the reader, an old
  link must not disturb a new one.
* *Endpoint.* The readers of several links check the table of local services and then
  write to it, without a lock, while the shell takes services in and out. The hook
  relies on checks that the command made. The handlers of events use local services and
  agents that may not be there; with this server no event names a service, so that they
  do not come so far.
* *Command line.* Quotes, pairs of backslashes, empty words and the end of the line
  meet in every way; the end is found by byte index in a loop over runes.
* *ICE agent.* A stop, a failed write and a failed read each end the writer, at any
  time, and the connection must be closed in each case. The reader cannot close it
  itself.
* *STUN connection.* At most one goroutine may ask, it must keep asking while there is
  no answer, it must end, and its interval depends on packets that come meanwhile.

## 2. The server and its connections

`SignalDatabase` holds the database as a record of functions and one operator for
each update that a handler makes. `peers` is the key set of `Peers`;
`inServices[i][n]` is `InServices[n]` of peer `i` (absent, false after a leave, true
after a join); `owner[n]` is the owner of service `n`, or `Nobody` for a service
that does not exist. `Consistent` is what the handlers rely on: membership entries
are of registered users, for services that exist, and never the owner's.

`SignalServer` has the server and all connections:

| Variable | Code |
|---|---|
| `db` | `SignalServer.db` |
| `connections`, `onlines`, `connId` | the session maps and `SignalConnection.id` |
| `chan`, `reader`, `writer` | `ch_send`; where `readPump` and `writePump` are |
| `sends` | the sends at the end of `OnReceiveRequest` that are still to be done |
| `panicked` | a send hit a closed channel |

A handler is one step (`HandleRequest`), because nothing else touches its state, but
the sends that end it are steps of their own (`Deliver`, `SendPanics`), and the
server does nothing else until they are done: other goroutines do. The request's
content is chosen when it is received. Whether passwords fit is a choice of the
action. The server trusts the id in a request, so any connection may name any user,
as in the code. A message has its event, the sender and the service name besides its
kind; the last two are empty in every response (`Response`, `Reply`, `EventFor`),
because no handler sets them. `Init` is a server that found no storage; what one
that did starts with is in `SignalStore`. Two switches limit the environment:
`ReLogin` (a connection that is online logs in again; the program's own client does
not, but nothing in the server prevents it) and `PingMayFail` (a writer gives up).

`Catalogue` is the abstract specification: who owns a service, who is a member,
whether it is enabled. It knows nothing of connections. `Create` requires that a
free name has no members and is disabled, but does not clear them, so the
refinement `ImplementsCatalogue` fails as soon as anything survives a removal.

The storage (section 3) sees the server as a process that handles requests and knows
no sessions: its `Handle` lets any registered user make any change. `ImplementsStore`
says that this is enough, that no handler changes the database in another way.

## 3. The storage

`SignalStore` has the database in memory, the file, and whether the process runs,
is between truncating and writing, or is down. `Handle` is any change that the
handlers of `SignalServer` can make. `Truncate` and `Write` are the two halves of
`WriteFile`; `Crash` may come before, between and after them; `WriteFails` leaves a
part of an encoding, which does not decode. `Loaded` cuts at `MaxSize`. `Checkpoint` is
the abstract specification: a restart finds the last save or nothing, and never
anything else. A save is lost by a crash in its midst, by a write that fails, and by a
database that is too large to be read back; the specification allows all of these, so
it says what a restart may find and not that nothing gets lost.

## 4. The client

`SignalClient` has the shell (`call[Shell]`, `closing`), the goroutine of `Start`
(`runner`, `link`, `taken`), a reader for each link (`reader`, and `call[l]` while
the reader itself sends an acknowledgement), and their shared state (`network`,
`online`, `queue`, `pending`). `SendRequest` is the steps `Call`, `Push`, then
`Answered` and `Return`, or `TimesOut`. `Run` is `Dial`, `CleanQueue`, the four
cases of its select, and `RunEnds`, its deferred function. Writing a request and
making it pending are two steps, because an answer may come between them. A
`response` stays until the request is forgotten; requests and links are used again
when nothing refers to them. The environment is a link that may break (`Break`) and
a server that answers in order with either result (`ServerAnswers`) and sends events
(`ServerNotifies`; the bound is one unread event for each link). A broken or closed
link still delivers what has arrived, answers and events alike, and an event is
acknowledged. Switches: `Disconnects`, `LinkMayBreak`, and `WriteNotices` (a write
fails on a broken link before its reader notices).

## 5. The endpoint and its command line

`CommandLine` has `ParseCommandLine` as a loop of `ReadChar` over the characters of a
line (`ReadAll`), with the parser's variables in a record. Characters are the four special
ones, letters, and characters that are encoded in several bytes, since the end of
the line is found by byte index (`EndNoticed`). What a line means is said a second
time and independently: as quoted words (`LineOf`), and as what stands between
spaces (`ArePlainWords`: words that start where a character follows a space).

`Endpoint` has the shell and the readers of one endpoint:

| Variable | Code |
|---|---|
| `stage`, `line`, `parts`, `failed` | `Executor`: its line, the words it made of it, what `GoRun` returned |
| `id`, `online` | `SignalClient.id`, which is part of the key of a local service, and `online` |
| `owned` | the services of each user at the server, which the commands' results depend on |
| `enabled`, `items` | the keys of `Endpoint.services`, and the local services in all of its maps |
| `readers` | for each link's reader: how far it is in `OnRemoteEvent`, the response, and the local service that it found missing |
| `process` | runs, has exited, or has panicked, and of what |

`Type`, `GoRun` and `PostRun` are the three steps of a command, so that events come
between them; `Dismiss`, `Leave`, `ExecutorPanics` and `HookPanics` are the ways out. A
command succeeds only if the checks of the signal client and the server hold
(`Succeed`): to enable a service its user must be online and own it. Any command may
fail. `GoOffline` is the end of a `Run`: the flag goes and the id stays.

There is a reader for each link and an old one outlives its `Run`, so several handle
events at once. `Arrive`, `Check`, `Put` and `Acknowledge` are the steps of one: what it
found missing (`endpoint.go:133`) it puts in later (139), whatever the shell and the
others have done meanwhile. `ForwardServiceData` is what the server makes of a request: a
response with an event, and without a service name or a sender. So the lookups of
`Check` find a table only under the empty name, and `ValidName` at the server keeps the
user from having such a service. The handlers' branches behind these lookups are
modelled all the same, and `NoEventPanics` says that they are not reached: its mutants,
a server that fills the fields or one that takes any name, reach them.

## 6. The ICE agent and the STUN connection

`IceAgent` is one local service's agent. `starter` is `OnIceAuth`, which dials in
`Start`; `stopper` is `Uninit`: blocked on `ch_err` in `Stop`, or before
`agent.Close`. `writer` and `reader` are `Start`'s goroutines, `conn` the connection
that the writer closes when it returns. A send on an unbuffered channel and its
receive are one step (`TakeData`, `TakeStop`, `TakeReadError`, `Deliver`), enabled
when both sides are there. What packets contain is
left out: the reader passes on a slice of the one buffer that it reads into, and the
program has no taker. `InitFails` and `InitGathers` are the ways `Init` ends,
as `InitIce` ignores its error.

`StunConnection` is one `Connection`. Each kind of packet is an action, each resets
`age`. A goroutine of `checkStunBindingRequest` waits (`Waiting(t)`), sends
(`SendAgain`) and then waits again or gives up, in two steps, since a packet may come
between them and change the silence it reads. Time passes in units (`Tick`), not past
a timer that is due. `quiet` is only there for a property: the time since the last
request.

## 7. What the runs show

Each passing property has a mutant in `PROJECT.json`: the definition marked
*Faulty* before the real one, which is the code with a plausible mistake, must
violate the property. The Faulty definitions are not part of the models.

| Run | Bounds | Shows |
|---|---|---|
| `server_any_clients` | 3 users, 2 connection objects, 1 service, all switches on | types; the database stays consistent; a channel is open exactly while its reader lives; replies find their channel open; online users are registered; the handlers refine `Catalogue` |
| `server_clients` | 2 users, 2 connection objects, 1 service, no second login on a connection, no failing ping, with fairness | sessions are consistent; events go to their users; no panic; the handlers refine `SignalStore`'s; no deadlock; every request is taken and answered; both goroutines of a failed connection end |
| `relogin_panics` | 2 users, 2 connections, second logins | *violated*: a forward hits a closed channel |
| `ping_failure_wedges` | 1 user, 2 connections, failing pings | *violated*: the server blocks for good on a reply |
| `store_faults` | 2 users, 2 services, 3 fit the file, all faults | memory and file are consistent; a restart finds the last save or nothing |
| `client_any` | 2 links, 2 requests, a queue of 1, all switches on | types; a response is put into a `ch_resp` at most once; only the present Run's socket is open; a Run whose link is open ends by an error only through another link's reader |
| `client_steady` | 1 link, 2 requests, no disconnects, no `WriteNotices`, with fairness | the client reconnects; commands return |
| `client_reconnect_loop` | 2 links, 1 request, disconnects, links never break, with fairness | *violated*: after disconnect and connect the client reconnects for ever |
| `endpoint` | all lines of up to 3 characters, those of up to 3 after a quote, and commands; 1 service and one without a name, 1 user, 2 readers | a line is split into the words it means, and nothing of it is lost, but for a wide last character; shell and hook find what they read; no event makes a reader use a local service that is not there |
| `open_starts_nothing` | the same, commands only | *violated*: a peer opens an enabled service, and nothing is started |
| `ice_agent` | a peer that may fail, with fairness | the connection is open exactly while its writer lives; once reading has failed it is closed; a stop that can be taken returns |
| `stun_connection` | the code's 0.5, 5 and 15 s in half seconds, 2 goroutines, with fairness | at most one goroutine asks; it asks at least every 7 s; it ends only with an answer, and then clears its flag, or after a silence without one; it does end then |

Why the bounds are enough to be interesting. A service needs an owner, a member and
a stranger: three users. A session conflict needs a user on two connections. A
finished connection object is used again, so runs are not limited to two connections
in total; that a third one to forward from changes nothing is proved (section 9).
One service name suffices at the server, because no handler relates two. The store
has two, so that a removal can leave one behind. A stale reader needs a second link;
in `client_steady` a reader is gone before the next dial, as only its own error ends
a Run there, so one link, used again and again, is all there ever is. A caller that
blocks on the queue needs a second request. `QueueSize` is 3 in the code, and 1
here, so that it is full soon. A line of three characters holds an empty word, an
unclosed quote, two spaces, a quote inside a word or a pair of backslashes; the
longer ones have the same after a quote, where a backslash may stand at all. Two
readers are the present link's and one that was left over; any number is in the
proof. The service without a name is the one that events of this server would find.
A second retry goroutine is there to see that it is never started. The longest
pause, half of a silence that is shorter than 15 s, is 7 s in half seconds and 7499
ms in the code; the proof has any unit.

Deadlock is checked in all passing runs but four. In `server_any_clients` the server
may really stop, by a panic or blocked on a writer that has gone. In `client_any`
the client may: `Close` blocks until some Run receives from `ch_exit`, and a second
disconnect just after the first has ended the Run leaves the shell blocked for good.
In `endpoint` the program exits or panics. In `ice_agent` it dies, or a stop without
a writer blocks for good.

### Findings

1. *Panic* (`NeverPanics`). After a login under a second id the entry under the
   first outlives the connection, and a forward to it sends on a closed channel.
2. *Wedged server* (`EveryRequestAnswered`). `writePump` returns after a failed
   ping; if the connection's reader still has a request, the reply blocks `Run`.
3. *Reconnect loop* (`ConnectionSettles`). All readers share `ch_exit`, so the
   reader that a disconnect leaves behind ends the next Run, whose reader ends the
   one after that. With a channel for each Run the same run of the model passes.
4. *Open starts nothing* (`OpenStartsService`). `ForwardServiceData` sets `Event` and
   `conn` of the response only. A peer opens a service that is created and enabled here;
   the endpoint looks up the empty name, starts nothing ("service provider should start
   client-mode", `endpoint.go:134`), and acknowledges no service to nobody.

### What the models show besides

These follow from the code, and the models have them, but no property is stated: a
document does not promise the contrary, or a state property could only repeat the
line.

* A login on another connection overwrites `onlines[id]`. The connection that was
  there is in neither map, and when it closes or logs out it takes the new one
  offline. `SessionsConsistent` is worded so as to allow it.
* The file is written without a limit and read up to 256 KiB. A larger database is
  lost at the next start.
* A line that ends in a character of several bytes loses its last word, and if it has
  no other word, `parts[0]` panics (`ExecutorPanics`). An open quote in it is not
  reported.
* In the endpoint's handlers, behind the lookups that fail with this server: `ev_close`
  tests `!ok` where it means `ok`, so it would leave an open local service and call
  `Uninit` on nil for one that is not there; ICE events would use an agent that no local
  service has; two readers could both find a service missing; a reader could put one
  into a map that the shell has just taken out. A server that fills in the two fields
  would make these happen.
* A reader that acknowledges an event waits for an answer that only it could read, and
  so always takes the whole timeout; meanwhile `Run` does not learn that its link broke.
* `GatherCandidates` calls itself without an end, so an `Init` that succeeds fills
  the stack (`InitGathers`). `Stop` without a writer blocks (`StopIsLost`). After a
  stop the reader blocks on `ch_err` for good: its goroutine is never freed. It reads the
  next packet into the buffer of which a taker may still have a slice.
* When the peer was silent for 15 s `hadStunChecking` stays set, and nothing is ever
  asked again (`GiveUp`).

## 8. Fairness

`SignalServer!Fairness`: a writer in its select takes what is ready and stops when
its channel is closed (weak: nothing else can disable it). A reader blocked on
`ch_receive` or `ch_close` is received if the server is at its select again and
again (strong: select picks at random among ready channels, and a channel serves
blocked senders in order). Nothing makes clients send or fail.

`SignalClient!Fairness`: each goroutine goes on when it can (weak); select does
not for ever neglect an exit that is ready, and a sender blocked on the queue gets
its turn (strong); a dial that is tried again and again succeeds some time
(strong: an assumption about the network). Nothing is assumed of the user, of
links staying up or of the server answering: the 3 s timeout is what makes commands
return.

`IceAgent!Fairness`: a write returns and `Uninit` goes on (weak); the writer's select
does not for ever neglect a stop, or the reader's error, that waits while there is always
data to send (strong). Nobody has to send or take data, and dialling may last for ever.

`StunConnection!Fairness`: time passes, and a goroutine whose timer has fired runs
(weak). Nothing is assumed of the peer. `Endpoint` has no liveness property: events
that wait for an answer are `SignalClient`'s.

## 9. What is proved

For all finite or infinite sets of users, names, connections, links, requests, readers
and goroutines, and every value of the switches unless it is named. The assumptions
are those that the modules declare: `Nobody`, `NoConn`, `None` and `Shell` are
outside the sets they complete, switches are Boolean, `MaxSize` is a
natural number, `QueueSize` is positive, the STUN durations are positive and
ordered as the code's are, the endpoint's commands are distinct words, and those about
services take as many parameters as in the code.

* `SignalDatabaseProofs`: each update keeps `Databases` and `Consistent`, under the
  checks its handler makes. The lemmas are used for the server and for the store.
* `SignalServerProofs`
  * `TypeCorrect`; `DatabaseStaysConsistent` (with the types, `Consistent` is
    inductive as it stands, given the lemmas above); `OnlineStaysRegistered`.
  * `ChannelOpenWhileReading`, `RepliesFindChannelOpen`: neither is inductive
    alone. A reply is found open because while `sends` is not empty the server
    closes nothing, and a request is received only from a reader whose channel is
    open; `ChannelInv` is their conjunction.
  * `SessionsStayConsistent`, `EventsReachTheirUsers`, `ServerNeverPanics`, under
    `ReLogin = FALSE`: an event that waits in `sends` is bound for the connection
    that is online under its user's id (`EventsConsistent`), and that connection's
    channel is open by `SessionsConsistent`; `SessionInv` carries both. Ping
    failures are allowed: they may block the server but not make it panic.
  * `ServerImplementsCatalogue`. Each request maps to a step of `Catalogue` or a
    stutter. It needs `Consistent`, and that the flags of a service that does not
    exist are clear (`FlagsCleared`).
  * `ServerImplementsStore`: each handler makes `Handle`'s checks and writes for a
    registered user, since whoever it takes to be online is registered. With it the
    next theorems are about the server's requests, not about assumed ones.
* `SignalStoreProofs`: `StoreTypeCorrect`; `StoreStaysConsistent`;
  `StoreIsLossyCheckpoint`, whatever fails. The mapping takes a save to happen at the
  truncation, since nobody can read the file before the write.
* `SignalClientProofs`
  * `TypeCorrect` is not inductive alone: a caller in `SendRequest` has a request
    (`CallsHoldRequests`), and so has a Run that has written (`TakenIsWritten`).
  * `NoSocketLeaks`: a link is the present one exactly between `Dial` and `RunEnds`
    (`LinkInv`), so whatever is open then is closed.
  * `RequestsAnsweredOnce`: a request that is being pushed, queued, written or
    pending is in one of these places only and has no response (`PlaceInv`). A
    response is put only into what is pending, which then is so no more.
  * `RunsEndOnlyWithALink`, without any assumption: a reader that holds an error has
    one of a link that is no longer open (`ReaderInv`), so a Run whose link is open can
    be ended by the error of another link's reader only. That this does happen is what
    `client_reconnect_loop` shows.
* `CommandLineProofs`: what the parser makes of lines of any length. These are
  inductions over the line. The library's induction theorems cannot be used, since they
  take a predicate; `NatsFromZero` and `SeqsFromEmpty` have a set in its place and come
  from the library's theorem that a set of numbers has a least element. That the loop
  and `FlattenSeq` can be unfolded is proved too (`ReadAllAppend`, `ReadAllConcat`,
  `FlattenAppend`).
  * `ParseType`.
  * `QuotedWordsAreRead`: any number of words, with any characters in them, are read
    again from the line that quotes them. Inside a quote the parser is in a state where
    the next character is not escaped, and each escaped character brings it back there
    (`InWord`); between quotes it holds nothing (`Between`).
  * `SpacesSeparateWords`: after each beginning of a plain line, the words that have
    ended and the item, if there is one, are those of that beginning, and the item
    reaches to its end (`Splits`).
  * `NothingIsLost`: what the parser has in its words and its item (`Held`) is the
    line so far, special characters aside.
  * `AWordIsFound`: whatever the last character is, it leaves an item, ends one, or has
    the line refused.
* `EndpointProofs`
  * `TypeCorrect`, which rests on `ParseType` and on what `Trimmed` leaves of a line.
  * `QuotingAlwaysWorks`, `SpacesAlwaysSeparate`, `NothingTypedIsEverLost`: the theorems
    above for the line that the shell has. `ShellAlwaysFindsCommand` needs moreover that
    this line is empty or ends in a character that is no space (`FoundInv`), which is
    what `TrimSpace` is for.
  * `HookAlwaysFindsService`: a command that has not failed has counted its
    parameters (`CountedInv`), which lasts until the hook has run. It holds whatever
    the parser makes of a line.
  * `NoEventEverPanics`, for any number of readers: no user has a service without a name
    and none is enabled (`NoNameless`), and what a reader handles names none
    (`Unaddressed`), so nothing is found. Enabling needs that what the hook adds is owned
    by its user, which outlives the step between `GoRun` and `PostRun` (`PanicInv`).
* `IceAgentProofs`: `TypeCorrect`, `WriterAlwaysHoldsConn`. Both goroutines and the
  connection begin in one step, and `Uninit` gets to `agent.Close` only after the writer
  took its stop (`PumpsInv`).
* `StunConnectionProofs`: `TypeCorrect`, `AtMostOneRetrier`, `RequestsKeepBeingSent`,
  `RetrierEndsWithAnswerOrSilence`, for all durations. A goroutine that lives has set
  the flag, so no second one starts (`RetrierSetsChecking`); what it has waited and
  has still to wait is at most the longest pause (`PausesBounded`). One that
  has asked and then finds a silence has no answer, since an answer ends the silence and
  no time passes in between (`SilentMeansUnanswered`).

Only model-checked: liveness under fairness, which TLAPS cannot do here, and the
violations. Every other property of the passing runs is a theorem.

## 10. Plan

Done in this order: `SignalDatabase`, `SignalServer`, `Catalogue`, `SignalStore`,
`Checkpoint`, `SignalClient`, `StunConnection`, `IceAgent`, `CommandLine`, `Endpoint`,
and the proofs about each. What is left:

1. `Signalling`: two clients and the server over the links, with an abstract
   channel between users. Properties: a client that shows itself online is online
   at the server (a late answer to a login breaks this now, `signalclient.go:289`),
   and an answer belongs to its request.
2. Proofs: that the flags of the client and the sessions of the server agree as
   far as they do.

## 11. What is not modelled, and why

* Passwords, salts, descriptions and times: values that are compared and stored. A
  comparison is a choice of the action. Tokens and their checks are called by
  nothing; as written, `VerifyTokenAndTime` accepts the tokens that have expired.
* Frames, deadlines, gob encoding, DTLS and certificates: libraries and I/O. An
  encoding is whole or does not decode.
* The client's `pending` and the endpoint's maps are used by two goroutines without
  a lock. Go may abort the process when it notices. The models have the other
  outcomes; an abort is a behaviour that stops.
* The gateway, peer connection, conference and user files have handlers that are
  empty or commented out; the gateway's is the one that would call `Connection`. The
  tcp, udp and websocket services pass packets from library callbacks on. The
  statistics and candidate wrappers of the ICE agent pass their arguments on.
* What a taker of `ch_recv` does with its slice of the shared buffer after the next
  packet: there is no taker in the program.
* Listener tables (`event.go`): the models have the calls that they make.
* Completion, help and printing.
