------------------------------ MODULE Endpoint ------------------------------
(***************************************************************************)
(* The shared endpoint of client and server (endpoint.go, server.go,       *)
(* client.go) with its table of local services (localservice.go).          *)
(*                                                                         *)
(* The shell's goroutine takes a line, parses it (CommandLine), runs the   *)
(* command and then a hook, which on a server adds a service to the table  *)
(* or takes it out.  The readers of the signal client, one for each link   *)
(* that it has had and not all of them gone, handle the events of remote   *)
(* peers, which look local services up in that table.  They all share the  *)
(* table and the client's id without a lock.                               *)
(*                                                                         *)
(* What a command does at the signal client and server is SignalClient and *)
(* SignalServer; here are the conditions of both for the commands that     *)
(* matter to the endpoint, and the responses that the server forwards.     *)
(* Any command may fail.  A user's services at the server are changed by   *)
(* this endpoint only.  The endpoint never initialises a local service: it *)
(* has no socket and no ICE agent.                                         *)
(*                                                                         *)
(* Go's runtime may abort the process when it notices two goroutines in    *)
(* one map; an abort is a behaviour that stops.  A definition marked       *)
(* "Faulty" is no part of the endpoint: it is what the definition after it *)
(* would be with a plausible mistake.                                      *)
(***************************************************************************)
EXTENDS CommandLine

CONSTANTS
  Lines,      \* what the user may type
  Arity,      \* the words that are commands, with the parameters they take
  CreateService, RemoveService, EnableService, DisableService, Login, Logout,   \* some of these commands
  Exit, Help, \* words that the shell handles itself
  IsServer,   \* a server's endpoint, or a client's
  Readers,    \* goroutines that read of a link
  Users,      \* ids under which the user may be logged in
  Nobody      \* the empty id

ASSUME WordsAssumption ==
  /\ Lines \subseteq Word
  /\ DOMAIN Arity \subseteq Word
  /\ \A w \in DOMAIN Arity : Arity[w] \in Nat
  /\ {CreateService, RemoveService, EnableService, DisableService} \subseteq DOMAIN Arity
  /\ EnableService \notin {CreateService, RemoveService, DisableService, Login, Logout}
  /\ DisableService \notin {CreateService, RemoveService, Login, Logout}
  /\ CreateService \notin {RemoveService, Login, Logout}
  /\ RemoveService \notin {Login, Logout}
  /\ Login # Logout
  /\ Help \notin DOMAIN Arity
ASSUME CountsAssumption ==
  Arity[CreateService] = 3 /\ Arity[RemoveService] = 2 /\ Arity[EnableService] = 2 /\ Arity[DisableService] = 2
ASSUME IdsAssumption == Nobody \notin Users /\ IsServer \in BOOLEAN

Events == {"ice-open", "ice-open-ack", "ice-close", "ice-close-ack", "ice-auth", "ice-candidate"}
Opening == {"ice-open", "ice-open-ack"}
Closing == {"ice-close", "ice-close-ack"}
Acknowledged == {"ice-open", "ice-close"}

VARIABLES
  process,   \* runs, has exited, or what it died of
  stage,     \* of the shell: at its prompt, with a line, or with a result
  line,
  parts,     \* the words of the command that has run
  failed,    \* it returned an error
  id,        \* SignalClient.id
  online,    \* SignalClient.online
  owned,     \* the services of each user at the signal server
  enabled,   \* the keys of Endpoint.services
  items,     \* the LocalServiceDB.items of all of them
  readers    \* what each reader is doing, about which response

shell == <<stage, line, parts, failed>>
session == <<id, online, owned>>
vars == <<process, shell, session, enabled, items, readers>>

Ids == Users \cup {Nobody}

\* A local service with its key, own id and peer.
Item == [name : Word, own : Ids, peer : Ids, mode : {"client", "server"}]

Response == [event : Events, serviceName : Word, fromId : Ids]

NoResponse == [event |-> "none", serviceName |-> <<>>, fromId |-> Nobody]
Idle == [at |-> "idle", resp |-> NoResponse, new |-> {}]

TypeOK ==
  /\ process \in {"running", "exited", "no word", "no parameter", "nil service", "nil agent"}
  /\ stage \in {"prompt", "typed", "ran"}
  /\ line \in Word
  /\ parts \in Seq(Word)
  /\ failed \in BOOLEAN
  /\ stage = "ran" => parts # <<>> /\ parts[1] \in DOMAIN Arity
  /\ stage = "ran" /\ ~failed => Len(parts) = 1 + Arity[parts[1]]
  /\ id \in Ids
  /\ online \in BOOLEAN
  /\ online => id # Nobody
  /\ owned \in [Users -> SUBSET Word]
  /\ enabled \subseteq Word
  /\ items \subseteq Item
  /\ readers \in [Readers -> [at : {"idle", "fired", "checked", "answering", "acking"},
                            resp : Response \cup {NoResponse},
                            new : SUBSET Item]]

Init ==
  /\ process = "running"
  /\ stage = "prompt" /\ line = <<>> /\ parts = <<>> /\ failed = FALSE
  /\ id = Nobody /\ online = FALSE
  /\ owned = [u \in Users |-> {}]
  /\ enabled = {} /\ items = {}
  /\ readers = [r \in Readers |-> Idle]

-----------------------------------------------------------------------------
(* The shell. *)

\* strings.TrimSpace.
Trimmed(l) ==
  LET kept == {k \in DOMAIN l : l[k] # Space}
  IN  IF kept = {} THEN <<>> ELSE SubSeq(l, Min(kept), Max(kept))

Type ==
  /\ stage = "prompt"
  /\ stage' = "typed"
  /\ \E l \in Lines : line' = Trimmed(l)
  /\ UNCHANGED <<process, parts, failed, session, enabled, items, readers>>

ToPrompt == stage' = "prompt" /\ line' = <<>> /\ parts' = <<>> /\ failed' = FALSE

Parsed == ParseCommandLine(line)

IsExist(word) == word \in DOMAIN Arity \cup {Help}

\* Nothing to do: a line that is refused, an empty or unknown command, help.
Dismiss ==
  /\ stage = "typed"
  /\ \/ line = <<>>
     \/ ~Parsed.ok
     \/ /\ Parsed.parts # <<>>
        /\ Parsed.parts[1] \in {<<>>, Help} \/ ~IsExist(Parsed.parts[1])
  /\ line # Exit
  /\ ToPrompt
  /\ UNCHANGED <<process, session, enabled, items, readers>>

Leave ==
  /\ stage = "typed"
  /\ line = Exit
  /\ process' = "exited"
  /\ UNCHANGED <<shell, session, enabled, items, readers>>

\* parts[0] is read of a line without any.
ExecutorPanics ==
  /\ stage = "typed"
  /\ line \notin {<<>>, Exit}
  /\ Parsed.ok
  /\ Parsed.parts = <<>>
  /\ process' = "no word"
  /\ UNCHANGED <<shell, session, enabled, items, readers>>

\* Faulty: more parameters are accepted.
CountedAtLeast(words) == Len(words) >= 1 + Arity[words[1]]

Counted(words) == Len(words) = 1 + Arity[words[1]]

\* Faulty: a service may have the empty name.
AnyName(name) == TRUE

\* CreateService's check.
ValidName(name) == name # <<>>

\* What must hold for a command to succeed, and what it does then: the checks of
\* the signal client and of the server.
Succeed(words) ==
  LET command == words[1] IN
  \/ /\ command = Login /\ ~online
     /\ id' \in Users /\ online' = TRUE
     /\ UNCHANGED owned
  \/ /\ command = Logout /\ online
     /\ id' = Nobody /\ online' = FALSE
     /\ UNCHANGED owned
  \/ /\ command = CreateService /\ online /\ ValidName(words[2]) /\ words[2] \notin owned[id]
     /\ owned' = [owned EXCEPT ![id] = @ \cup {words[2]}]
     /\ UNCHANGED <<id, online>>
  \/ /\ command = RemoveService /\ online /\ words[2] \in owned[id]
     /\ owned' = [owned EXCEPT ![id] = @ \ {words[2]}]
     /\ UNCHANGED <<id, online>>
  \/ /\ command \in {EnableService, DisableService} /\ online /\ words[2] \in owned[id]
     /\ UNCHANGED session
  \/ /\ command \notin {CreateService, RemoveService, EnableService, DisableService, Login, Logout}
     /\ UNCHANGED session

\* GoRun: each command checks how many parameters it gets, and succeeds or not.
GoRun ==
  /\ stage = "typed"
  /\ line # Exit
  /\ Parsed.ok
  /\ Parsed.parts # <<>>
  /\ Parsed.parts[1] \in DOMAIN Arity
  /\ stage' = "ran"
  /\ line' = <<>>
  /\ parts' = Parsed.parts
  /\ \/ failed' = TRUE /\ UNCHANGED session
     \/ failed' = FALSE /\ Counted(Parsed.parts) /\ Succeed(Parsed.parts)
  /\ UNCHANGED <<process, enabled, items, readers>>

AddTable(n) ==
  /\ enabled' = enabled \cup {n}
  /\ UNCHANGED <<items, readers>>

\* Uninit of local services that were never initialised changes nothing.  The map
\* is gone with what is in it, and with what a reader is about to put into it.
DropTable(n) ==
  /\ enabled' = enabled \ {n}
  /\ items' = {i \in items : i.name # n}
  /\ readers' = [r \in Readers |-> [readers[r] EXCEPT !.new = {i \in @ : i.name # n}]]

\* Faulty: also after a command that failed.
HooksAnyway == IsServer /\ parts[1] \in {EnableService, DisableService}

\* Server.PostRunSignal; a client's hook does nothing.
Hooks == IsServer /\ ~failed /\ parts[1] \in {EnableService, DisableService}

PostRun ==
  /\ stage = "ran"
  /\ Hooks => Len(parts) >= 2
  /\ IF Hooks
       THEN IF parts[1] = EnableService THEN AddTable(parts[2]) ELSE DropTable(parts[2])
       ELSE UNCHANGED <<enabled, items, readers>>
  /\ ToPrompt
  /\ UNCHANGED <<process, session>>

\* params[1] is read of a command without any.
HookPanics ==
  /\ stage = "ran"
  /\ Hooks
  /\ Len(parts) < 2
  /\ process' = "no parameter"
  /\ UNCHANGED <<shell, session, enabled, items, readers>>

\* The end of Run, when a link breaks: the user is no longer online, and id stays.
GoOffline ==
  /\ online
  /\ online' = FALSE
  /\ UNCHANGED <<process, shell, id, owned, enabled, items, readers>>

-----------------------------------------------------------------------------
(* The readers: OnRemoteEvent. *)

\* Faulty: the response says which service it is about, and who sent it.
Addressed(event, name, sender) == [event |-> event, serviceName |-> name, fromId |-> sender]

\* ForwardServiceData of the server makes the request about a service into a
\* response of which it sets Event alone.
ForwardServiceData(event, name, sender) ==
  [event |-> event, serviceName |-> <<>>, fromId |-> Nobody]

\* The services that a remote peer may have joined.
Services == UNION {owned[u] : u \in Users}

\* A reader gets a response that is an event, about a service of this user or of
\* another one.  An open or a close goes to the owner of its service.
Arrive(r, event) ==
  /\ readers[r].at = "idle"
  /\ \E n \in Services \cup {<<>>}, u \in Users :
       /\ event \in Acknowledged => n \in Services
       /\ readers' = [readers EXCEPT ![r].at = "fired",
                                     ![r].resp = ForwardServiceData(event, n, u)]
  /\ UNCHANGED <<process, shell, session, enabled, items>>

Found(resp) == resp.serviceName \in enabled

ItemsOf(resp) == {i \in items : i.name = resp.serviceName /\ i.own = id /\ i.peer = resp.fromId}

\* The provider of a service connects to it as a client, the requester serves it
\* to its own user.
NewService(resp) ==
  [name |-> resp.serviceName, own |-> id, peer |-> resp.fromId,
   mode |-> IF resp.event = "ice-open" THEN "client" ELSE "server"]

\* The lookups.  A close tests !ok where an item is there, and calls Uninit on the
\* service that is not; the agent that OnIceAuth and OnIceCandidate use is one that
\* no local service has.
Check(r) ==
  LET resp == readers[r].resp IN
  /\ readers[r].at = "fired"
  /\ readers' = [readers EXCEPT ![r] =
       [at |-> IF resp.event \in Acknowledged THEN "answering" ELSE "checked",
        resp |-> NoResponse,
        new |-> IF Found(resp) /\ resp.event \in Opening /\ ItemsOf(resp) = {}
                  THEN {NewService(resp)}
                  ELSE {}]]
  /\ process' =
       IF Found(resp) /\ resp.event \in Closing /\ ItemsOf(resp) = {}
         THEN "nil service"
       ELSE IF Found(resp) /\ resp.event \notin Opening \cup Closing /\ ItemsOf(resp) # {}
         THEN "nil agent"
       ELSE process
  /\ UNCHANGED <<shell, session, enabled, items>>

KeyOf(item) == <<item.name, item.own, item.peer>>

\* What was found missing is put in, whatever has been put there meanwhile.  Open
\* and close are acknowledged, whatever became of them.
Put(r) ==
  LET new == readers[r].new IN
  /\ readers[r].at \in {"checked", "answering"}
  /\ items' = {i \in items : KeyOf(i) \notin {KeyOf(n) : n \in new}} \cup new
  /\ readers' = [readers EXCEPT ![r] =
       IF readers[r].at = "answering" THEN [Idle EXCEPT !.at = "acking"] ELSE Idle]
  /\ UNCHANGED <<process, shell, session, enabled>>

\* SendRequest returns, with an answer or after its timeout.
Acknowledge(r) ==
  /\ readers[r].at = "acking"
  /\ readers' = [readers EXCEPT ![r] = Idle]
  /\ UNCHANGED <<process, shell, session, enabled, items>>

-----------------------------------------------------------------------------

Shell == Type \/ Dismiss \/ Leave \/ ExecutorPanics \/ GoRun \/ PostRun \/ HookPanics

Reader(r) ==
  \/ \E event \in Events : Arrive(r, event)
  \/ Check(r) \/ Put(r) \/ Acknowledge(r)

Next == process = "running" /\ (Shell \/ GoOffline \/ \E r \in Readers : Reader(r))

Spec == Init /\ [][Next]_vars

-----------------------------------------------------------------------------
(* Properties. *)

\* Whatever two words there are, empty ones and such that hold quotes, spaces and
\* backslashes included, there is a line that means them: each in quotes
\* (utils.go:49-117).
QuotingWorks ==
  \A k \in 0..Len(line) :
    LET words == <<SubSeq(line, 1, k), SubSeq(line, k + 1, Len(line))>>
    IN  ParseCommandLine(LineOf(words)) = [ok |-> TRUE, parts |-> words]

\* A line without other special characters is its words between spaces, however
\* many spaces there are, unless its last character has several bytes.
SpacesSeparate ==
  EndNoticed(line) /\ (\A k \in DOMAIN line : line[k] \notin Special \ {Space}) =>
    Parsed.ok /\ ArePlainWords(line, Parsed.parts)

\* A line that is not refused keeps what was typed, in its order, with the same
\* exception: quotes that are never closed are refused (utils.go:96-107).
NothingTypedIsLost ==
  EndNoticed(line) /\ Parsed.ok =>
    Ordinary(FlattenSeq(Parsed.parts)) = Ordinary(line)

\* The hook finds a service name: it runs only after the command has succeeded,
\* which counted its parameters (server.go:33-38, signalclient.go:333-336).
HookFindsService == process # "no parameter"

\* The shell finds a command in a line that is not empty, but in that same
\* exception (endpoint.go:191).
ShellFindsCommand == process = "no word" => ~EndNoticed(line)

\* No event kills the process: a close or ICE data for a service of the table would,
\* when no local service or one without an agent is there (endpoint.go:85-94,
\* 145-147), and whether a peer sends them is not up to this endpoint.  It rests on
\* the server, which forwards no service name (signalserver.go:483-484), and for
\* which no service is nameless (signalserver.go:352-354), so that the shell can
\* enable none that such an event would find, whatever it is told to.
NoEventPanics == process \notin {"nil service", "nil agent"}

-----------------------------------------------------------------------------
(* What the code means to do and does not do. *)

\* "service provider should start client-mode" (endpoint.go:134): when a peer opens
\* the services of this endpoint's user, who is online and has all of them enabled
\* here, the provider's local service is started.
OpenStartsService ==
  [][\A r \in Readers :
       /\ readers[r].at = "fired" /\ readers'[r].at = "answering"
       /\ readers[r].resp.event = "ice-open"
       /\ online /\ Services # {} /\ Services \subseteq enabled
       => \E i \in items \cup readers'[r].new : i.name \in Services /\ i.own = id]_vars

=============================================================================
