-------------------------------- MODULE Rpc --------------------------------
(***************************************************************************)
(* The service and its clients: RpcManager (rpcmanager.cpp) over the pipes *)
(* of ControlManager and ControlWorker (controlmanager.cpp,                *)
(* controlworker.cpp), with the clients' sides of the managers             *)
(* (confmanagerrpc.cpp, drivermanagerrpc.cpp).                             *)
(*                                                                         *)
(* A client asks the service to do something and reads its pipe until an   *)
(* answer is there or 700 ms have passed without a message.  The same pipe *)
(* brings notifications, which keep the client's copy of the state of the  *)
(* driver and of the configuration up to date; flags that its user         *)
(* switches it has in its own copy before it asks.  An answer does not say *)
(* which request it answers.  Every process has one thread.                *)
(***************************************************************************)
EXTENDS Naturals, FiniteSets, Sequences, SequencesExt

CONSTANTS
  Clients,
  Values,       \* of the flags, and of the options, of a configuration
  MaxSessions, MaxCalls, MaxChanges  \* bounds, of all together: connections, calls, changes of the driver

VARIABLES
  isDeviceOpened,      \* the service: DriverManager
  conf,                \* and ConfManager, memory and storage: [flags, options]
  hasPassword,         \* the settings are protected by a password; never changed here
  isServiceClient, isClientValidated,  \* the service: ControlWorker of a client
  toServer, toClient,  \* [Clients -> Seq of messages on the pipe]
  client,              \* [Clients -> "none", "starting", "idle" or "waiting"]
  clientOpened, clientConf,            \* a client's copies
  m_resultCommand,     \* [Clients -> CommandNone, or the number of the call answered]
  call,                \* [Clients -> [n, stray]]: its last call
  mixed,               \* history: a call took the answer of another one for its own
  missed,              \* history: the configuration changed before the client was known
  refused,             \* history: flags the client has in its own copy were not taken
  sessions, changes

serverVars == <<isDeviceOpened, conf, hasPassword, isServiceClient, isClientValidated>>
clientVars == <<client, clientOpened, clientConf, m_resultCommand, call, mixed>>
vars == <<serverVars, clientVars, toServer, toClient, missed, refused, sessions, changes>>

CommandNone == 0

(* The calls of number n: flags are saved from the client's own copy (the  *)
(* tray, the window of programs) or, like options, from an edited one.     *)
Requests(n) ==
  [cmd : {"save"}, part : {"flags"}, own : BOOLEAN, value : Values, n : {n}]
    \cup [cmd : {"save"}, part : {"options"}, own : {FALSE}, value : Values, n : {n}]
    \cup [cmd : {"checkPassword"}]

Own(r) == r.cmd = "save" /\ r.own

Init ==
  /\ isDeviceOpened = FALSE
  /\ \E v \in Values : conf = [flags |-> v, options |-> v]
  /\ hasPassword \in BOOLEAN
  /\ isServiceClient = [c \in Clients |-> FALSE]
  /\ isClientValidated = [c \in Clients |-> FALSE]
  /\ toServer = [c \in Clients |-> <<>>] /\ toClient = [c \in Clients |-> <<>>]
  /\ client = [c \in Clients |-> "none"]
  /\ clientOpened = [c \in Clients |-> FALSE]
  /\ clientConf = [c \in Clients |-> conf]
  /\ m_resultCommand = [c \in Clients |-> CommandNone]
  /\ call = [c \in Clients |-> [n |-> 0, stray |-> FALSE]]
  /\ mixed = FALSE
  /\ missed = [c \in Clients |-> FALSE] /\ refused = [c \in Clients |-> FALSE]
  /\ sessions = 0 /\ changes = 0

-----------------------------------------------------------------------------
(* The service. *)

(* Mistake: who asked for a change is not told of it. *)
Listeners_ButAsker(asker) == { c \in Clients : isServiceClient[c] /\ c # asker }

(* sendCommandDataToClients *)
Listeners(asker) == { c \in Clients : isServiceClient[c] }

(* invokeOnClients, then the answer to the client that asked. *)
Send(asker, news, answer) ==
  toClient' = [c \in Clients |->
    toClient[c] \o (IF c \in Listeners(asker) THEN news ELSE <<>>)
                \o (IF c = asker THEN answer ELSE <<>>)]

StateNews(opened) == <<[type |-> "state", opened |-> opened]>>

(* toPatchVariant: the flags, or an order to load everything. *)
ConfNews(part, value) ==
  IF part = "flags" THEN <<[type |-> "flags", flags |-> value]>> ELSE <<[type |-> "reload"]>>

(* Mistake: a new client is not told of the driver's state. *)
Welcome_Silent == <<>>

(* initClientOnServer *)
Welcome == StateNews(isDeviceOpened)

InitClient(c) ==
  /\ isServiceClient' = [isServiceClient EXCEPT ![c] = TRUE]
  /\ Send(c, <<>>, Welcome)
  /\ UNCHANGED <<isDeviceOpened, conf, hasPassword, isClientValidated, missed, refused>>

(* validateClient: no answer is sent. *)
CheckPassword(c) ==
  /\ \E ok \in BOOLEAN :
        isClientValidated' = [isClientValidated EXCEPT ![c] = @ \/ ok]
  /\ UNCHANGED <<isDeviceOpened, conf, hasPassword, isServiceClient, toClient, missed, refused>>

(* checkClientValidated *)
IsValidated(c) == ~ hasPassword \/ isClientValidated[c]

(* Nor is one when the client is not validated.                            *)
Refuse(c, r) ==
  /\ ~ IsValidated(c)
  /\ refused' = [refused EXCEPT ![c] = @ \/ Own(r)]
  /\ UNCHANGED <<serverVars, toClient, missed>>

(* ConfManager::saveVariant, applySavedConf, confChanged; the clients are  *)
(* told before the answer is sent.  The storage of options may fail.       *)
SaveConf(c, r) ==
  /\ IsValidated(c)
  /\ \/ /\ conf' = [conf EXCEPT ![r.part] = r.value]
        /\ Send(c, ConfNews(r.part, r.value), <<[type |-> "result", n |-> r.n]>>)
        /\ missed' = [k \in Clients |->
              missed[k] \/ (client[k] \in {"idle", "waiting"} /\ ~ isServiceClient[k])]
     \/ /\ r.part = "options"
        /\ Send(c, <<>>, <<[type |-> "result", n |-> r.n]>>)
        /\ UNCHANGED <<conf, missed>>
  /\ UNCHANGED <<isDeviceOpened, hasPassword, isServiceClient, isClientValidated, refused>>

(* processCommandRpc *)
Serve(c) ==
  LET r == Head(toServer[c])
  IN /\ toServer[c] # <<>>
     /\ toServer' = [toServer EXCEPT ![c] = Tail(@)]
     /\ \/ r.cmd = "initClient" /\ InitClient(c)
        \/ r.cmd = "checkPassword" /\ CheckPassword(c)
        \/ r.cmd = "save" /\ (Refuse(c, r) \/ SaveConf(c, r))
     /\ UNCHANGED <<clientVars, sessions, changes>>

(* DriverManager::isDeviceOpenedChanged: all who are known are told. *)
DriverChange ==
  /\ changes < MaxChanges
  /\ changes' = changes + 1
  /\ isDeviceOpened' = ~ isDeviceOpened
  /\ toClient' = [c \in Clients |->
        toClient[c] \o (IF isServiceClient[c] THEN StateNews(~ isDeviceOpened) ELSE <<>>)]
  /\ UNCHANGED <<conf, hasPassword, isServiceClient, isClientValidated, clientVars, toServer, missed, refused, sessions>>

-----------------------------------------------------------------------------
(* A client. *)

(* setupClient: it connects and says who it is. *)
Connect(c) ==
  /\ client[c] = "none" /\ sessions < MaxSessions
  /\ sessions' = sessions + 1
  /\ client' = [client EXCEPT ![c] = "starting"]
  /\ clientOpened' = [clientOpened EXCEPT ![c] = FALSE]
  /\ toServer' = [toServer EXCEPT ![c] = <<[cmd |-> "initClient"]>>]
  /\ m_resultCommand' = [m_resultCommand EXCEPT ![c] = CommandNone]
  /\ UNCHANGED <<serverVars, clientConf, call, mixed, toClient, missed, refused, changes>>

(* FortManager::loadConf, the end of its start: from the storage. *)
LoadConf(c) ==
  /\ client[c] = "starting"
  /\ client' = [client EXCEPT ![c] = "idle"]
  /\ clientConf' = [clientConf EXCEPT ![c] = conf]
  /\ UNCHANGED <<serverVars, clientOpened, m_resultCommand, call, mixed, toServer, toClient, missed, refused, sessions, changes>>

Has(msgs, type) == \E k \in DOMAIN msgs : msgs[k].type = type

(* Answers are still to come for calls that were given up. *)
Owed(c) ==
  \/ \E k \in DOMAIN toServer[c] : toServer[c][k].cmd = "save"
  \/ Has(toClient[c], "result")

(* Mistake: the last result is still there. *)
Forget_Kept(c) == m_resultCommand[c]

(* The begin of waitResult. *)
Forget(c) == CommandNone

(* doOnServer.  Before it, saveTrayFlags and the like have set the flags   *)
(* of the client's own configuration; nothing takes that back.             *)
DoOnServer(c) ==
  /\ client[c] = "idle" /\ FoldFunction(LAMBDA a, n : a.n + n, 0, call) < MaxCalls
  /\ \E r \in Requests(call[c].n + 1) :
       /\ toServer' = [toServer EXCEPT ![c] = Append(@, r)]
       /\ clientConf' = IF Own(r) THEN [clientConf EXCEPT ![c].flags = r.value] ELSE clientConf
  /\ call' = [call EXCEPT ![c] = [n |-> @.n + 1, stray |-> Owed(c)]]
  /\ m_resultCommand' = [m_resultCommand EXCEPT ![c] = Forget(c)]
  /\ client' = [client EXCEPT ![c] = "waiting"]
  /\ UNCHANGED <<serverVars, clientOpened, mixed, toClient, missed, refused, sessions, changes>>

(* Of messages that are read one after the other, some replace what those  *)
(* before them have brought: the last of them, or "own" without one.       *)
LastOf(msgs, types, own) ==
  LET at == { k \in DOMAIN msgs : msgs[k].type \in types }
  IN IF at = {} THEN own ELSE msgs[Max(at)]

(* The configuration after messages: onConfChanged takes the flags, or     *)
(* loads everything.                                                       *)
ConfAfter(own, msgs) ==
  LET m == LastOf(msgs, {"flags", "reload"}, [type |-> "flags", flags |-> own.flags])
  IN [flags |-> IF m.type = "reload" THEN conf.flags ELSE m.flags,
      options |-> IF Has(msgs, "reload") THEN conf.options ELSE own.options]

(* updateState *)
OpenedAfter(own, msgs) == LastOf(msgs, {"state"}, [type |-> "state", opened |-> own]).opened

(* setResult *)
ResultAfter(own, msgs) == LastOf(msgs, {"result"}, [type |-> "result", n |-> own]).n

(* processRequest reads all that has come in; waitResult looks at the      *)
(* result after that.                                                      *)
Read(c) ==
  /\ client[c] \in {"idle", "waiting"} /\ toClient[c] # <<>>
  /\ \E n \in 1 .. Len(toClient[c]) :
       LET msgs == SubSeq(toClient[c], 1, n)
           result == ResultAfter(m_resultCommand[c], msgs)
           returns == client[c] = "waiting" /\ result # CommandNone
       IN /\ toClient' = [toClient EXCEPT ![c] = SubSeq(@, n + 1, Len(@))]
          /\ clientConf' = [clientConf EXCEPT ![c] = ConfAfter(@, msgs)]
          /\ clientOpened' = [clientOpened EXCEPT ![c] = OpenedAfter(@, msgs)]
          /\ missed' = [missed EXCEPT ![c] = @ /\ ~ Has(msgs, "reload")]
          /\ refused' = [refused EXCEPT ![c] = @ /\ ~ Has(msgs, "reload") /\ ~ Has(msgs, "flags")]
          /\ m_resultCommand' = [m_resultCommand EXCEPT ![c] = result]
          /\ client' = [client EXCEPT ![c] = IF returns THEN "idle" ELSE @]
          /\ mixed' = (mixed \/ (returns /\ result # call[c].n /\ ~ call[c].stray))
  /\ UNCHANGED <<serverVars, call, toServer, sessions, changes>>

(* waitForRead: 700 ms have passed and nothing has come. *)
Timeout(c) ==
  /\ client[c] = "waiting" /\ toClient[c] = <<>>
  /\ client' = [client EXCEPT ![c] = "idle"]
  /\ UNCHANGED <<serverVars, clientOpened, clientConf, m_resultCommand, call, mixed, toServer, toClient, missed, refused, sessions, changes>>

(* The client's process ends; the service hears of it: onDisconnected. *)
Disconnect(c) ==
  /\ client[c] # "none"
  /\ client' = [client EXCEPT ![c] = "none"]
  /\ toServer' = [toServer EXCEPT ![c] = <<>>] /\ toClient' = [toClient EXCEPT ![c] = <<>>]
  /\ isServiceClient' = [isServiceClient EXCEPT ![c] = FALSE]
  /\ isClientValidated' = [isClientValidated EXCEPT ![c] = FALSE]
  /\ missed' = [missed EXCEPT ![c] = FALSE] /\ refused' = [refused EXCEPT ![c] = FALSE]
  /\ UNCHANGED <<isDeviceOpened, conf, hasPassword, clientOpened, clientConf, m_resultCommand, call, mixed, sessions, changes>>

Next ==
  \/ DriverChange
  \/ \E c \in Clients :
       \/ Serve(c)
       \/ Connect(c) \/ LoadConf(c) \/ DoOnServer(c) \/ Read(c) \/ Timeout(c) \/ Disconnect(c)

Spec == Init /\ [][Next]_vars

-----------------------------------------------------------------------------
(* A call returns the result of its own request, whatever notifications    *)
(* come in between and however they are read, unless answers to calls that *)
(* were given up were still to come when it began.                         *)
AnswersMatch == ~ mixed

Up(c) == client[c] \in {"idle", "waiting"} /\ isServiceClient[c]

(* What is under way to a client brings it to the service's state of the   *)
(* driver, from its first connection on.                                   *)
StateFollows ==
  \A c \in Clients : Up(c) => OpenedAfter(clientOpened[c], toClient[c]) = isDeviceOpened

(* Flags the client has set in its own copy are still to be served.        *)
Asked(c) == \E k \in DOMAIN toServer[c] : Own(toServer[c][k])

(* ... and to the service's configuration, its own changes included, for   *)
(* which it relies on the notification; but for a change between the load  *)
(* and the service's hearing of the client, and for flags that the client  *)
(* has switched itself and that the service has not served or has refused. *)
ConfFollows ==
  \A c \in Clients : Up(c) =>
    LET own == ConfAfter(clientConf[c], toClient[c])
    IN \/ missed[c]
       \/ /\ own.options = conf.options
          /\ own.flags = conf.flags \/ Asked(c) \/ refused[c]
=============================================================================
