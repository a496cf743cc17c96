---------------------------- MODULE OperatorServer ----------------------------
(***************************************************************************)
(* The gateway of m20_adapter/operator_server.py: a web thread per request *)
(* and one Android thread put requests into a bounded queue and wait, each *)
(* for a limited time, for an answer of their own; the bridge's executor   *)
(* drains the queue in its tick.  What a request does to the lease is      *)
(* module OperatorControl's; here it is either carried out or refused.     *)
(* A name that OperatorBridge has too carries the prefix Server.           *)
(***************************************************************************)
EXTENDS Integers, Sequences

CONSTANTS
  Web, Android,   \* the requests, by the way they come
  QueueMax,       \* commands = Queue(maxsize = 32)
  ServerDrainMax, \* 32 requests per drain
  Expiry,         \* drain: 0.25
  WebWait,        \* result.get(timeout = 1.0)
  AndroidWait     \* result.get(timeout = 0.3)

ServerRequests == Web \cup Android

ASSUME ServerAssumption ==
  /\ Web \cap Android = {}
  /\ QueueMax \in Nat \ {0} /\ ServerDrainMax \in Nat \ {0}
  /\ Expiry \in Nat /\ WebWait \in Nat /\ AndroidWait \in 0 .. WebWait /\ Expiry < AndroidWait

VARIABLES
  client,     \* how far each request has come, seen from its thread
  age,        \* now - received: for how long it has been in the gateway
  answer,     \* its result queue
  commands,   \* OperatorServer.commands
  executor,   \* where the bridge's executor is
  taken,      \* requests taken by this drain
  running,    \* OperatorServer.running
  ended,      \* the process has ended, and its threads with it
  effect,     \* for the properties: what the lease did with each request
  spent       \* for the properties: how long the drain has been on each request

serverVars == <<client, age, answer, commands, executor, taken, running, ended, effect, spent>>

\* No one waits longer than a web thread: times are told apart up to there.
Times == 0 .. WebWait

Idle == [at |-> "idle"]

Get == [at |-> "get"]

\* new: not sent yet; buffered: a datagram the Android thread has not read.
Client == {"new", "buffered", "waiting", "ok", "refused", "busy", "lost"}

Told == {"ok", "refused", "busy"}

ServerTypeOK ==
  /\ client \in [ServerRequests -> Client]
  /\ age \in [ServerRequests -> Times]
  /\ answer \in [ServerRequests -> {"none", "ok", "refused"}]
  /\ commands \in Seq(ServerRequests) /\ Len(commands) <= QueueMax
  /\ executor \in {Idle, Get} \cup
       [at : {"check", "handle"}, request : ServerRequests] \cup
       [at : {"put"}, request : ServerRequests, result : {"ok", "refused"}]
  /\ taken \in 0 .. ServerDrainMax
  /\ running \in BOOLEAN /\ ended \in BOOLEAN
  /\ effect \in [ServerRequests -> {"none", "done"}]
  /\ spent \in [ServerRequests -> Times]

ServerInit ==
  /\ client = [r \in ServerRequests |-> "new"]
  /\ age = [r \in ServerRequests |-> 0]
  /\ answer = [r \in ServerRequests |-> "none"]
  /\ commands = <<>>
  /\ executor = Idle
  /\ taken = 0
  /\ running = TRUE /\ ended = FALSE
  /\ effect = [r \in ServerRequests |-> "none"]
  /\ spent = [r \in ServerRequests |-> 0]

threads == <<client, age>>
drain == <<executor, taken, answer, effect>>

-----------------------------------------------------------------------------
(* The gateway's threads                                                   *)

\* put_nowait: into the queue, or queue.Full, which a web client is told and an
\* Android client is not.
PutNowait(r) ==
  IF Len(commands) < QueueMax
  THEN /\ commands' = Append(commands, r)
       /\ age' = [age EXCEPT ![r] = 0]
       /\ client' = [client EXCEPT ![r] = "waiting"]
  ELSE /\ client' = [client EXCEPT ![r] = IF r \in Web THEN "busy" ELSE "lost"]
       /\ UNCHANGED <<commands, age>>

\* do_POST, in a thread of its own, as long as serve_forever accepts.
Post(r) ==
  /\ running
  /\ r \in Web /\ client[r] = "new"
  /\ PutNowait(r)
  /\ UNCHANGED <<drain, running, ended, spent>>

Datagram(r) ==
  /\ ~ended
  /\ r \in Android /\ client[r] = "new"
  /\ client' = [client EXCEPT ![r] = "buffered"]
  /\ UNCHANGED <<age, commands, drain, running, ended, spent>>

\* android_loop reads the next datagram only when it has done with the last.
ReadDatagram(r) ==
  /\ ~ended
  /\ running
  /\ client[r] = "buffered"
  /\ \A a \in Android : client[a] # "waiting"
  /\ PutNowait(r)
  /\ UNCHANGED <<drain, running, ended, spent>>

GetAnswer(r) ==
  /\ ~ended
  /\ client[r] = "waiting" /\ answer[r] # "none"
  /\ client' = [client EXCEPT ![r] = answer[r]]
  /\ UNCHANGED <<age, commands, drain, running, ended, spent>>

MutantWaitOver(r) == FALSE

WaitOver(r) == age[r] >= (IF r \in Web THEN WebWait ELSE AndroidWait)

\* queue.Empty: a web client is told that the gateway is busy.
GiveUp(r) ==
  /\ ~ended
  /\ client[r] = "waiting" /\ answer[r] = "none"
  /\ WaitOver(r)
  /\ client' = [client EXCEPT ![r] = IF r \in Web THEN "busy" ELSE "lost"]
  /\ UNCHANGED <<age, commands, drain, running, ended, spent>>

-----------------------------------------------------------------------------
(* drain(), in the bridge's tick                                           *)

StartDrain ==
  /\ running
  /\ executor = Idle
  /\ executor' = Get
  /\ taken' = 0
  /\ UNCHANGED <<threads, answer, commands, running, ended, effect, spent>>

GetNowait ==
  /\ executor = Get
  /\ IF taken = ServerDrainMax \/ commands = <<>>
     THEN executor' = Idle /\ UNCHANGED <<taken, commands>>
     ELSE /\ executor' = [at |-> "check", request |-> Head(commands)]
          /\ commands' = Tail(commands)
          /\ taken' = taken + 1
  /\ UNCHANGED <<threads, answer, running, ended, effect, spent>>

MutantExpired(r) == age[r] > WebWait

ServerExpired(r) == age[r] > Expiry

CheckExpiry ==
  /\ executor.at = "check"
  /\ executor' = IF ServerExpired(executor.request)
                 THEN [at |-> "put", request |-> executor.request, result |-> "refused"]
                 ELSE [at |-> "handle", request |-> executor.request]
  /\ UNCHANGED <<threads, answer, commands, taken, running, ended, effect, spent>>

\* control.handle carries the request out, or raises ValueError or TypeError.
HandleRequest ==
  /\ executor.at = "handle"
  /\ \E result \in {"ok", "refused"} :
       /\ executor' = [at |-> "put", request |-> executor.request, result |-> result]
       /\ effect' = IF result = "ok" THEN [effect EXCEPT ![executor.request] = "done"]
                    ELSE effect
  /\ UNCHANGED <<threads, answer, commands, taken, running, ended, spent>>

PutAnswer ==
  /\ executor.at = "put"
  /\ answer' = [answer EXCEPT ![executor.request] = executor.result]
  /\ executor' = Get
  /\ UNCHANGED <<threads, commands, taken, running, ended, effect, spent>>

\* A signal ends the drain where it is, and close() stops the threads' loops.
ServerClose ==
  /\ running
  /\ running' = FALSE
  /\ executor' = Idle
  /\ UNCHANGED <<threads, answer, commands, taken, ended, effect, spent>>

\* main returns, and the interpreter ends the threads where they are: they are
\* daemons, close() joins only serve_forever and android_loop, for two seconds at
\* most, and a second signal ends that wait too.
ServerExit ==
  /\ ~running /\ ~ended
  /\ ended' = TRUE
  /\ UNCHANGED <<threads, drain, commands, running, spent>>

InDrain(r) == executor.at \in {"handle", "put"} /\ executor.request = r

InGateway(r) == \/ client[r] = "waiting"
                \/ \E i \in DOMAIN commands : commands[i] = r
                \/ executor.at \in {"check", "handle", "put"} /\ executor.request = r

Later(time) == IF time < WebWait THEN time + 1 ELSE time

ServerAdvance ==
  /\ ~ended
  /\ age' = [r \in ServerRequests |-> IF InGateway(r) THEN Later(age[r]) ELSE age[r]]
  /\ spent' = [r \in ServerRequests |-> IF InDrain(r) THEN Later(spent[r]) ELSE spent[r]]
  /\ UNCHANGED <<client, commands, drain, running, ended>>

Drain == StartDrain \/ GetNowait \/ CheckExpiry \/ HandleRequest \/ PutAnswer

Thread(r) == Post(r) \/ Datagram(r) \/ ReadDatagram(r) \/ GetAnswer(r) \/ GiveUp(r)

ServerNext == (\E r \in ServerRequests : Thread(r)) \/ Drain
              \/ ServerClose \/ ServerExit \/ ServerAdvance

\* A thread that can go on does, and so does the clock, until the process ends.
\* Nothing is asked of the bridge's executor, which may stay in a callback.
ServerFairness ==
  /\ \A r \in ServerRequests : WF_serverVars(GetAnswer(r) \/ GiveUp(r))
  /\ WF_serverVars(ServerAdvance)

ServerSafetySpec == ServerInit /\ [][ServerNext]_serverVars

ServerSpec == ServerSafetySpec /\ ServerFairness

-----------------------------------------------------------------------------
(* Properties                                                              *)

Margin(r) == (IF r \in Web THEN WebWait ELSE AndroidWait) - Expiry

\* While the gateway runs, a request that its client has given up is carried out
\* only if carrying it out took longer than the waiting time leaves over the expiry.
GhostIsSlow ==
  running => \A r \in ServerRequests :
    client[r] \in {"busy", "lost"} /\ effect[r] = "done" => spent[r] >= Margin(r)

\* do_POST leaves no web client without a word while its process lives: the request
\* is answered or refused in the end, also when the executor never takes it from the
\* queue, hangs in it or is interrupted, and also after close().  Only the end of
\* the process, which kills the thread in its result.get, leaves one unanswered.
EveryPostIsAnswered ==
  \A r \in Web : client[r] = "waiting" ~> client[r] \in Told \/ ended
=============================================================================
