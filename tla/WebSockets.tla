----------------------------- MODULE WebSockets -----------------------------
(***************************************************************************)
(* The WebSocket side of the preview node (web_comm.cpp): the accept loop, *)
(* one detached thread per connection, the broadcast that serves them all  *)
(* and the stop.  A connection is known to its thread and to ws_clients_   *)
(* only by its descriptor, a number the kernel gives to the next           *)
(* connection as soon as it is closed.                                     *)
(* A name that PreviewNexus has too carries the prefix Socket.             *)
(***************************************************************************)
EXTENDS Naturals

CONSTANTS
  Connections,  \* bound: the connections clients ever make, by their place in the backlog
  MaxFd,        \* bound: descriptors are 1 .. MaxFd
  Nobody        \* a free descriptor denotes nobody

ASSUME SocketAssumption ==
  MaxFd \in Nat \ {0} /\ Connections \subseteq Nat /\ Nobody \notin Connections

Fds == 1 .. MaxFd

VARIABLES
  owner,      \* the kernel's table: the connection a descriptor denotes
  conn,       \* waiting in the backlog, open, gone (the peer left) or closed
  thread,     \* handleWebSocketClient of a connection and its descriptor
  clients,    \* ws_clients_
  running,    \* running_
  listening,  \* ws_server_socket_ >= 0
  accepting,  \* the accept loop has passed its test and polls
  receiving,  \* the connection a thread's recv is blocked on, or Nobody
  stalled,    \* the one whose full socket holds the broadcast and the mutex, or Nobody
  broken      \* history: a descriptor was closed under the thread it serves

socketVars == <<owner, conn, thread, clients, running, listening, accepting, receiving, stalled, broken>>

SocketTypeOK ==
  /\ owner \in [Fds -> Connections \cup {Nobody}]
  /\ conn \in [Connections -> {"waiting", "open", "gone", "closed"}]
  /\ thread \in [Connections ->
       [at : {"none", "handshake", "insert", "serve", "frame", "erase", "close", "done"},
        fd : Fds]]
  /\ clients \subseteq Fds
  /\ running \in BOOLEAN /\ listening \in BOOLEAN /\ accepting \in BOOLEAN
  /\ receiving \in [Connections -> Connections \cup {Nobody}]
  /\ stalled \in Connections \cup {Nobody} /\ broken \in BOOLEAN

SocketInit ==
  /\ owner = [f \in Fds |-> Nobody]
  /\ conn = [c \in Connections |-> "waiting"]
  /\ thread = [c \in Connections |-> [at |-> "none", fd |-> 1]]
  /\ clients = {}
  /\ running = TRUE /\ listening = TRUE /\ accepting = FALSE
  /\ receiving = [c \in Connections |-> Nobody]
  /\ stalled = Nobody /\ broken = FALSE

\* What keeps a connection open in the kernel: a number, or a call blocked on it,
\* which a close() of the number does not wake.
Held(c) ==
  \/ \E f \in Fds : owner[f] = c
  \/ \E d \in Connections : receiving[d] = c
  \/ stalled = c

KernelCloses ==
  conn' = [c \in Connections |->
             IF conn[c] \in {"open", "gone"} /\ ~Held(c)' THEN "closed" ELSE conn[c]]

\* Numbers are closed, whatever connection they denote by now.
Close(fds) ==
  /\ owner' = [f \in Fds |-> IF f \in fds THEN Nobody ELSE owner[f]]
  /\ UNCHANGED <<receiving, stalled>>
  /\ KernelCloses

Alive(f) == owner[f] # Nobody /\ conn[owner[f]] = "open"

SocketGoto(c, step) == thread' = [thread EXCEPT ![c].at = step]

-----------------------------------------------------------------------------
(* wsAcceptLoop                                                            *)

AcceptLoopTests ==
  /\ ~accepting /\ running /\ listening
  /\ accepting' = TRUE
  /\ UNCHANGED <<owner, conn, thread, clients, running, listening, receiving, stalled, broken>>

\* The lowest free number names the first of the backlog; its thread is detached.
Accept(c) ==
  /\ accepting /\ listening
  /\ conn[c] = "waiting" /\ \A d \in Connections : d < c => conn[d] # "waiting"
  /\ \E f \in Fds :
       /\ owner[f] = Nobody /\ \A g \in Fds : g < f => owner[g] # Nobody
       /\ owner' = [owner EXCEPT ![f] = c]
       /\ thread' = [thread EXCEPT ![c] = [at |-> "handshake", fd |-> f]]
  /\ conn' = [conn EXCEPT ![c] = "open"]
  /\ accepting' = FALSE
  /\ UNCHANGED <<clients, running, listening, receiving, stalled, broken>>

\* poll timed out or the listener is gone: test again.
AcceptLoopTurns ==
  /\ accepting
  /\ accepting' = FALSE
  /\ UNCHANGED <<owner, conn, thread, clients, running, listening, receiving, stalled, broken>>

-----------------------------------------------------------------------------
(* handleWebSocketClient                                                   *)

PeerLeaves(c) ==
  /\ conn[c] = "open"
  /\ conn' = [conn EXCEPT ![c] = "gone"]
  /\ UNCHANGED <<owner, thread, clients, running, listening, accepting, receiving, stalled, broken>>

\* recv in handleWebSocketClient and recvWebSocketMessage: without a timeout, on the
\* connection that the number denotes when it is called.
WaitInRecv(c) ==
  /\ thread[c].at \in {"handshake", "frame"} /\ receiving[c] = Nobody
  /\ Alive(thread[c].fd)
  /\ receiving' = [receiving EXCEPT ![c] = owner[thread[c].fd]]
  /\ UNCHANGED <<owner, conn, thread, clients, running, listening, accepting, stalled, broken>>

\* The peer has sent a request with a valid key, or the end of a frame, or only some
\* more of it.  (A message that is complete is carried out as PreviewNexus says.)
RecvReturns(c) ==
  /\ receiving[c] # Nobody /\ conn[receiving[c]] = "open"
  /\ receiving' = [receiving EXCEPT ![c] = Nobody]
  /\ \E step \in IF thread[c].at = "handshake" THEN {"insert"} ELSE {"serve", "frame"} :
       SocketGoto(c, step)
  /\ UNCHANGED <<owner, clients, running, listening, accepting, stalled, broken>>
  /\ KernelCloses

MutantRejectLeaks(c) ==
  /\ thread[c].at \in {"handshake", "frame"}
  /\ receiving[c] = Nobody => ~Alive(thread[c].fd)
  /\ receiving' = [receiving EXCEPT ![c] = Nobody]
  /\ SocketGoto(c, IF thread[c].at = "frame" THEN "erase" ELSE "done")
  /\ UNCHANGED <<owner, clients, running, listening, accepting, stalled, broken>>
  /\ KernelCloses

\* The number denotes nobody or one who left, the peer that a call waits for leaves,
\* or what it sends is refused: no valid key, a close frame, half a header.
RecvFails(c) ==
  /\ thread[c].at \in {"handshake", "frame"}
  /\ receiving[c] = Nobody => ~Alive(thread[c].fd)
  /\ receiving' = [receiving EXCEPT ![c] = Nobody]
  /\ SocketGoto(c, IF thread[c].at = "frame" THEN "erase" ELSE "close")
  /\ UNCHANGED <<owner, clients, running, listening, accepting, stalled, broken>>
  /\ KernelCloses

InsertClient(c) ==
  /\ thread[c].at = "insert" /\ stalled = Nobody
  /\ clients' = clients \cup {thread[c].fd}
  /\ SocketGoto(c, "serve")
  /\ UNCHANGED <<owner, conn, running, listening, accepting, receiving, stalled, broken>>

\* The loop's test has passed, and poll reports something to read, or an error.
StartFrame(c) ==
  /\ thread[c].at = "serve" /\ running
  /\ SocketGoto(c, "frame")
  /\ UNCHANGED <<owner, conn, clients, running, listening, accepting, receiving, stalled, broken>>

MutantServeForEver(c) ==
  /\ thread[c].at = "serve" /\ ~running /\ ~Alive(thread[c].fd)
  /\ SocketGoto(c, "erase")
  /\ UNCHANGED <<owner, conn, clients, running, listening, accepting, receiving, stalled, broken>>

\* The loop's test fails; it is made between two frames only.
StopServing(c) ==
  /\ thread[c].at = "serve" /\ ~running
  /\ SocketGoto(c, "erase")
  /\ UNCHANGED <<owner, conn, clients, running, listening, accepting, receiving, stalled, broken>>

MutantEraseAfterClose(c) ==
  /\ thread[c].at = "erase"
  /\ Close({thread[c].fd})
  /\ SocketGoto(c, "close")
  /\ UNCHANGED <<clients, running, listening, accepting, broken>>

EraseClient(c) ==
  /\ thread[c].at = "erase" /\ stalled = Nobody
  /\ clients' = clients \ {thread[c].fd}
  /\ SocketGoto(c, "close")
  /\ UNCHANGED <<owner, conn, running, listening, accepting, receiving, stalled, broken>>

CloseClient(c) ==
  /\ thread[c].at = "close"
  /\ Close({thread[c].fd})
  /\ SocketGoto(c, "done")
  /\ UNCHANGED <<clients, running, listening, accepting, broken>>

-----------------------------------------------------------------------------
(* broadcastToWebSockets and stop, both under ws_clients_mutex_            *)

\* A send to a peer that left may still succeed, one to a free number never does.
\* What failed is erased and closed although its thread will close it too.
BroadcastToWebSockets ==
  /\ running /\ stalled = Nobody
  /\ \E dead \in SUBSET {f \in clients : ~Alive(f)} :
       /\ {f \in clients : owner[f] = Nobody} \subseteq dead
       /\ dead # {}
       /\ clients' = clients \ dead
       /\ Close(dead)
  /\ broken' = TRUE
  /\ UNCHANGED <<thread, running, listening, accepting>>

\* The send to a client that does not read blocks, the mutex in hand.
BroadcastStalls ==
  /\ running /\ stalled = Nobody
  /\ \E f \in clients : Alive(f) /\ stalled' = owner[f]
  /\ UNCHANGED <<owner, conn, thread, clients, running, listening, accepting, receiving, broken>>

BroadcastGoesOn ==
  /\ stalled # Nobody
  /\ stalled' = Nobody
  /\ UNCHANGED <<owner, thread, clients, running, listening, accepting, receiving, broken>>
  /\ KernelCloses

StopBegins ==
  /\ running
  /\ running' = FALSE
  /\ UNCHANGED <<owner, conn, thread, clients, listening, accepting, receiving, stalled, broken>>

StopCloses ==
  /\ ~running /\ listening /\ stalled = Nobody
  /\ listening' = FALSE
  /\ clients' = {}
  /\ Close(clients)
  /\ broken' = (broken \/ clients # {})
  /\ UNCHANGED <<thread, running, accepting>>

-----------------------------------------------------------------------------
WaitsForPeer(c) == \E d \in Connections : receiving[c] = d /\ conn[d] = "open"

\* What a thread does by itself: it waits for no peer, or for one that left.
ThreadStep(c) ==
  \/ WaitInRecv(c)
  \/ ~WaitsForPeer(c) /\ RecvFails(c)
  \/ ~Alive(thread[c].fd) /\ StartFrame(c)
  \/ InsertClient(c)
  \/ StopServing(c)
  \/ EraseClient(c)
  \/ CloseClient(c)

SocketNext ==
  \/ AcceptLoopTests \/ AcceptLoopTurns
  \/ \E c \in Connections :
       \/ Accept(c) \/ PeerLeaves(c)
       \/ RecvReturns(c) \/ RecvFails(c) \/ StartFrame(c)
       \/ ThreadStep(c)
  \/ BroadcastToWebSockets \/ BroadcastStalls \/ BroadcastGoesOn
  \/ StopBegins \/ StopCloses

\* Threads that can run do run, a stop that began is finished and a send to a peer
\* that left fails.  A peer owes the node neither a request, nor the rest of a frame
\* it began, nor that it reads, nor a farewell.
SocketSpec ==
  /\ SocketInit /\ [][SocketNext]_socketVars
  /\ \A c \in Connections : WF_socketVars(ThreadStep(c))
  /\ WF_socketVars(StopCloses)
  /\ WF_socketVars((\E c \in Connections : stalled = c /\ conn[c] = "gone") /\ BroadcastGoesOn)

-----------------------------------------------------------------------------
(* Properties                                                              *)

Holds(c) == thread[c].at \in {"handshake", "insert", "serve", "frame", "erase", "close"}

\* Until a broadcast or the stop closes a descriptor under its thread, a thread
\* works on its own connection only, and the broadcast reaches exactly the
\* clients that are served.  (Afterwards the thread closes the same number a
\* second time, and by then it may denote another connection.)
ThreadsKeepToTheirOwn ==
  ~broken =>
    /\ \A c \in Connections :
         /\ Holds(c) => owner[thread[c].fd] = c
         /\ receiving[c] \in {c, Nobody}
    /\ clients = {thread[c].fd : c \in {d \in Connections :
                                          thread[d].at \in {"serve", "frame", "erase"}}}

\* A connection whose peer left is closed, whichever thread comes first: no
\* descriptor leaks, not even when numbers are used again and closed twice or a
\* thread is blocked on a connection that has lost its number - unless another
\* client stalls the broadcast and with it everybody.
GoneIsClosed ==
  \A c \in Connections : (conn[c] = "gone") ~> (conn[c] = "closed" \/ stalled # Nobody)

\* The peer that recvWebSocketMessage waits for, or would wait for.
Peer(c) == IF receiving[c] # Nobody THEN receiving[c] ELSE owner[thread[c].fd]

KeptInFrame(c) ==
  thread[c].at = "frame" /\ Peer(c) # Nobody /\ conn[Peer(c)] = "open"

\* After a stop every thread that serves a client ends, also one whose handshake
\* was answered when the set had been emptied already.  Two peers can prevent it,
\* and no one else: one that never reads and holds the broadcast for ever, and one
\* that begins a frame, stays connected and never completes it; the close() of its
\* number in stop() does not wake the recv.
ServiceEnds ==
  \A c \in Connections :
    (~running /\ thread[c].at \in {"insert", "serve", "frame", "erase"})
       ~> (thread[c].at = "done" \/ [](stalled # Nobody) \/ []KeptInFrame(c))

-----------------------------------------------------------------------------
(* The inductive invariant behind ThreadsKeepToTheirOwn.                    *)

\* Before it is accepted a connection has no thread, and so no descriptor.
WaitingIsUnserved == \A c \in Connections : conn[c] = "waiting" => thread[c].at = "none"

\* Only a thread that is in a recv is blocked in one.
ReadingIsInRecv ==
  \A c \in Connections : receiving[c] # Nobody => thread[c].at \in {"handshake", "frame"}

SocketInv == SocketTypeOK /\ WaitingIsUnserved /\ ReadingIsInRecv /\ ThreadsKeepToTheirOwn
=============================================================================
