----------------------------- MODULE HttpServer -----------------------------
(***************************************************************************)
(* hw4's web server: HttpServer::Run accepts connections and hands each to *)
(* the thread pool, whose threads run HttpServer_ThrFn on it; with them    *)
(* the parts of ServerSocket and HttpConnection that open, use and close   *)
(* descriptors.  The pool is TaskPool, which ThreadPool implements; a task *)
(* is a connection.                                                        *)
(*                                                                         *)
(* Descriptor numbers are explicit, because the server keeps some of them  *)
(* after it has closed them: the kernel gives the lowest free number to    *)
(* the next connection, or to a file that is served.  The descriptors that *)
(* a query has open are left out (QueryProcessor.tla).                     *)
(***************************************************************************)
EXTENDS Integers, SequencesExt

CONSTANTS Connections,   \* the clients' connections, one per client
          Workers,       \* the pool's threads
          Owner,         \* the thread in HttpServer::Run
          NoTask,        \* no connection
          NoRequest,     \* an HttpRequest that was not filled in
          MaxFd,         \* bound: the process's highest descriptor
          MaxParts,      \* bound: the parts of requests each client sends
          Closing        \* the clients whose requests say Connection: close

ASSUME BoundsAssumption ==
  MaxFd \in Nat \ {0} /\ MaxParts \in [Connections -> Nat] /\ Closing \subseteq Connections

ASSUME NamesAssumption ==
  NoTask \notin Connections /\ Connections \cap {"free", "listener", "file"} = {}

Executors == Workers \cup {Owner}
FD == 0..MaxFd

VARIABLES
  submitted, pending, active, finished, phase,  \* the thread pool
  run,        \* HttpServer::Run: binding, accepting, quitting or returned
  fds,        \* the descriptor table: "free", "listener", "file" or a connection
  listen_fd,  \* ServerSocket's listen_sock_fd_
  client_fd,  \* HttpServerTask's client_fd
  arrived,    \* the connections that clients have opened
  gone,       \* those whose client has closed its end
  inbox,      \* what the kernel holds for the server, per connection
  sent,       \* how many parts of requests each client has sent
  responses,  \* history: the parts of the requests answered on each connection
  pc,         \* where each thread is in HttpServer_ThrFn
  reading,    \* the connection a read call in progress holds
  buffer_,    \* HttpConnection's buffer_
  req,        \* the request being processed
  file_fd,    \* ReadFileToString's fd, -1 for none
  done        \* ThrFn's done

poolVars == <<submitted, pending, active, finished, phase>>
clientVars == <<arrived, gone, inbox, sent, responses>>
connVars == <<pc, reading, buffer_, req, file_fd, done>>
sockVars == <<run, fds, listen_fd, client_fd>>
vars == <<poolVars, clientVars, connVars, sockVars>>

Pool == INSTANCE TaskPool WITH Tasks <- Connections

FreeFds == {f \in FD : fds[f] = "free"}

Init ==
  /\ Pool!PoolInit
  /\ run = "binding"
  /\ fds = [f \in FD |-> "free"]
  /\ listen_fd = -1
  /\ client_fd = [c \in Connections |-> -1]
  /\ arrived = {} /\ gone = {}
  /\ inbox = [c \in Connections |-> <<>>]
  /\ sent = [c \in Connections |-> 0]
  /\ responses = [c \in Connections |-> <<>>]
  /\ pc = [e \in Executors |-> "idle"]
  /\ reading = [e \in Executors |-> NoTask]
  /\ buffer_ = [e \in Executors |-> <<>>]
  /\ req = [e \in Executors |-> NoRequest]
  /\ file_fd = [e \in Executors |-> -1]
  /\ done = [e \in Executors |-> FALSE]

-----------------------------------------------------------------------------
(* Clients.  A request is sent in parts, of which the last has the end of  *)
(* its header.  What is sent on a connection the server has closed is      *)
(* lost; a read in progress keeps its connection alive in the kernel.      *)
Closed(c) == c \in submitted /\ c \notin Range(fds) \cup Range(reading)

Connect(c) ==
  /\ c \notin arrived /\ run = "accepting"
  /\ arrived' = arrived \cup {c}
  /\ UNCHANGED <<gone, inbox, sent, responses, poolVars, connVars, sockVars>>

Send(c) ==
  /\ c \in arrived \ gone /\ sent[c] < MaxParts[c]
  /\ sent' = [sent EXCEPT ![c] = @ + 1]
  /\ \E end \in BOOLEAN :
       inbox' = IF Closed(c) THEN inbox
                ELSE [inbox EXCEPT ![c] = Append(@, [from |-> c, n |-> sent[c] + 1, end |-> end])]
  /\ UNCHANGED <<arrived, gone, responses, poolVars, connVars, sockVars>>

HangUp(c) ==
  /\ c \in arrived \ gone
  /\ gone' = gone \cup {c}
  /\ UNCHANGED <<arrived, inbox, sent, responses, poolVars, connVars, sockVars>>

-----------------------------------------------------------------------------
(* HttpServer::Run.  BindAndListen may fail at each of its calls, and      *)
(* closes what it has opened; the pool is made when it has succeeded.      *)
BindAndListen ==
  /\ run = "binding"
  /\ \/ /\ fds' = [fds EXCEPT ![Min(FreeFds)] = "listener"]
        /\ listen_fd' = Min(FreeFds) /\ run' = "accepting"
     \/ run' = "returned" /\ UNCHANGED <<fds, listen_fd>>
  /\ UNCHANGED <<client_fd, poolVars, clientVars, connVars>>

(* ServerSocket::Accept.  accept fails with the descriptors exhausted, or  *)
(* for reasons of the network.                                             *)
FaultyAccept(c) ==
  /\ run = "accepting" /\ c \in arrived \ submitted /\ FreeFds # {}
  /\ fds' = [fds EXCEPT ![Min(FreeFds)] = c]
  /\ client_fd' = [client_fd EXCEPT ![c] = 0]
  /\ Pool!Submit(c)
  /\ UNCHANGED <<run, listen_fd, clientVars, connVars>>

Accept(c) ==
  /\ run = "accepting" /\ c \in arrived \ submitted /\ FreeFds # {}
  /\ fds' = [fds EXCEPT ![Min(FreeFds)] = c]
  /\ client_fd' = [client_fd EXCEPT ![c] = Min(FreeFds)]
  /\ Pool!Submit(c)
  /\ UNCHANGED <<run, listen_fd, clientVars, connVars>>

AcceptFails ==
  /\ run = "accepting"
  /\ fds' = [fds EXCEPT ![listen_fd] = "free"]
  /\ run' = "quitting"
  /\ UNCHANGED <<listen_fd, client_fd, poolVars, clientVars, connVars>>

(* The client's name cannot be looked up: its connection is closed, and    *)
(* Run takes the false for a reason to quit.                               *)
LookupFails(c) ==
  /\ run = "accepting" /\ c \in arrived \ submitted /\ FreeFds # {}
  /\ arrived' = arrived \ {c}
  /\ run' = "quitting"
  /\ UNCHANGED <<fds, listen_fd, client_fd, gone, inbox, sent, responses, poolVars, connVars>>

(* Run is left: the pool is destroyed, then, with the server object, the   *)
(* ServerSocket.                                                           *)
DestroyPool ==
  /\ run = "quitting"
  /\ Pool!BeginClose \/ Pool!EndClose
  /\ UNCHANGED <<clientVars, connVars, sockVars>>

DestroySocket ==
  /\ run = "quitting" /\ phase = "closed"
  /\ fds' = IF listen_fd # -1 THEN [fds EXCEPT ![listen_fd] = "free"] ELSE fds
  /\ listen_fd' = -1
  /\ run' = "returned"
  /\ UNCHANGED <<client_fd, poolVars, clientVars, connVars>>

-----------------------------------------------------------------------------
(* HttpServer_ThrFn, on the thread e.  Each pass of its loop makes a new   *)
(* HttpConnection of the same number, with an empty buffer_.               *)
Start(e) ==
  /\ Pool!Start(e)
  /\ pc' = [pc EXCEPT ![e] = "read"]
  /\ done' = [done EXCEPT ![e] = FALSE]
  /\ UNCHANGED <<reading, buffer_, req, file_fd, clientVars, sockVars>>

Fd(e) == client_fd[active[e]]

(* ParseRequest keeps header names in lower case. *)
ParseRequest(request) ==
  [parts |-> [k \in DOMAIN request |-> <<request[k].from, request[k].n>>],
   headers |-> [name \in {"connection" : c \in {part.from : part \in Range(request)} \cap Closing} |-> "close"]]

GetHeaderValue(r, name) == IF name \in DOMAIN r.headers THEN r.headers[name] ELSE ""

(* GetNextRequest's read: the number is looked up when the call is made;   *)
(* a blocked call keeps the connection it found, if the number is closed.  *)
CallRead(e) ==
  /\ pc[e] = "read"
  /\ fds[Fd(e)] \in Connections
  /\ reading' = [reading EXCEPT ![e] = fds[Fd(e)]]
  /\ pc' = [pc EXCEPT ![e] = "reading"]
  /\ UNCHANGED <<buffer_, req, file_fd, done, clientVars, poolVars, sockVars>>

(* The part of buffer_ in which the first header ends, 0 if there is none. *)
HeaderEnd(buffer) == SelectInSeq(buffer, LAMBDA part : part.end)

FaultyTaken(c, k) == inbox[c]
Taken(c, k) == SubSeq(inbox[c], k + 1, Len(inbox[c]))

(* It brings one or more of the parts that wait.  Without the end of a     *)
(* header the loop reads again; with it, what follows stays in buffer_.    *)
ReadReturns(e) ==
  /\ pc[e] = "reading"
  /\ LET c == reading[e] IN
       \E k \in DOMAIN inbox[c] :
         LET buffer == buffer_[e] \o SubSeq(inbox[c], 1, k)
             split == HeaderEnd(buffer)
         IN /\ inbox' = [inbox EXCEPT ![c] = Taken(c, k)]
            /\ buffer_' = [buffer_ EXCEPT ![e] = SubSeq(buffer, split + 1, Len(buffer))]
            /\ IF split = 0
               THEN pc' = [pc EXCEPT ![e] = "read"] /\ UNCHANGED req
               ELSE /\ pc' = [pc EXCEPT ![e] = "process"]
                    /\ req' = [req EXCEPT ![e] = ParseRequest(SubSeq(buffer, 1, split))]
  /\ reading' = [reading EXCEPT ![e] = NoTask]
  /\ UNCHANGED <<file_fd, done, arrived, gone, sent, responses, poolVars, sockVars>>

FaultyReadFails(e) ==
  /\ \/ pc[e] = "read" /\ fds[Fd(e)] \notin Connections
     \/ pc[e] = "reading" /\ reading[e] \in gone /\ inbox[reading[e]] = <<>>
  /\ pc' = [pc EXCEPT ![e] = "close"]
  /\ reading' = [reading EXCEPT ![e] = NoTask]
  /\ UNCHANGED <<buffer_, req, file_fd, done, clientVars, poolVars, sockVars>>

(* read returns 0 at the end of the stream, -1 on a number that is free.   *)
(* On another thread's file it brings no request.                          *)
ReadFails(e) ==
  /\ \/ pc[e] = "read" /\ fds[Fd(e)] \notin Connections
     \/ pc[e] = "reading" /\ reading[e] \in gone /\ inbox[reading[e]] = <<>>
  /\ pc' = [pc EXCEPT ![e] = "close"]
  /\ reading' = [reading EXCEPT ![e] = NoTask]
  /\ done' = [done EXCEPT ![e] = TRUE]
  /\ UNCHANGED <<buffer_, req, file_fd, clientVars, poolVars, sockVars>>

(* ProcessRequest: a query, or a file that cannot be opened, needs no      *)
(* descriptor here; a file that is served has one until it has been read.  *)
ProcessRequest(e) ==
  /\ pc[e] = "process"
  /\ \/ pc' = [pc EXCEPT ![e] = "respond"] /\ UNCHANGED <<fds, file_fd>>
     \/ /\ FreeFds # {}
        /\ fds' = [fds EXCEPT ![Min(FreeFds)] = "file"]
        /\ file_fd' = [file_fd EXCEPT ![e] = Min(FreeFds)]
        /\ pc' = [pc EXCEPT ![e] = "file"]
  /\ UNCHANGED <<reading, buffer_, req, done, run, listen_fd, client_fd, poolVars, clientVars>>

(* ReadFileToString's read and close.  The number may no longer be the     *)
(* file's: the read fails if it is free, without a close, and if it is a   *)
(* connection, it takes what the client has sent.                          *)
ReadFile(e) ==
  /\ pc[e] = "file"
  /\ LET fd == file_fd[e] IN
       \/ fds[fd] \notin Connections \cup {"file"} /\ UNCHANGED <<fds, inbox>>
       \/ fds[fd] = "file" /\ fds' = [fds EXCEPT ![fd] = "free"] /\ UNCHANGED inbox
       \/ /\ fds[fd] \in Connections
          /\ \/ \E k \in DOMAIN inbox[fds[fd]] : inbox' = [inbox EXCEPT ![fds[fd]] = Taken(fds[fd], k)]
             \/ fds[fd] \in gone /\ inbox[fds[fd]] = <<>> /\ UNCHANGED inbox
          /\ fds' = [fds EXCEPT ![fd] = "free"]
  /\ file_fd' = [file_fd EXCEPT ![e] = -1]
  /\ pc' = [pc EXCEPT ![e] = "respond"]
  /\ UNCHANGED <<reading, buffer_, req, done, arrived, gone, sent, responses, run, listen_fd, client_fd, poolVars>>

(* WriteResponse fails on a number that is not a connection's, and may     *)
(* fail once the client is gone.                                           *)
WriteResponse(e) ==
  /\ pc[e] = "respond"
  /\ fds[Fd(e)] \in Connections
  /\ responses' = [responses EXCEPT ![fds[Fd(e)]] = @ \o req[e].parts]
  /\ pc' = [pc EXCEPT ![e] = "close"]
  /\ done' = [done EXCEPT ![e] = GetHeaderValue(req[e], "Connection") = "close"]
  /\ UNCHANGED <<reading, buffer_, req, file_fd, arrived, gone, inbox, sent, poolVars, sockVars>>

FaultyWriteFails(e) ==
  /\ pc[e] = "respond"
  /\ fds[Fd(e)] \in Connections => fds[Fd(e)] \in gone
  /\ Pool!Finish(e)
  /\ UNCHANGED <<connVars, clientVars, sockVars>>

WriteFails(e) ==
  /\ pc[e] = "respond"
  /\ fds[Fd(e)] \in Connections => fds[Fd(e)] \in gone
  /\ pc' = [pc EXCEPT ![e] = "close"]
  /\ done' = [done EXCEPT ![e] = TRUE]
  /\ UNCHANGED <<reading, buffer_, req, file_fd, clientVars, poolVars, sockVars>>

FaultyDestroyConnection(e) ==
  /\ pc[e] = "close"
  /\ fds' = IF done[e] THEN fds ELSE [fds EXCEPT ![Fd(e)] = "free"]
  /\ buffer_' = [buffer_ EXCEPT ![e] = <<>>]
  /\ IF done[e]
     THEN Pool!Finish(e) /\ pc' = [pc EXCEPT ![e] = "idle"] /\ req' = [req EXCEPT ![e] = NoRequest]
     ELSE UNCHANGED poolVars /\ pc' = [pc EXCEPT ![e] = "read"] /\ UNCHANGED req
  /\ UNCHANGED <<reading, file_fd, done, run, listen_fd, client_fd, clientVars>>

(* The end of the loop body destroys the HttpConnection: its descriptor is *)
(* closed, whatever it names by now, and its buffer_ is lost.  done        *)
(* decides whether the loop goes round again.                              *)
DestroyConnection(e) ==
  /\ pc[e] = "close"
  /\ fds' = [fds EXCEPT ![Fd(e)] = "free"]
  /\ buffer_' = [buffer_ EXCEPT ![e] = <<>>]
  /\ IF done[e]
     THEN Pool!Finish(e) /\ pc' = [pc EXCEPT ![e] = "idle"] /\ req' = [req EXCEPT ![e] = NoRequest]
     ELSE UNCHANGED poolVars /\ pc' = [pc EXCEPT ![e] = "read"] /\ UNCHANGED req
  /\ UNCHANGED <<reading, file_fd, done, run, listen_fd, client_fd, clientVars>>

GetNextRequest(e) == CallRead(e) \/ ReadReturns(e) \/ ReadFails(e)

ThrFn(e) ==
  \/ GetNextRequest(e) \/ ProcessRequest(e) \/ ReadFile(e)
  \/ WriteResponse(e) \/ WriteFails(e) \/ DestroyConnection(e)
Server ==
  \/ \E c \in Connections : Accept(c) \/ LookupFails(c)
  \/ BindAndListen \/ AcceptFails \/ DestroyPool \/ DestroySocket
Client(c) == Connect(c) \/ Send(c) \/ HangUp(c)

Over == run = "returned" /\ UNCHANGED vars

Next ==
  \/ \E c \in Connections : Client(c)
  \/ Server
  \/ \E e \in Executors : Start(e) \/ ThrFn(e)
  \/ Over

Spec == Init /\ [][Next]_vars

(* Threads are scheduled and clients hang up in the end; whether accept    *)
(* ever fails is left open.                                                *)
Fairness ==
  /\ \A c \in Connections : WF_vars(HangUp(c))
  /\ WF_vars(DestroyPool) /\ WF_vars(DestroySocket)
  /\ WF_vars(\E e \in Executors : Start(e))
  /\ \A e \in Executors : WF_vars(ThrFn(e))

FairSpec == Spec /\ Fairness

-----------------------------------------------------------------------------
Parts == [from : Connections, n : Nat, end : BOOLEAN]

TypeOK ==
  /\ submitted \in SUBSET Connections /\ pending \in Seq(Connections)
  /\ active \in [Executors -> Connections \cup {NoTask}]
  /\ run \in {"binding", "accepting", "quitting", "returned"}
  /\ fds \in [FD -> {"free", "listener", "file"} \cup Connections]
  /\ listen_fd \in {-1} \cup FD /\ client_fd \in [Connections -> {-1} \cup FD]
  /\ inbox \in [Connections -> Seq(Parts)] /\ buffer_ \in [Executors -> Seq(Parts)]
  /\ pc \in [Executors -> {"idle", "read", "reading", "process", "file", "respond", "close"}]
  /\ \A e \in Executors : pc[e] = "idle" <=> active[e] = NoTask
  /\ reading \in [Executors -> Connections \cup {NoTask}]
  /\ \A e \in Executors : pc[e] = "reading" <=> reading[e] # NoTask
  /\ \A e \in Executors : IF pc[e] = "file" THEN file_fd[e] \in FD ELSE file_fd[e] = -1

(* However threads and descriptors get mixed up, no part of a request is   *)
(* answered twice, neither on its own connection nor on another, nor as a  *)
(* part of two requests.                                                   *)
NoRequestAnsweredTwice ==
  \A c, d \in Connections : \A j \in DOMAIN responses[c], k \in DOMAIN responses[d] :
    responses[c][j] = responses[d][k] => c = d /\ j = k

(* A number a thread still closes after it was freed never is that of the  *)
(* listening socket: the server cannot close the socket it accepts on.     *)
(* And listen_sock_fd_, which is closed twice when accept has failed, is   *)
(* nobody else's number the second time: the pool has been destroyed.      *)
ListenerSurvives ==
  /\ run = "accepting" => fds[listen_fd] = "listener"
  /\ run = "quitting" /\ phase = "closed" => fds[listen_fd] \in {"listener", "free"}

(* Every accepted connection is eventually closed, by whichever thread     *)
(* holds its number: descriptors do not leak.                              *)
EveryConnectionIsClosed ==
  \A c \in Connections : (c \in submitted) ~> Closed(c)

(* Once accept has failed, the destruction of the pool ends and Run        *)
(* returns, with every accepted connection's task executed.                *)
RunReturns == (run = "quitting") ~> (run = "returned" /\ finished = submitted)

-----------------------------------------------------------------------------
(* HttpServer.cc:124: a thread processes "the next request from our        *)
(* current client", never one that came on another connection.             *)
ServesItsOwnClient ==
  \A e \in Executors : req[e] # NoRequest => \A k \in DOMAIN req[e].parts : req[e].parts[k][1] = active[e]
=============================================================================
