-------------------------- MODULE HttpServerProofs --------------------------
(***************************************************************************)
(* Safety of HttpServer for every set of connections, every number of      *)
(* threads, every size of the descriptor table and any number of parts     *)
(* that clients send.  The inductive invariant has four layers, each       *)
(* proved from the ones before it: TypeOK; the Ledger of the pool's tasks  *)
(* and of the numbers kept outside the descriptor table; ListenerInv, which*)
(* says whose number that of the listening socket is not; and PartsInv,    *)
(* which says that a part of a request is in one place at a time.          *)
(***************************************************************************)
EXTENDS HttpServer, OperatorLemmas, SequenceTheorems

(* Tasks are those of submitted connections, whose numbers are known; the  *)
(* pool is open as long as Run accepts, and idle when it is closed.        *)
Ledger ==
  /\ phase \in {"open", "closing", "closed"}
  /\ pending \in Seq(submitted)
  /\ \A e \in Executors : active[e] \in submitted \cup {NoTask}
  /\ \A c \in submitted : client_fd[c] \in FD
  /\ phase = "closed" => \A e \in Executors : active[e] = NoTask
  /\ run \in {"binding", "accepting"} => phase = "open"
  /\ run = "binding" => submitted = {} /\ listen_fd = -1 /\ \A f \in FD : fds[f] = "free"
  /\ run \in {"accepting", "quitting"} => listen_fd \in FD
  /\ sent \in [Connections -> Nat]
  /\ file_fd \in [Executors -> {-1} \cup FD]

-----------------------------------------------------------------------------
(* accept and open take a number that is free.                             *)
LEMMA FreeFdIsFree ==
  ASSUME TypeOK, FreeFds # {}
  PROVE  Min(FreeFds) \in FD /\ fds[Min(FreeFds)] = "free"
<1>1. FreeFds \in SUBSET Nat
  BY BoundsAssumption DEF FreeFds, FD
<1>2. Min(FreeFds) \in FreeFds
  BY <1>1, LeastNatural
<1> QED BY <1>2 DEF FreeFds

(* The end of a header is found inside the buffer, or not at all.          *)
LEMMA HeaderEndInBuffer ==
  ASSUME NEW b \in Seq(Parts)
  PROVE  HeaderEnd(b) \in 0..Len(b)
<1> DEFINE I == {k \in 1..Len(b) : b[k].end}
<1>1. I \in SUBSET Nat /\ Len(b) \in Nat
  OBVIOUS
<1>2. I # {} => Min(I) \in I
  <2> HIDE DEF I
  <2> QED BY <1>1, LeastNatural
<1>3. HeaderEnd(b) = IF I # {} THEN Min(I) ELSE 0
  BY DEF HeaderEnd, SelectInSeq
<1> QED BY <1>1, <1>2, <1>3

LEMMA InitTypes == Init => TypeOK /\ Ledger
<1> USE BoundsAssumption, NamesAssumption
<1> SUFFICES ASSUME Init PROVE TypeOK /\ Ledger
  OBVIOUS
<1>1. \A S : <<>> \in Seq(S)
  OBVIOUS
<1> QED BY <1>1 DEF Init, TypeOK, Ledger, Pool!PoolInit, Pool!Executors, Executors, FD

LEMMA TypesStep == ASSUME TypeOK, Ledger, [Next]_vars PROVE TypeOK' /\ Ledger'
<1> USE NamesAssumption DEF vars, poolVars, clientVars, connVars, sockVars
<1>1. ASSUME NEW c \in Connections, Connect(c) PROVE TypeOK' /\ Ledger'
  BY <1>1 DEF Connect, TypeOK, Ledger
<1>2. ASSUME NEW c \in Connections, Send(c) PROVE TypeOK' /\ Ledger'
  <2>1. inbox' \in [Connections -> Seq(Parts)]
    <3>1. PICK end \in BOOLEAN :
            inbox' = IF Closed(c) THEN inbox
                     ELSE [inbox EXCEPT ![c] = Append(@, [from |-> c, n |-> sent[c] + 1, end |-> end])]
      BY <1>2 DEF Send
    <3>2. [from |-> c, n |-> sent[c] + 1, end |-> end] \in Parts
      BY DEF Parts, Ledger
    <3>3. ASSUME NEW part \in Parts PROVE Append(inbox[c], part) \in Seq(Parts)
      BY DEF TypeOK
    <3> QED BY <3>1, <3>2, <3>3 DEF TypeOK
  <2> QED BY <1>2, <2>1 DEF Send, TypeOK, Ledger
<1>3. ASSUME NEW c \in Connections, HangUp(c) PROVE TypeOK' /\ Ledger'
  BY <1>3 DEF HangUp, TypeOK, Ledger
<1>4. ASSUME NEW c \in Connections, Accept(c) PROVE TypeOK' /\ Ledger'
  <2>1. pending' \in Seq(submitted') /\ pending' \in Seq(Connections)
    <3>1. pending \in Seq(submitted') /\ c \in submitted' /\ submitted' \in SUBSET Connections
      BY <1>4, SeqMonotonic DEF Accept, Pool!Submit, TypeOK, Ledger
    <3> QED BY <1>4, <3>1, AppendProperties, SeqMonotonic DEF Accept, Pool!Submit
  <2>2. Min(FreeFds) \in FD
    BY <1>4, FreeFdIsFree DEF Accept
  <2> QED BY <1>4, <2>1, <2>2 DEF Accept, Pool!Submit, TypeOK, Ledger
<1>5. ASSUME NEW c \in Connections, LookupFails(c) PROVE TypeOK' /\ Ledger'
  BY <1>5 DEF LookupFails, TypeOK, Ledger
<1>6. CASE BindAndListen
  <2>1. run = "binding" /\ UNCHANGED <<client_fd, poolVars, clientVars, connVars>>
    BY <1>6 DEF BindAndListen
  <2>2. CASE run' = "returned" /\ UNCHANGED <<fds, listen_fd>>
    BY <2>1, <2>2 DEF TypeOK, Ledger
  <2>3. CASE /\ fds' = [fds EXCEPT ![Min(FreeFds)] = "listener"]
             /\ listen_fd' = Min(FreeFds) /\ run' = "accepting"
    <3>1. FreeFds # {}
      BY <2>1, BoundsAssumption DEF Ledger, FreeFds, FD
    <3>2. Min(FreeFds) \in FD
      BY <3>1, FreeFdIsFree
    <3> QED BY <2>1, <2>3, <3>2 DEF TypeOK, Ledger
  <2> QED BY <1>6, <2>2, <2>3 DEF BindAndListen
<1>7. CASE AcceptFails
  BY <1>7 DEF AcceptFails, TypeOK, Ledger
<1>8. CASE DestroyPool
  BY <1>8 DEF DestroyPool, Pool!BeginClose, Pool!EndClose, Pool!Executors, Executors, TypeOK, Ledger
<1>9. CASE DestroySocket
  BY <1>9 DEF DestroySocket, TypeOK, Ledger
<1>10. ASSUME NEW e \in Executors, Start(e) PROVE TypeOK' /\ Ledger'
  BY <1>10 DEF Start, Pool!Start, Pool!Executors, Executors, TypeOK, Ledger
<1>11. ASSUME NEW e \in Executors, CallRead(e) PROVE TypeOK' /\ Ledger'
  BY <1>11 DEF CallRead, TypeOK, Ledger
<1>12. ASSUME NEW e \in Executors, ReadReturns(e) PROVE TypeOK' /\ Ledger'
  <2> DEFINE c == reading[e]
  <2>1. c \in Connections
    BY <1>12 DEF ReadReturns, TypeOK
  <2>2. PICK k \in DOMAIN inbox[c] :
          LET buffer == buffer_[e] \o SubSeq(inbox[c], 1, k)
              split == HeaderEnd(buffer)
          IN /\ inbox' = [inbox EXCEPT ![c] = Taken(c, k)]
             /\ buffer_' = [buffer_ EXCEPT ![e] = SubSeq(buffer, split + 1, Len(buffer))]
             /\ pc' = [pc EXCEPT ![e] = IF split = 0 THEN "read" ELSE "process"]
    BY <1>12 DEF ReadReturns
  <2> DEFINE buffer == buffer_[e] \o SubSeq(inbox[c], 1, k)
             split == HeaderEnd(buffer)
  <2>3. buffer \in Seq(Parts) /\ Taken(c, k) \in Seq(Parts)
    <3>1. inbox[c] \in Seq(Parts) /\ buffer_[e] \in Seq(Parts) /\ k \in 1..Len(inbox[c])
      BY <2>1 DEF TypeOK
    <3> QED BY <3>1, ConcatProperties, SubSeqProperties, ElementOfSeq DEF Taken
  <2>4. SubSeq(buffer, split + 1, Len(buffer)) \in Seq(Parts)
    <3>1. split \in 0..Len(buffer)
      BY <2>3, HeaderEndInBuffer
    <3> HIDE DEF buffer, split
    <3> QED BY <2>3, <3>1
  <2> HIDE DEF buffer, split
  <2>5. inbox' = [inbox EXCEPT ![c] = Taken(c, k)]
    BY <2>2
  <2>6. buffer_' = [buffer_ EXCEPT ![e] = SubSeq(buffer, split + 1, Len(buffer))]
    BY <2>2 DEF buffer, split
  <2>7. pc' = [pc EXCEPT ![e] = IF split = 0 THEN "read" ELSE "process"]
    BY <2>2 DEF buffer, split
  <2>8. /\ pc[e] = "reading" /\ reading' = [reading EXCEPT ![e] = NoTask]
        /\ UNCHANGED <<file_fd, done, arrived, gone, sent, responses, poolVars, sockVars>>
    BY <1>12 DEF ReadReturns
  <2>9. inbox' \in [Connections -> Seq(Parts)] /\ buffer_' \in [Executors -> Seq(Parts)]
    BY <2>1, <2>3, <2>4, <2>5, <2>6 DEF TypeOK
  <2> QED BY <2>7, <2>8, <2>9 DEF TypeOK, Ledger
<1>13. ASSUME NEW e \in Executors, ReadFails(e) PROVE TypeOK' /\ Ledger'
  BY <1>13 DEF ReadFails, TypeOK, Ledger
<1>14. ASSUME NEW e \in Executors, ProcessRequest(e) PROVE TypeOK' /\ Ledger'
  <2>1. run # "binding"
    BY <1>14 DEF ProcessRequest, TypeOK, Ledger
  <2>4. /\ pc[e] = "process"
        /\ UNCHANGED <<reading, buffer_, req, done, run, listen_fd, client_fd, poolVars, clientVars>>
    BY <1>14 DEF ProcessRequest
  <2>2. CASE UNCHANGED <<fds, file_fd>> /\ pc' = [pc EXCEPT ![e] = "respond"]
    BY <2>2, <2>4 DEF TypeOK, Ledger
  <2>3. ASSUME FreeFds # {}, fds' = [fds EXCEPT ![Min(FreeFds)] = "file"],
               file_fd' = [file_fd EXCEPT ![e] = Min(FreeFds)], pc' = [pc EXCEPT ![e] = "file"]
        PROVE  TypeOK' /\ Ledger'
    <3>1. Min(FreeFds) \in FD
      BY <2>3, FreeFdIsFree
    <3>2. fds' \in [FD -> {"free", "listener", "file"} \cup Connections]
      BY <2>3, <3>1 DEF TypeOK
    <3>3. TypeOK'
      BY <2>3, <2>4, <3>1, <3>2 DEF TypeOK, Ledger
    <3> QED BY <2>1, <2>3, <2>4, <3>1, <3>3 DEF Ledger
  <2> QED BY <1>14, <2>2, <2>3 DEF ProcessRequest
<1>15. ASSUME NEW e \in Executors, ReadFile(e) PROVE TypeOK' /\ Ledger'
  <2>1. fds' \in [FD -> {"free", "listener", "file"} \cup Connections]
    BY <1>15 DEF ReadFile, TypeOK
  <2>2. inbox' \in [Connections -> Seq(Parts)]
    <3>1. ASSUME NEW d \in Connections, NEW k \in DOMAIN inbox[d] PROVE Taken(d, k) \in Seq(Parts)
      BY DEF TypeOK, Taken
    <3>2. \/ UNCHANGED inbox
          \/ \E d \in Connections : \E k \in DOMAIN inbox[d] : inbox' = [inbox EXCEPT ![d] = Taken(d, k)]
      BY <1>15 DEF ReadFile
    <3>3. CASE UNCHANGED inbox
      BY <3>3 DEF TypeOK
    <3>4. ASSUME NEW d \in Connections, NEW k \in DOMAIN inbox[d],
                 inbox' = [inbox EXCEPT ![d] = Taken(d, k)]
          PROVE  inbox' \in [Connections -> Seq(Parts)]
      BY <3>1, <3>4 DEF TypeOK
    <3> QED BY <3>2, <3>3, <3>4
  <2>3. /\ pc[e] = "file" /\ file_fd' = [file_fd EXCEPT ![e] = -1]
        /\ pc' = [pc EXCEPT ![e] = "respond"]
        /\ UNCHANGED <<reading, buffer_, req, done, arrived, gone, sent, responses, run, listen_fd, client_fd, poolVars>>
    BY <1>15 DEF ReadFile
  <2>4. run # "binding"
    BY <2>3 DEF TypeOK, Ledger
  <2>5. TypeOK'
    <3>1. /\ pc' \in [Executors -> {"idle", "read", "reading", "process", "file", "respond", "close"}]
          /\ \A x \in Executors : pc'[x] = "idle" <=> active'[x] = NoTask
          /\ \A x \in Executors : pc'[x] = "reading" <=> reading'[x] # NoTask
      BY <2>3 DEF TypeOK
    <3>2. \A x \in Executors : IF pc'[x] = "file" THEN file_fd'[x] \in FD ELSE file_fd'[x] = -1
      BY <2>3 DEF TypeOK, Ledger
    <3> QED BY <2>1, <2>2, <2>3, <3>1, <3>2 DEF TypeOK
  <2> QED BY <2>3, <2>4, <2>5 DEF Ledger
<1>16. ASSUME NEW e \in Executors, WriteResponse(e) PROVE TypeOK' /\ Ledger'
  BY <1>16 DEF WriteResponse, TypeOK, Ledger
<1>17. ASSUME NEW e \in Executors, WriteFails(e) PROVE TypeOK' /\ Ledger'
  BY <1>17 DEF WriteFails, TypeOK, Ledger
<1>18. ASSUME NEW e \in Executors, DestroyConnection(e) PROVE TypeOK' /\ Ledger'
  <2>1. run # "binding" /\ active[e] \in Connections
    BY <1>18 DEF DestroyConnection, TypeOK, Ledger
  <2>2. /\ pc[e] = "close" /\ fds' = [fds EXCEPT ![Fd(e)] = "free"]
        /\ buffer_' = [buffer_ EXCEPT ![e] = <<>>]
        /\ UNCHANGED <<reading, file_fd, done, run, listen_fd, client_fd, clientVars>>
    BY <1>18 DEF DestroyConnection
  <2>3. /\ fds' \in [FD -> {"free", "listener", "file"} \cup Connections]
        /\ buffer_' \in [Executors -> Seq(Parts)]
    <3>1. <<>> \in Seq(Parts)
      OBVIOUS
    <3> QED BY <2>2, <3>1 DEF TypeOK
  <2>4. CASE Pool!Finish(e) /\ pc' = [pc EXCEPT ![e] = "idle"]
    BY <2>1, <2>2, <2>3, <2>4 DEF Pool!Finish, TypeOK, Ledger
  <2>5. CASE UNCHANGED poolVars /\ pc' = [pc EXCEPT ![e] = "read"]
    BY <2>1, <2>2, <2>3, <2>5 DEF TypeOK, Ledger
  <2> QED BY <1>18, <2>4, <2>5 DEF DestroyConnection
<1>19. CASE UNCHANGED vars
  BY <1>19 DEF TypeOK, Ledger
<1> QED
  BY <1>1, <1>2, <1>3, <1>4, <1>5, <1>6, <1>7, <1>8, <1>9, <1>10, <1>11, <1>12, <1>13,
     <1>14, <1>15, <1>16, <1>17, <1>18, <1>19
  DEF Next, Client, Server, ThrFn, GetNextRequest, Over

-----------------------------------------------------------------------------
(* The number of the listening socket is neither a connection's that was   *)
(* accepted, nor that of a file a thread is reading while Run accepts; and *)
(* an open file is always in the hands of a thread.                        *)
ListenerInv ==
  /\ run = "accepting" => /\ fds[listen_fd] = "listener"
                          /\ \A e \in Executors : file_fd[e] # listen_fd
  /\ \A c \in submitted : client_fd[c] # listen_fd
  /\ run # "binding" /\ listen_fd \in FD => fds[listen_fd] \notin Connections
  /\ \A f \in FD : fds[f] = "file" => \E e \in Executors : file_fd[e] = f

LEMMA InitListener == Init => ListenerInv
  BY DEF Init, ListenerInv, Pool!PoolInit

LEMMA ListenerStep ==
  ASSUME TypeOK, Ledger, ListenerInv, [Next]_vars
  PROVE  ListenerInv'
<1> USE DEF vars, poolVars, clientVars, connVars, sockVars
<1>1. CASE UNCHANGED <<run, fds, listen_fd, client_fd, submitted, file_fd>>
  BY <1>1 DEF ListenerInv
<1>2. ASSUME NEW c \in Connections, Accept(c) PROVE ListenerInv'
  <2>1. /\ run = "accepting" /\ fds' = [fds EXCEPT ![Min(FreeFds)] = c]
        /\ client_fd' = [client_fd EXCEPT ![c] = Min(FreeFds)]
        /\ submitted' = submitted \cup {c}
        /\ UNCHANGED <<run, listen_fd, file_fd>>
    BY <1>2 DEF Accept, Pool!Submit
  <2>2. Min(FreeFds) \in FD /\ fds[Min(FreeFds)] = "free"
    BY <1>2, FreeFdIsFree DEF Accept
  <2>3. c # "file"
    BY NamesAssumption
  <2> QED BY <2>1, <2>2, <2>3 DEF ListenerInv, TypeOK, Ledger
<1>3. ASSUME NEW c \in Connections, LookupFails(c) PROVE ListenerInv'
  BY <1>3 DEF LookupFails, ListenerInv
<1>4. CASE BindAndListen
  <2>1. run = "binding" /\ UNCHANGED <<client_fd, poolVars, clientVars, connVars>>
    BY <1>4 DEF BindAndListen
  <2>2. CASE run' = "returned" /\ UNCHANGED <<fds, listen_fd>>
    BY <2>1, <2>2, BoundsAssumption DEF ListenerInv, Ledger, FD
  <2>3. CASE /\ fds' = [fds EXCEPT ![Min(FreeFds)] = "listener"]
             /\ listen_fd' = Min(FreeFds) /\ run' = "accepting"
    <3>1. FreeFds # {}
      BY <2>1, BoundsAssumption DEF Ledger, FreeFds, FD
    <3>2. Min(FreeFds) \in FD
      BY <3>1, FreeFdIsFree
    <3>3. submitted = {} /\ \A e \in Executors : file_fd[e] = -1
      BY <2>1, NamesAssumption DEF Ledger, TypeOK
    <3>4. Min(FreeFds) # -1
      BY <3>2, BoundsAssumption DEF FD
    <3> QED BY <2>1, <2>3, <3>2, <3>3, <3>4, NamesAssumption DEF ListenerInv, TypeOK
  <2> QED BY <1>4, <2>2, <2>3 DEF BindAndListen
<1>5. CASE AcceptFails
  BY <1>5, NamesAssumption DEF AcceptFails, ListenerInv, TypeOK, Ledger
<1>6. CASE DestroySocket
  <2>1. \A c \in submitted : client_fd[c] # -1
    BY BoundsAssumption DEF Ledger, FD
  <2>2. listen_fd' \notin FD /\ run' = "returned" /\ listen_fd' = -1
    BY <1>6, BoundsAssumption DEF DestroySocket, FD
  <2> QED BY <1>6, <2>1, <2>2 DEF DestroySocket, ListenerInv, TypeOK
<1>7. ASSUME NEW e \in Executors, ProcessRequest(e) PROVE ListenerInv'
  <2>1. /\ file_fd[e] = -1 /\ UNCHANGED <<run, listen_fd, client_fd, submitted>>
    BY <1>7 DEF ProcessRequest, TypeOK
  <2>2. ASSUME FreeFds # {}, fds' = [fds EXCEPT ![Min(FreeFds)] = "file"],
               file_fd' = [file_fd EXCEPT ![e] = Min(FreeFds)]
        PROVE  ListenerInv'
    <3>1. Min(FreeFds) \in FD /\ fds[Min(FreeFds)] = "free"
      BY <2>2, FreeFdIsFree
    <3>2. \A f \in FD : fds'[f] = "file" => \E x \in Executors : file_fd'[x] = f
      <4> SUFFICES ASSUME NEW f \in FD, fds'[f] = "file"
                   PROVE  \E x \in Executors : file_fd'[x] = f
        OBVIOUS
      <4>1. CASE f = Min(FreeFds)
        BY <2>2, <4>1 DEF Ledger
      <4>2. CASE f # Min(FreeFds)
        <5>1. PICK x \in Executors : file_fd[x] = f
          BY <2>2, <4>2 DEF ListenerInv, TypeOK
        <5>2. x # e
          BY <2>1, <5>1, BoundsAssumption DEF FD
        <5> QED BY <2>2, <5>1, <5>2 DEF Ledger
      <4> QED BY <4>1, <4>2
    <3> QED BY <2>1, <2>2, <3>1, <3>2, NamesAssumption DEF ListenerInv, TypeOK, Ledger
  <2> QED BY <1>1, <1>7, <2>1, <2>2 DEF ProcessRequest
<1>8. ASSUME NEW e \in Executors, ReadFile(e) PROVE ListenerInv'
  <2>1. /\ pc[e] = "file" /\ file_fd' = [file_fd EXCEPT ![e] = -1]
        /\ UNCHANGED <<run, listen_fd, client_fd, submitted>>
    BY <1>8 DEF ReadFile
  <2>2. \/ fds' = fds /\ fds[file_fd[e]] # "file"
        \/ fds' = [fds EXCEPT ![file_fd[e]] = "free"]
    BY <1>8 DEF ReadFile
  <2>3. file_fd[e] \in FD /\ -1 \notin FD
    BY <2>1, BoundsAssumption DEF TypeOK, FD
  <2>4. \A f \in FD : fds'[f] = "file" => \E x \in Executors : file_fd'[x] = f
    <3> SUFFICES ASSUME NEW f \in FD, fds'[f] = "file"
                 PROVE  \E x \in Executors : file_fd'[x] = f
      OBVIOUS
    <3>1. f # file_fd[e] /\ fds[f] = "file"
      BY <2>2, <2>3 DEF TypeOK
    <3>2. PICK x \in Executors : file_fd[x] = f
      BY <3>1 DEF ListenerInv
    <3> QED BY <2>1, <3>1, <3>2 DEF Ledger
  <2>5. run = "accepting" => listen_fd # file_fd[e] /\ listen_fd \in FD
    BY DEF ListenerInv, Ledger
  <2> QED BY <2>1, <2>2, <2>3, <2>4, <2>5, NamesAssumption DEF ListenerInv, TypeOK, Ledger
<1>9. ASSUME NEW e \in Executors, DestroyConnection(e) PROVE ListenerInv'
  <2>1. active[e] \in submitted
    BY <1>9 DEF DestroyConnection, TypeOK, Ledger
  <2>2. /\ fds' = [fds EXCEPT ![Fd(e)] = "free"] /\ submitted' = submitted
        /\ UNCHANGED <<run, listen_fd, client_fd, file_fd>>
    BY <1>9 DEF DestroyConnection, Pool!Finish
  <2>3. Fd(e) \in FD /\ Fd(e) # listen_fd
    BY <2>1 DEF Fd, Ledger, ListenerInv
  <2> QED BY <2>2, <2>3, NamesAssumption DEF ListenerInv, TypeOK, Ledger
<1>10. ASSUME NEW c \in Connections, Client(c) PROVE ListenerInv'
  BY <1>1, <1>10 DEF Client, Connect, Send, HangUp
<1>11. CASE DestroyPool
  BY <1>1, <1>11 DEF DestroyPool, Pool!BeginClose, Pool!EndClose
<1>12. ASSUME NEW e \in Executors,
              Start(e) \/ GetNextRequest(e) \/ WriteResponse(e) \/ WriteFails(e)
       PROVE  ListenerInv'
  BY <1>1, <1>12 DEF Start, Pool!Start, GetNextRequest, CallRead, ReadReturns, ReadFails, WriteResponse, WriteFails
<1> QED
  BY <1>1, <1>2, <1>3, <1>4, <1>5, <1>6, <1>7, <1>8, <1>9, <1>10, <1>11, <1>12
  DEF Next, Server, ThrFn, Over
-----------------------------------------------------------------------------
(* The parts of requests, wherever they are, are the elements of a         *)
(* function H from places to sequences; Unique says that none is in two    *)
(* places, or twice in one.                                                *)
Unique(H) ==
  \A p, q \in DOMAIN H : \A j \in DOMAIN H[p], k \in DOMAIN H[q] :
    H[p][j] = H[q][k] => p = q /\ j = k

LEMMA UniqueElim ==
  ASSUME NEW H, Unique(H), NEW p \in DOMAIN H, NEW q \in DOMAIN H,
         NEW j \in DOMAIN H[p], NEW k \in DOMAIN H[q], H[p][j] = H[q][k]
  PROVE  p = q /\ j = k
  BY Zenon DEF Unique

(* A place loses its first k elements.                                     *)
LEMMA DropKeepsUnique ==
  ASSUME NEW P, NEW S, NEW H \in [P -> Seq(S)], Unique(H),
         NEW a \in P, NEW k \in 0..Len(H[a])
  PROVE  LET G == [H EXCEPT ![a] = SubSeq(H[a], k + 1, Len(H[a]))]
         IN  G \in [P -> Seq(S)] /\ Unique(G)
<1> DEFINE G == [H EXCEPT ![a] = SubSeq(H[a], k + 1, Len(H[a]))]
           Origin(p, j) == IF p = a THEN j + k ELSE j
<1>1. H[a] \in Seq(S) /\ Len(H[a]) \in Nat /\ k \in Nat
  OBVIOUS
<1>2. /\ SubSeq(H[a], k + 1, Len(H[a])) \in Seq(S)
      /\ Len(SubSeq(H[a], k + 1, Len(H[a]))) = Len(H[a]) - k
      /\ \A j \in 1..(Len(H[a]) - k) : SubSeq(H[a], k + 1, Len(H[a]))[j] = H[a][j + k]
  BY <1>1
<1>3. G \in [P -> Seq(S)]
  BY <1>2
<1>4. ASSUME NEW p \in P, NEW j \in DOMAIN G[p]
      PROVE  Origin(p, j) \in DOMAIN H[p] /\ G[p][j] = H[p][Origin(p, j)] /\ j \in Nat
  <2>1. CASE p = a
    BY <1>1, <1>2, <2>1
  <2>2. CASE p # a
    BY <2>2
  <2> QED BY <2>1, <2>2
<1>5. Unique(G)
  <2> SUFFICES ASSUME NEW p \in P, NEW q \in P, NEW j \in DOMAIN G[p], NEW i \in DOMAIN G[q],
                      G[p][j] = G[q][i]
               PROVE  p = q /\ j = i
    BY DEF Unique
  <2>1. p = q /\ Origin(p, j) = Origin(q, i)
    <3> HIDE DEF Origin
    <3> QED BY <1>4 DEF Unique
  <2> QED BY <1>1, <1>4, <2>1
<1> QED BY <1>3, <1>5

(* The first k elements of a move to the end of b.                         *)
LEMMA PourKeepsUnique ==
  ASSUME NEW P, NEW S, NEW H \in [P -> Seq(S)], Unique(H),
         NEW a \in P, NEW b \in P, a # b, NEW k \in 0..Len(H[a])
  PROVE  LET G == [H EXCEPT ![a] = SubSeq(H[a], k + 1, Len(H[a])), ![b] = H[b] \o SubSeq(H[a], 1, k)]
         IN  G \in [P -> Seq(S)] /\ Unique(G)
<1> DEFINE G == [H EXCEPT ![a] = SubSeq(H[a], k + 1, Len(H[a])), ![b] = H[b] \o SubSeq(H[a], 1, k)]
           From(p, j, r, o) ==
             \/ p = a /\ r = a /\ o = j + k /\ o > k
             \/ p = b /\ r = a /\ o = j - Len(H[b]) /\ o <= k
             \/ p = b /\ r = b /\ o = j /\ j <= Len(H[b])
             \/ p # a /\ p # b /\ r = p /\ o = j
<1>1. H[a] \in Seq(S) /\ H[b] \in Seq(S) /\ Len(H[a]) \in Nat /\ Len(H[b]) \in Nat /\ k \in Nat
  OBVIOUS
<1>2. /\ SubSeq(H[a], k + 1, Len(H[a])) \in Seq(S)
      /\ Len(SubSeq(H[a], k + 1, Len(H[a]))) = Len(H[a]) - k
      /\ \A j \in 1..(Len(H[a]) - k) : SubSeq(H[a], k + 1, Len(H[a]))[j] = H[a][j + k]
  BY <1>1
<1>3. /\ SubSeq(H[a], 1, k) \in Seq(S)
      /\ Len(SubSeq(H[a], 1, k)) = k
      /\ \A j \in 1..k : SubSeq(H[a], 1, k)[j] = H[a][j]
  BY <1>1
<1>4. /\ H[b] \o SubSeq(H[a], 1, k) \in Seq(S)
      /\ DOMAIN (H[b] \o SubSeq(H[a], 1, k)) = 1..(Len(H[b]) + k)
      /\ \A j \in 1..(Len(H[b]) + k) :
           (H[b] \o SubSeq(H[a], 1, k))[j] = IF j > Len(H[b]) THEN H[a][j - Len(H[b])] ELSE H[b][j]
  BY <1>1, <1>3, ConcatProperties
<1>5. G \in [P -> Seq(S)]
  BY <1>2, <1>4
<1>6. ASSUME NEW p \in P, NEW j \in DOMAIN G[p]
      PROVE  \E r \in P : \E o \in DOMAIN H[r] :
               /\ G[p][j] = H[r][o] /\ From(p, j, r, o) /\ j \in Nat
  <2>1. CASE p = a
    <3>1. G[p] = SubSeq(H[a], k + 1, Len(H[a])) /\ j \in 1..(Len(H[a]) - k)
      BY <1>1, <1>2, <2>1
    <3>2. G[p][j] = H[a][j + k]
      BY <1>2, <3>1, Zenon
    <3>3. j + k \in DOMAIN H[a] /\ j \in Nat /\ j + k > k
      BY <1>1, <3>1
    <3> QED BY <2>1, <3>2, <3>3
  <2>2. CASE p = b
    <3>1. G[p] = H[b] \o SubSeq(H[a], 1, k) /\ j \in 1..(Len(H[b]) + k)
      BY <1>4, <2>2
    <3>2. CASE j > Len(H[b])
      <4>1. G[p][j] = H[a][j - Len(H[b])]
        BY <1>4, <3>1, <3>2, Zenon
      <4>2. j - Len(H[b]) \in DOMAIN H[a] /\ j \in Nat /\ j - Len(H[b]) <= k
        BY <1>1, <3>1, <3>2
      <4> QED BY <2>2, <3>2, <4>1, <4>2
    <3>3. CASE ~(j > Len(H[b]))
      <4>1. G[p][j] = H[b][j]
        BY <1>4, <3>1, <3>3, Zenon
      <4>2. j \in DOMAIN H[b] /\ j \in Nat /\ j <= Len(H[b])
        BY <1>1, <3>1, <3>3
      <4> QED BY <2>2, <4>1, <4>2
    <3> QED BY <3>2, <3>3
  <2>3. CASE p # a /\ p # b
    <3>1. G[p] = H[p] /\ H[p] \in Seq(S)
      BY <2>3
    <3>2. j \in Nat
      BY <3>1
    <3> QED BY <2>3, <3>1, <3>2
  <2> QED BY <2>1, <2>2, <2>3
<1>7. ASSUME NEW p \in P, NEW q \in P, NEW j \in DOMAIN G[p], NEW i \in DOMAIN G[q],
             G[p][j] = G[q][i]
      PROVE  p = q /\ j = i
  <2>1. DOMAIN H = P
    OBVIOUS
  <2>2. PICK r \in P : \E o \in DOMAIN H[r] :
           /\ G[p][j] = H[r][o] /\ From(p, j, r, o) /\ j \in Nat
    BY <1>6
  <2>3. PICK o \in DOMAIN H[r] : G[p][j] = H[r][o] /\ From(p, j, r, o) /\ j \in Nat
    BY <2>2
  <2>4. PICK s \in P : \E n \in DOMAIN H[s] :
           /\ G[q][i] = H[s][n] /\ From(q, i, s, n) /\ i \in Nat
    BY <1>6
  <2>5. PICK n \in DOMAIN H[s] : G[q][i] = H[s][n] /\ From(q, i, s, n) /\ i \in Nat
    BY <2>4
  <2>6. r = s /\ o = n
    <3>1. r \in DOMAIN H /\ s \in DOMAIN H /\ H[r][o] = H[s][n]
      BY <1>7, <2>1, <2>3, <2>5
    <3> QED BY <3>1, UniqueElim
  <2>7. From(p, j, r, o) /\ From(q, i, r, o) /\ j \in Nat /\ i \in Nat
    BY <2>3, <2>5, <2>6
  <2> HIDE <2>1, <2>2, <2>3, <2>4, <2>5, <2>6
  <2> QED BY <1>1, <2>7
<1>8. Unique(G)
  <2>1. DOMAIN G = P
    BY <1>5
  <2>2. \A p, q \in P : \A j \in DOMAIN G[p], i \in DOMAIN G[q] :
          G[p][j] = G[q][i] => p = q /\ j = i
    BY <1>7
  <2> QED BY <2>1, <2>2, Zenon DEF Unique
<1> QED BY <1>5, <1>8

(* An element that was nowhere arrives at the end of a.                    *)
LEMMA ArrivalKeepsUnique ==
  ASSUME NEW P, NEW S, NEW H \in [P -> Seq(S)], Unique(H), NEW a \in P, NEW x \in S,
         \A p \in P : \A j \in DOMAIN H[p] : H[p][j] # x
  PROVE  LET G == [H EXCEPT ![a] = Append(@, x)]
         IN  G \in [P -> Seq(S)] /\ Unique(G)
<1> DEFINE G == [H EXCEPT ![a] = Append(@, x)]
<1>1. H[a] \in Seq(S) /\ Len(H[a]) \in Nat
  OBVIOUS
<1>2. /\ Append(H[a], x) \in Seq(S) /\ DOMAIN Append(H[a], x) = 1..(Len(H[a]) + 1)
      /\ \A j \in 1..Len(H[a]) : Append(H[a], x)[j] = H[a][j]
      /\ Append(H[a], x)[Len(H[a]) + 1] = x
  BY <1>1, AppendProperties
<1>3. G \in [P -> Seq(S)]
  BY <1>2
<1>4. ASSUME NEW p \in P, NEW j \in DOMAIN G[p]
      PROVE  \/ j \in DOMAIN H[p] /\ G[p][j] = H[p][j]
             \/ p = a /\ j = Len(H[a]) + 1 /\ G[p][j] = x
  <2>1. CASE p = a
    BY <1>1, <1>2, <2>1
  <2>2. CASE p # a
    BY <2>2
  <2> QED BY <2>1, <2>2
<1>5. Unique(G)
  BY <1>3, <1>4 DEF Unique
<1> QED BY <1>3, <1>5

-----------------------------------------------------------------------------
(* What responses remembers of a sequence of parts, as ParseRequest does.  *)
Names(s) == [k \in DOMAIN s |-> <<s[k].from, s[k].n>>]

LEMMA NamesProperties ==
  ASSUME NEW s \in Seq(Parts)
  PROVE  /\ Names(s) \in Seq(Connections \X Nat) /\ Len(Names(s)) = Len(s)
         /\ \A k \in 1..Len(s) : Names(s)[k] = <<s[k].from, s[k].n>>
<1>1. Len(s) \in Nat /\ \A k \in 1..Len(s) : s[k] \in Parts
  OBVIOUS
<1>2. Names(s) = [k \in 1..Len(s) |-> <<s[k].from, s[k].n>>]
  BY DEF Names
<1>3. \A k \in 1..Len(s) : <<s[k].from, s[k].n>> \in Connections \X Nat
  BY <1>1 DEF Parts
<1>4. Names(s) \in [1..Len(s) -> Connections \X Nat]
  BY <1>2, <1>3
<1>5. Names(s) \in Seq(Connections \X Nat)
  BY <1>1, <1>4, SeqDef
<1>6. Len(Names(s)) = Len(s)
  BY <1>1, <1>2, <1>5, LenProperties
<1> QED BY <1>2, <1>5, <1>6

LEMMA NamesOfSubSeq ==
  ASSUME NEW s \in Seq(Parts), NEW m \in 1..(Len(s) + 1), NEW n \in 0..Len(s)
  PROVE  Names(SubSeq(s, m, n)) = SubSeq(Names(s), m, n)
<1> DEFINE part == SubSeq(s, m, n)
           size == IF m <= n THEN n - m + 1 ELSE 0
<1>1. /\ part \in Seq(Parts) /\ Len(s) \in Nat /\ Len(part) = size
      /\ \A k \in 1..size : part[k] = s[m + k - 1] /\ m + k - 1 \in 1..Len(s)
  OBVIOUS
<1>2. Names(s) \in Seq(Connections \X Nat) /\ Len(Names(s)) = Len(s)
  BY NamesProperties
<1>3. /\ SubSeq(Names(s), m, n) \in Seq(Connections \X Nat) /\ Len(SubSeq(Names(s), m, n)) = size
      /\ \A k \in 1..size : SubSeq(Names(s), m, n)[k] = Names(s)[m + k - 1]
  <2> HIDE DEF size
  <2> QED BY <1>2 DEF size
<1> HIDE DEF part, size
<1>4. Names(part) \in Seq(Connections \X Nat) /\ Len(Names(part)) = size
  BY <1>1, NamesProperties
<1>5. \A k \in 1..size : Names(part)[k] = SubSeq(Names(s), m, n)[k]
  BY <1>1, <1>3, NamesProperties
<1>6. Names(part) = SubSeq(Names(s), m, n)
  BY <1>3, <1>4, <1>5, SeqEqual
<1> QED BY <1>6 DEF part

LEMMA NamesOfConcat ==
  ASSUME NEW s \in Seq(Parts), NEW t \in Seq(Parts)
  PROVE  Names(s \o t) = Names(s) \o Names(t)
<1>1. /\ s \o t \in Seq(Parts) /\ Len(s \o t) = Len(s) + Len(t)
      /\ Len(s) \in Nat /\ Len(t) \in Nat
      /\ \A k \in 1..(Len(s) + Len(t)) : (s \o t)[k] = IF k <= Len(s) THEN s[k] ELSE t[k - Len(s)]
  BY ConcatProperties
<1>2. /\ Names(s) \in Seq(Connections \X Nat) /\ Len(Names(s)) = Len(s)
      /\ Names(t) \in Seq(Connections \X Nat) /\ Len(Names(t)) = Len(t)
      /\ Names(s \o t) \in Seq(Connections \X Nat) /\ Len(Names(s \o t)) = Len(s) + Len(t)
  BY <1>1, NamesProperties
<1>3. /\ Names(s) \o Names(t) \in Seq(Connections \X Nat) /\ Len(Names(s) \o Names(t)) = Len(s) + Len(t)
      /\ \A k \in 1..(Len(s) + Len(t)) :
           (Names(s) \o Names(t))[k] = IF k <= Len(s) THEN Names(s)[k] ELSE Names(t)[k - Len(s)]
  <2> DEFINE u == Names(s)
             v == Names(t)
  <2>0. u \in Seq(Connections \X Nat) /\ v \in Seq(Connections \X Nat)
    BY <1>2
  <2> HIDE DEF u, v
  <2>1. /\ u \o v \in Seq(Connections \X Nat) /\ Len(u \o v) = Len(u) + Len(v)
        /\ \A k \in 1..(Len(u) + Len(v)) : (u \o v)[k] = IF k <= Len(u) THEN u[k] ELSE v[k - Len(u)]
    BY <2>0, ConcatProperties
  <2>2. Len(u) = Len(s) /\ Len(v) = Len(t)
    BY <1>2 DEF u, v
  <2>3. /\ u \o v \in Seq(Connections \X Nat) /\ Len(u \o v) = Len(s) + Len(t)
        /\ \A k \in 1..(Len(s) + Len(t)) : (u \o v)[k] = IF k <= Len(s) THEN u[k] ELSE v[k - Len(s)]
    BY <2>1, <2>2, Zenon
  <2> QED BY <2>3 DEF u, v
<1>4. \A k \in 1..(Len(s) + Len(t)) : Names(s \o t)[k] = (Names(s) \o Names(t))[k]
  <2> TAKE k \in 1..(Len(s) + Len(t))
  <2>1. Names(s \o t)[k] = <<(s \o t)[k].from, (s \o t)[k].n>>
    BY <1>1, NamesProperties
  <2>2. CASE k <= Len(s)
    <3>1. k \in 1..Len(s) /\ (s \o t)[k] = s[k] /\ (Names(s) \o Names(t))[k] = Names(s)[k]
      BY <1>1, <1>3, <2>2
    <3> QED BY <2>1, <3>1, NamesProperties
  <2>3. CASE k > Len(s)
    <3>1. /\ k - Len(s) \in 1..Len(t) /\ (s \o t)[k] = t[k - Len(s)]
          /\ (Names(s) \o Names(t))[k] = Names(t)[k - Len(s)]
      BY <1>1, <1>3, <2>3
    <3> QED BY <2>1, <3>1, NamesProperties
  <2>4. k <= Len(s) \/ k > Len(s)
    OBVIOUS
  <2> QED BY <2>2, <2>3, <2>4, Zenon
<1> QED BY <1>1, <1>2, <1>3, <1>4, SeqEqual

LEMMA NamesOfAppend ==
  ASSUME NEW s \in Seq(Parts), NEW part \in Parts
  PROVE  Names(Append(s, part)) = Append(Names(s), <<part.from, part.n>>)
<1>1. <<part>> \in Seq(Parts) /\ <<part.from, part.n>> \in Connections \X Nat
  BY DEF Parts
<1>2. Names(<<part>>) = << <<part.from, part.n>> >>
  BY DEF Names
<1>3. Append(s, part) = s \o <<part>>
  BY AppendIsConcat
<1>4. Append(Names(s), <<part.from, part.n>>) = Names(s) \o << <<part.from, part.n>> >>
  BY <1>1, NamesProperties, AppendIsConcat
<1>5. Names(s \o <<part>>) = Names(s) \o Names(<<part>>)
  BY <1>1, NamesOfConcat
<1> QED BY <1>2, <1>3, <1>4, <1>5, Zenon

-----------------------------------------------------------------------------
(* The kernel's buffers, the threads' buffer_ and req, and the answers.  A *)
(* req counts from the moment it is parsed until it is answered.           *)
Serving == {"process", "file", "respond"}

Places == ({"inbox", "responses"} \X Connections) \cup ({"buffer_", "req"} \X Executors)

HeldAt(in, buf, at, request, answered) ==
  [p \in Places |->
     CASE p[1] = "inbox" -> Names(in[p[2]])
       [] p[1] = "buffer_" -> Names(buf[p[2]])
       [] p[1] = "req" -> IF at[p[2]] \in Serving THEN request[p[2]].parts ELSE <<>>
       [] p[1] = "responses" -> answered[p[2]]]

Held == HeldAt(inbox, buffer_, pc, req, responses)

SentParts == {x \in Connections \X Nat : x[2] <= sent[x[1]]}

(* Every part is in one place, and was sent by its client.                 *)
PartsInv ==
  /\ req = [e \in Executors |-> req[e]]
  /\ responses = [c \in Connections |-> responses[c]]
  /\ Held \in [Places -> Seq(SentParts)]
  /\ Unique(Held)

LEMMA PlacesAre ==
  /\ \A c \in Connections : <<"inbox", c>> \in Places /\ <<"responses", c>> \in Places
  /\ \A e \in Executors : <<"buffer_", e>> \in Places /\ <<"req", e>> \in Places
  /\ \A p \in Places : \/ \E c \in Connections : p = <<"inbox", c>> \/ p = <<"responses", c>>
                       \/ \E e \in Executors : p = <<"buffer_", e>> \/ p = <<"req", e>>
  BY DEF Places

LEMMA HeldIs ==
  ASSUME NEW in, NEW buf, NEW at, NEW request, NEW answered
  PROVE  LET H == HeldAt(in, buf, at, request, answered) IN
         /\ H = [p \in Places |-> H[p]]
         /\ \A c \in Connections : H[<<"inbox", c>>] = Names(in[c]) /\ H[<<"responses", c>>] = answered[c]
         /\ \A e \in Executors : /\ H[<<"buffer_", e>>] = Names(buf[e])
                                 /\ H[<<"req", e>>] = IF at[e] \in Serving THEN request[e].parts ELSE <<>>
<1> DEFINE H == HeldAt(in, buf, at, request, answered)
           e(p) == CASE p[1] = "inbox" -> Names(in[p[2]])
                     [] p[1] = "buffer_" -> Names(buf[p[2]])
                     [] p[1] = "req" -> IF at[p[2]] \in Serving THEN request[p[2]].parts ELSE <<>>
                     [] p[1] = "responses" -> answered[p[2]]
<1>1. H = [p \in Places |-> e(p)]
  BY Zenon DEF HeldAt
<1>2. H = [p \in Places |-> H[p]]
  <2> HIDE DEF e, H
  <2>1. \A p \in Places : H[p] = e(p)
    BY <1>1
  <2> QED BY <1>1, <2>1
<1> HIDE DEF H
<1>3. /\ \A c \in Connections : H[<<"inbox", c>>] = Names(in[c]) /\ H[<<"responses", c>>] = answered[c]
      /\ \A x \in Executors : /\ H[<<"buffer_", x>>] = Names(buf[x])
                              /\ H[<<"req", x>>] = IF at[x] \in Serving THEN request[x].parts ELSE <<>>
  BY <1>1, PlacesAre
<1> QED BY <1>2, <1>3 DEF H


(* To show that a step preserves PartsInv, give the next value of Held.    *)
LEMMA HeldStep ==
  ASSUME NEW G \in [Places -> Seq(SentParts')], Unique(G),
         req' = [e \in Executors |-> req'[e]],
         responses' = [c \in Connections |-> responses'[c]],
         \A c \in Connections : G[<<"inbox", c>>] = Names(inbox'[c]) /\ G[<<"responses", c>>] = responses'[c],
         \A e \in Executors : /\ G[<<"buffer_", e>>] = Names(buffer_'[e])
                              /\ G[<<"req", e>>] = IF pc'[e] \in Serving THEN req'[e].parts ELSE <<>>
  PROVE  PartsInv'
<1> DEFINE H == Held'
<1>1. /\ H = [p \in Places |-> H[p]]
      /\ \A c \in Connections : H[<<"inbox", c>>] = Names(inbox'[c]) /\ H[<<"responses", c>>] = responses'[c]
      /\ \A e \in Executors : /\ H[<<"buffer_", e>>] = Names(buffer_'[e])
                              /\ H[<<"req", e>>] = IF pc'[e] \in Serving THEN req'[e].parts ELSE <<>>
  BY HeldIs DEF Held
<1> HIDE DEF H
<1>2. ASSUME NEW p \in Places PROVE H[p] = G[p]
  <2>1. CASE \E c \in Connections : p = <<"inbox", c>> \/ p = <<"responses", c>>
    <3> PICK c \in Connections : p = <<"inbox", c>> \/ p = <<"responses", c>>
      BY <2>1, Zenon
    <3>1. H[<<"inbox", c>>] = G[<<"inbox", c>>] /\ H[<<"responses", c>>] = G[<<"responses", c>>]
      BY <1>1, Zenon
    <3> QED BY <3>1, Zenon
  <2>2. CASE \E e \in Executors : p = <<"buffer_", e>> \/ p = <<"req", e>>
    <3> PICK e \in Executors : p = <<"buffer_", e>> \/ p = <<"req", e>>
      BY <2>2, Zenon
    <3>1. H[<<"buffer_", e>>] = G[<<"buffer_", e>>] /\ H[<<"req", e>>] = G[<<"req", e>>]
      BY <1>1, Zenon
    <3> QED BY <3>1, Zenon
  <2> QED BY <2>1, <2>2, PlacesAre, Zenon
<1>3. H = G
  BY <1>1, <1>2
<1>4. Held' = G
  BY <1>3 DEF H
<1> QED BY <1>4, Zenon DEF PartsInv

LEMMA HeldNow ==
  ASSUME TypeOK, PartsInv
  PROVE  /\ Held \in [Places -> Seq(SentParts)] /\ Unique(Held)
         /\ \A c \in Connections : /\ Held[<<"inbox", c>>] = Names(inbox[c])
                                   /\ Held[<<"responses", c>>] = responses[c]
                                   /\ Len(Held[<<"inbox", c>>]) = Len(inbox[c])
         /\ \A e \in Executors : /\ Held[<<"buffer_", e>>] = Names(buffer_[e])
                                 /\ Held[<<"req", e>>] = IF pc[e] \in Serving THEN req[e].parts ELSE <<>>
                                 /\ Len(Held[<<"buffer_", e>>]) = Len(buffer_[e])
<1>1. \A c \in Connections : inbox[c] \in Seq(Parts)
  BY DEF TypeOK
<1>2. \A e \in Executors : buffer_[e] \in Seq(Parts)
  BY DEF TypeOK
<1>3. /\ \A c \in Connections : Held[<<"inbox", c>>] = Names(inbox[c]) /\ Held[<<"responses", c>>] = responses[c]
      /\ \A e \in Executors : /\ Held[<<"buffer_", e>>] = Names(buffer_[e])
                              /\ Held[<<"req", e>>] = IF pc[e] \in Serving THEN req[e].parts ELSE <<>>
  BY HeldIs DEF Held
<1>4. \A c \in Connections : Len(Held[<<"inbox", c>>]) = Len(inbox[c])
  BY <1>1, <1>3, NamesProperties
<1>5. \A e \in Executors : Len(Held[<<"buffer_", e>>]) = Len(buffer_[e])
  BY <1>2, <1>3, NamesProperties
<1> QED BY <1>3, <1>4, <1>5 DEF PartsInv

(* Discarding the first k parts that the kernel holds for c.               *)
LEMMA InboxDrop ==
  ASSUME TypeOK, NEW c \in Connections, NEW k \in 0..Len(inbox[c])
  PROVE  Names(Taken(c, k)) = SubSeq(Names(inbox[c]), k + 1, Len(Names(inbox[c])))
<1>1. inbox[c] \in Seq(Parts)
  BY DEF TypeOK
<1>2. Len(inbox[c]) \in Nat /\ k + 1 \in 1..(Len(inbox[c]) + 1) /\ Len(inbox[c]) \in 0..Len(inbox[c])
  BY <1>1
<1>3. Names(SubSeq(inbox[c], k + 1, Len(inbox[c]))) = SubSeq(Names(inbox[c]), k + 1, Len(inbox[c]))
  BY <1>1, <1>2, NamesOfSubSeq
<1> QED BY <1>1, <1>3, NamesProperties DEF Taken

LEMMA DropAll ==
  ASSUME NEW S, NEW s \in Seq(S)
  PROVE  Len(s) \in 0..Len(s) /\ SubSeq(s, Len(s) + 1, Len(s)) = <<>>
  BY SubSeqEmpty

LEMMA NamesOfNone == Names(<<>>) = <<>>
  BY DEF Names

-----------------------------------------------------------------------------
(* A part that arrives bears a number its client has not used.             *)
LEMMA PartsSend ==
  ASSUME TypeOK, Ledger, PartsInv, NEW c \in Connections, Send(c)
  PROVE  PartsInv'
<1> DEFINE x == <<c, sent[c] + 1>>
           a == <<"inbox", c>>
           G == [Held EXCEPT ![a] = Append(@, x)]
<1>1. /\ sent' = [sent EXCEPT ![c] = @ + 1]
      /\ UNCHANGED <<buffer_, pc, req, responses>>
  BY DEF Send, connVars
<1>2. sent \in [Connections -> Nat] /\ sent' \in [Connections -> Nat]
  BY <1>1 DEF Ledger
<1>3. SentParts \subseteq SentParts' /\ x \in SentParts' /\ x \notin SentParts
  <2>1. x \in SentParts' /\ x \notin SentParts
    BY <1>1, <1>2 DEF SentParts
  <2>2. ASSUME NEW y \in SentParts PROVE y \in SentParts'
    BY <1>1, <1>2 DEF SentParts
  <2> QED BY <2>1, <2>2
<1>4. Held \in [Places -> Seq(SentParts')] /\ Unique(Held)
  <2>1. \A s \in Seq(SentParts) : s \in Seq(SentParts')
    BY <1>3, SeqMonotonic
  <2> QED BY <2>1, HeldNow
<1>5. CASE inbox' = inbox
  <2>1. Held' = Held
    BY <1>1, <1>5 DEF Held
  <2> QED BY <1>1, <1>4, <2>1 DEF PartsInv
<1>6. ASSUME NEW end \in BOOLEAN,
             inbox' = [inbox EXCEPT ![c] = Append(@, [from |-> c, n |-> sent[c] + 1, end |-> end])]
      PROVE  PartsInv'
  <2> DEFINE part == [from |-> c, n |-> sent[c] + 1, end |-> end]
  <2>1. part \in Parts /\ part.from = c /\ part.n = sent[c] + 1
    BY <1>2 DEF Parts
  <2>2. \A p \in Places : \A j \in DOMAIN Held[p] : Held[p][j] # x
    <3> SUFFICES ASSUME NEW p \in Places, NEW j \in DOMAIN Held[p] PROVE Held[p][j] \in SentParts
      BY <1>3
    <3>1. Held[p] \in Seq(SentParts)
      BY HeldNow
    <3> QED BY <3>1
  <2>3. a \in Places
    BY PlacesAre
  <2>4. G \in [Places -> Seq(SentParts')] /\ Unique(G)
    <3> DEFINE S == SentParts'
    <3>1. /\ x \in S /\ G = [Held EXCEPT ![a] = Append(@, x)]
          /\ Held \in [Places -> Seq(S)] /\ Unique(Held)
      BY <1>3, <1>4
    <3> HIDE DEF x, a, G, S
    <3>2. G \in [Places -> Seq(S)] /\ Unique(G)
      BY <2>2, <2>3, <3>1, ArrivalKeepsUnique
    <3> QED BY <3>2 DEF S
  <2>5. Names(inbox'[c]) = Append(Names(inbox[c]), x)
    <3>1. inbox[c] \in Seq(Parts) /\ inbox'[c] = Append(inbox[c], part)
      BY <1>6 DEF TypeOK
    <3> HIDE DEF part
    <3> QED BY <2>1, <3>1, NamesOfAppend
  <2>6. \A d \in Connections : G[<<"inbox", d>>] = Names(inbox'[d]) /\ G[<<"responses", d>>] = responses'[d]
    <3> TAKE d \in Connections
    <3>1. CASE d = c
      BY <1>1, <2>3, <2>5, <3>1, HeldNow, PlacesAre
    <3>2. CASE d # c
      BY <1>1, <1>6, <3>2, HeldNow, PlacesAre
    <3> QED BY <3>1, <3>2
  <2>7. \A e \in Executors : /\ G[<<"buffer_", e>>] = Names(buffer_'[e])
                             /\ G[<<"req", e>>] = IF pc'[e] \in Serving THEN req'[e].parts ELSE <<>>
    BY <1>1, HeldNow, PlacesAre
  <2> HIDE DEF G
  <2>8. req' = [e \in Executors |-> req'[e]] /\ responses' = [d \in Connections |-> responses'[d]]
    BY <1>1 DEF PartsInv
  <2> QED BY <2>4, <2>6, <2>7, <2>8, HeldStep
<1> QED BY <1>5, <1>6 DEF Send

LEMMA PartsOfRequest ==
  ASSUME NEW s
  PROVE  ParseRequest(s).parts = Names(s)
<1> DEFINE h == [name \in {"connection" : c \in {part.from : part \in Range(s)} \cap Closing} |-> "close"]
           n == [k \in DOMAIN s |-> <<s[k].from, s[k].n>>]
<1>1. ParseRequest(s) = [parts |-> n, headers |-> h]
  BY Zenon DEF ParseRequest
<1> HIDE DEF h
<1>2. ParseRequest(s).parts = n
  BY <1>1
<1> QED BY <1>2 DEF Names

(* Parts move from the kernel to buffer_, and up to the end of a header on *)
(* to req, which holds none before.                                        *)
LEMMA PartsReadReturns ==
  ASSUME TypeOK, PartsInv, NEW e \in Executors, ReadReturns(e)
  PROVE  PartsInv'
<1> DEFINE c == reading[e]
           i == <<"inbox", c>>
           b == <<"buffer_", e>>
           r == <<"req", e>>
<1>1. c \in Connections /\ pc[e] = "reading"
  BY DEF ReadReturns, TypeOK
<1>2. inbox[c] \in Seq(Parts) /\ buffer_[e] \in Seq(Parts)
  BY <1>1 DEF TypeOK
<1>3. PICK k \in DOMAIN inbox[c] :
        LET buffer == buffer_[e] \o SubSeq(inbox[c], 1, k)
            split == HeaderEnd(buffer)
        IN /\ inbox' = [inbox EXCEPT ![c] = Taken(c, k)]
           /\ buffer_' = [buffer_ EXCEPT ![e] = SubSeq(buffer, split + 1, Len(buffer))]
           /\ IF split = 0
              THEN pc' = [pc EXCEPT ![e] = "read"] /\ UNCHANGED req
              ELSE /\ pc' = [pc EXCEPT ![e] = "process"]
                   /\ req' = [req EXCEPT ![e] = ParseRequest(SubSeq(buffer, 1, split))]
  BY DEF ReadReturns
<1> DEFINE buffer == buffer_[e] \o SubSeq(inbox[c], 1, k)
           split == HeaderEnd(buffer)
<1>4. /\ inbox' = [inbox EXCEPT ![c] = Taken(c, k)]
      /\ buffer_' = [buffer_ EXCEPT ![e] = SubSeq(buffer, split + 1, Len(buffer))]
      /\ IF split = 0
         THEN pc' = [pc EXCEPT ![e] = "read"] /\ UNCHANGED req
         ELSE /\ pc' = [pc EXCEPT ![e] = "process"]
              /\ req' = [req EXCEPT ![e] = ParseRequest(SubSeq(buffer, 1, split))]
      /\ UNCHANGED <<sent, responses>>
  BY <1>3 DEF ReadReturns
<1>5. k \in 0..Len(inbox[c]) /\ k \in 1..Len(inbox[c]) /\ Len(inbox[c]) \in Nat
  BY <1>2
<1>6. SubSeq(inbox[c], 1, k) \in Seq(Parts) /\ buffer \in Seq(Parts)
  BY <1>2, <1>5, ConcatProperties
<1>7. split \in 0..Len(buffer) /\ Len(buffer) \in Nat
  <2> HIDE DEF buffer
  <2>1. HeaderEnd(buffer) \in 0..Len(buffer)
    BY <1>6, HeaderEndInBuffer
  <2> QED BY <1>6, <2>1
<1> HIDE DEF split
<1>8. i \in Places /\ b \in Places /\ r \in Places /\ i # b /\ b # r
  BY <1>1, PlacesAre
<1> DEFINE H == [Held EXCEPT ![i] = SubSeq(Held[i], k + 1, Len(Held[i])),
                             ![b] = Held[b] \o SubSeq(Held[i], 1, k)]
           G == [H EXCEPT ![b] = SubSeq(H[b], split + 1, Len(H[b])),
                          ![r] = H[r] \o SubSeq(H[b], 1, split)]
<1>9. /\ Held \in [Places -> Seq(SentParts)] /\ Unique(Held)
      /\ Held[i] = Names(inbox[c]) /\ Held[b] = Names(buffer_[e]) /\ Held[r] = <<>>
      /\ Len(Held[i]) = Len(inbox[c])
  BY <1>1, HeldNow DEF Serving
<1>10. H \in [Places -> Seq(SentParts)] /\ Unique(H)
  <2> HIDE DEF i, b, H
  <2> QED BY <1>5, <1>8, <1>9, PourKeepsUnique DEF H
<1>11. /\ H[i] = Names(Taken(c, k)) /\ H[b] = Names(buffer) /\ H[r] = <<>>
       /\ \A p \in Places : p # i /\ p # b => H[p] = Held[p]
  <2>1. H[i] = SubSeq(Held[i], k + 1, Len(Held[i])) /\ H[b] = Held[b] \o SubSeq(Held[i], 1, k)
    BY <1>8, <1>9
  <2>2. Names(Taken(c, k)) = SubSeq(Names(inbox[c]), k + 1, Len(Names(inbox[c])))
    BY <1>1, <1>5, InboxDrop
  <2>3. Names(SubSeq(inbox[c], 1, k)) = SubSeq(Names(inbox[c]), 1, k)
    BY <1>2, <1>5, NamesOfSubSeq
  <2>4. Names(buffer) = Names(buffer_[e]) \o Names(SubSeq(inbox[c], 1, k))
    BY <1>2, <1>6, NamesOfConcat
  <2>5. \A p \in Places : p # i /\ p # b => H[p] = Held[p]
    BY <1>9
  <2> HIDE DEF H
  <2> QED BY <1>8, <1>9, <2>1, <2>2, <2>3, <2>4, <2>5
<1> HIDE DEF H
<1>12. Len(H[b]) = Len(buffer)
  BY <1>6, <1>11, NamesProperties
<1>13. G \in [Places -> Seq(SentParts)] /\ Unique(G)
  <2> HIDE DEF i, b, r, buffer, G
  <2> QED BY <1>7, <1>8, <1>10, <1>12, PourKeepsUnique DEF G
<1>14. /\ G[b] = Names(buffer_'[e]) /\ G[r] = Names(SubSeq(buffer, 1, split))
       /\ \A p \in Places : p # b /\ p # r => G[p] = H[p]
  <2>1. G[b] = SubSeq(H[b], split + 1, Len(H[b])) /\ G[r] = H[r] \o SubSeq(H[b], 1, split)
    BY <1>8, <1>10
  <2>2. \A p \in Places : p # b /\ p # r => G[p] = H[p]
    BY <1>10
  <2> HIDE DEF G
  <2>3. buffer_'[e] = SubSeq(buffer, split + 1, Len(buffer))
    BY <1>4 DEF TypeOK
  <2> HIDE DEF buffer
  <2>4. split + 1 \in 1..(Len(buffer) + 1) /\ 1 \in 1..(Len(buffer) + 1) /\ Len(buffer) \in 0..Len(buffer)
    BY <1>7
  <2>5. Names(SubSeq(buffer, split + 1, Len(buffer))) = SubSeq(Names(buffer), split + 1, Len(buffer))
    BY <1>6, <1>7, <2>4, NamesOfSubSeq
  <2>6. Names(SubSeq(buffer, 1, split)) = SubSeq(Names(buffer), 1, split)
    BY <1>6, <1>7, <2>4, NamesOfSubSeq
  <2>7. SubSeq(buffer, 1, split) \in Seq(Parts)
    BY <1>6, <1>7
  <2>8. <<>> \o Names(SubSeq(buffer, 1, split)) = Names(SubSeq(buffer, 1, split))
    BY <2>7, NamesProperties, ConcatEmptySeq
  <2> QED BY <1>11, <1>12, <2>1, <2>2, <2>3, <2>5, <2>6, <2>8
<1> HIDE DEF G
<1>15. G[r] = IF pc'[e] \in Serving THEN req'[e].parts ELSE <<>>
  <2>1. CASE split = 0
    <3>1. SubSeq(buffer, 1, split) = <<>> /\ pc'[e] = "read"
      BY <1>1, <1>4, <2>1 DEF TypeOK
    <3> HIDE DEF buffer
    <3> QED BY <1>14, <3>1, NamesOfNone DEF Serving
  <2>2. CASE split # 0
    <3>1. pc'[e] = "process" /\ req'[e] = ParseRequest(SubSeq(buffer, 1, split))
      BY <1>1, <1>4, <2>2 DEF TypeOK, PartsInv
    <3> HIDE DEF buffer
    <3> QED BY <1>14, <3>1, PartsOfRequest DEF Serving
  <2> QED BY <2>1, <2>2
<1>16. SentParts' = SentParts
  BY <1>4 DEF SentParts
<1>17. req' = [x \in Executors |-> req'[x]] /\ responses' = [d \in Connections |-> responses'[d]]
  BY <1>4 DEF PartsInv
<1>18. ASSUME NEW d \in Connections
       PROVE  G[<<"inbox", d>>] = Names(inbox'[d]) /\ G[<<"responses", d>>] = responses'[d]
  <2>1. /\ <<"inbox", d>> \in Places /\ <<"inbox", d>> # b /\ <<"inbox", d>> # r
        /\ <<"responses", d>> \in Places /\ <<"responses", d>> # b /\ <<"responses", d>> # r /\ <<"responses", d>> # i
    BY PlacesAre
  <2>2. G[<<"inbox", d>>] = H[<<"inbox", d>>] /\ G[<<"responses", d>>] = Held[<<"responses", d>>]
    BY <1>11, <1>14, <2>1
  <2>3. CASE d = c
    BY <1>1, <1>4, <1>11, <2>2, <2>3, HeldNow DEF TypeOK
  <2>4. CASE d # c
    <3>1. H[<<"inbox", d>>] = Held[<<"inbox", d>>]
      BY <1>11, <2>1, <2>4
    <3>2. inbox'[d] = inbox[d]
      BY <1>4, <2>4 DEF TypeOK
    <3> QED BY <1>4, <2>2, <3>1, <3>2, HeldNow
  <2> QED BY <2>3, <2>4
<1>19. ASSUME NEW x \in Executors
       PROVE  /\ G[<<"buffer_", x>>] = Names(buffer_'[x])
              /\ G[<<"req", x>>] = IF pc'[x] \in Serving THEN req'[x].parts ELSE <<>>
  <2>1. CASE x = e
    BY <1>14, <1>15, <2>1
  <2>2. CASE x # e
    <3>1. /\ <<"buffer_", x>> \in Places /\ <<"buffer_", x>> # b /\ <<"buffer_", x>> # r /\ <<"buffer_", x>> # i
          /\ <<"req", x>> \in Places /\ <<"req", x>> # b /\ <<"req", x>> # r /\ <<"req", x>> # i
      BY <2>2, PlacesAre
    <3>2. G[<<"buffer_", x>>] = Held[<<"buffer_", x>>] /\ G[<<"req", x>>] = Held[<<"req", x>>]
      BY <1>11, <1>14, <3>1
    <3>3. buffer_'[x] = buffer_[x] /\ pc'[x] = pc[x] /\ req'[x] = req[x]
      BY <1>4, <2>2 DEF TypeOK, PartsInv
    <3> QED BY <3>2, <3>3, HeldNow
  <2> QED BY <2>1, <2>2
<1> QED BY <1>13, <1>16, <1>17, <1>18, <1>19, HeldStep

(* A file read from a number that is a connection by now loses its parts.  *)
LEMMA PartsReadFile ==
  ASSUME TypeOK, PartsInv, NEW e \in Executors, ReadFile(e)
  PROVE  PartsInv'
<1>1. /\ pc[e] = "file" /\ pc' = [pc EXCEPT ![e] = "respond"]
      /\ UNCHANGED <<buffer_, req, sent, responses>>
  BY DEF ReadFile
<1>2. \A x \in Executors : pc'[x] \in Serving <=> pc[x] \in Serving
  BY <1>1 DEF Serving, TypeOK
<1>3. SentParts' = SentParts
  BY <1>1 DEF SentParts
<1>4. req' = [x \in Executors |-> req'[x]] /\ responses' = [d \in Connections |-> responses'[d]]
  BY <1>1 DEF PartsInv
<1>5. CASE inbox' = inbox
  <2>1. /\ \A d \in Connections : /\ Held[<<"inbox", d>>] = Names(inbox'[d])
                                  /\ Held[<<"responses", d>>] = responses'[d]
        /\ \A x \in Executors : /\ Held[<<"buffer_", x>>] = Names(buffer_'[x])
                                /\ Held[<<"req", x>>] = IF pc'[x] \in Serving THEN req'[x].parts ELSE <<>>
    BY <1>1, <1>2, <1>5, HeldNow
  <2> QED BY <1>3, <1>4, <2>1, HeldNow, HeldStep
<1>6. ASSUME NEW c \in Connections, NEW k \in DOMAIN inbox[c], inbox' = [inbox EXCEPT ![c] = Taken(c, k)]
      PROVE  PartsInv'
  <2> DEFINE i == <<"inbox", c>>
             G == [Held EXCEPT ![i] = SubSeq(Held[i], k + 1, Len(Held[i]))]
  <2>1. inbox[c] \in Seq(Parts) /\ k \in 0..Len(inbox[c])
    <3>1. inbox[c] \in Seq(Parts)
      BY DEF TypeOK
    <3> QED BY <3>1
  <2>2. /\ i \in Places /\ Held \in [Places -> Seq(SentParts)] /\ Unique(Held)
        /\ Held[i] = Names(inbox[c]) /\ k \in 0..Len(Held[i])
    BY <2>1, HeldNow, PlacesAre
  <2>3. G \in [Places -> Seq(SentParts)] /\ Unique(G)
    <3> HIDE DEF i, G
    <3> QED BY <2>2, DropKeepsUnique DEF G
  <2>4. G[i] = Names(inbox'[c])
    <3>1. G[i] = SubSeq(Names(inbox[c]), k + 1, Len(Names(inbox[c])))
      BY <2>2
    <3>2. inbox'[c] = Taken(c, k)
      BY <1>6 DEF TypeOK
    <3> QED BY <2>1, <3>1, <3>2, InboxDrop
  <2>5. \A p \in Places : p # i => G[p] = Held[p]
    BY <2>2
  <2> HIDE DEF G
  <2>6. ASSUME NEW d \in Connections
        PROVE  G[<<"inbox", d>>] = Names(inbox'[d]) /\ G[<<"responses", d>>] = responses'[d]
    <3>1. <<"inbox", d>> \in Places /\ <<"responses", d>> \in Places /\ <<"responses", d>> # i
      BY PlacesAre
    <3>2. CASE d = c
      BY <1>1, <2>4, <2>5, <3>1, <3>2, HeldNow
    <3>3. CASE d # c
      <4>1. inbox'[d] = inbox[d] /\ <<"inbox", d>> # i
        BY <1>6, <3>3 DEF TypeOK
      <4> QED BY <1>1, <2>5, <3>1, <4>1, HeldNow
    <3> QED BY <3>2, <3>3
  <2>7. ASSUME NEW x \in Executors
        PROVE  /\ G[<<"buffer_", x>>] = Names(buffer_'[x])
               /\ G[<<"req", x>>] = IF pc'[x] \in Serving THEN req'[x].parts ELSE <<>>
    <3>1. <<"buffer_", x>> \in Places /\ <<"buffer_", x>> # i /\ <<"req", x>> \in Places /\ <<"req", x>> # i
      BY PlacesAre
    <3> QED BY <1>1, <1>2, <2>5, <3>1, HeldNow
  <2> QED BY <1>3, <1>4, <2>3, <2>6, <2>7, HeldStep
<1>7. \/ inbox' = inbox
      \/ \E c \in Connections : \E k \in DOMAIN inbox[c] : inbox' = [inbox EXCEPT ![c] = Taken(c, k)]
  BY DEF ReadFile
<1> QED BY <1>5, <1>6, <1>7

(* A step that drops all of what one thread's buffer_ or req holds.        *)
LEMMA PartsDropped ==
  ASSUME TypeOK, PartsInv, NEW e \in Executors, NEW tag \in {"buffer_", "req"},
         UNCHANGED <<inbox, sent, responses>>,
         req' = [x \in Executors |-> req'[x]],
         \A x \in Executors : x # e => buffer_'[x] = buffer_[x] /\ pc'[x] = pc[x] /\ req'[x] = req[x],
         IF tag = "buffer_" THEN buffer_'[e] = <<>> ELSE buffer_'[e] = buffer_[e],
         pc'[e] \notin Serving, tag = "buffer_" => pc[e] \notin Serving
  PROVE  PartsInv'
<1> DEFINE a == <<tag, e>>
           k == Len(Held[a])
           G == [Held EXCEPT ![a] = SubSeq(Held[a], k + 1, Len(Held[a]))]
<1>1. /\ a \in Places /\ Held \in [Places -> Seq(SentParts)] /\ Unique(Held)
      /\ Held[a] \in Seq(SentParts)
  BY HeldNow, PlacesAre
<1>2. k \in 0..Len(Held[a])
  BY <1>1, DropAll
<1>3. G \in [Places -> Seq(SentParts)] /\ Unique(G)
  <2> HIDE DEF a, k, G
  <2> QED BY <1>1, <1>2, DropKeepsUnique DEF G
<1>4. G[a] = <<>>
  <2>1. SubSeq(Held[a], k + 1, Len(Held[a])) = <<>>
    BY <1>1, DropAll
  <2> HIDE DEF a, k
  <2> QED BY <1>1, <2>1
<1>5. \A p \in Places : p # a => G[p] = Held[p]
  BY <1>1
<1> HIDE DEF k, G
<1>6. ASSUME NEW c \in Connections
      PROVE  G[<<"inbox", c>>] = Names(inbox'[c]) /\ G[<<"responses", c>>] = responses'[c]
  <2>1. <<"inbox", c>> \in Places /\ <<"inbox", c>> # a /\ <<"responses", c>> \in Places /\ <<"responses", c>> # a
    BY PlacesAre
  <2> QED BY <1>5, <2>1, HeldNow
<1>7. ASSUME NEW x \in Executors
      PROVE  /\ G[<<"buffer_", x>>] = Names(buffer_'[x])
             /\ G[<<"req", x>>] = IF pc'[x] \in Serving THEN req'[x].parts ELSE <<>>
  <2>1. <<"buffer_", x>> \in Places /\ <<"req", x>> \in Places
    BY PlacesAre
  <2>2. CASE x # e
    <3>1. <<"buffer_", x>> # a /\ <<"req", x>> # a
      BY <2>2
    <3> QED BY <1>5, <2>1, <2>2, <3>1, HeldNow
  <2>3. CASE x = e /\ tag = "buffer_"
    <3>1. <<"req", x>> # a /\ <<"buffer_", x>> = a
      BY <2>3
    <3> QED BY <1>4, <1>5, <2>1, <2>3, <3>1, HeldNow, NamesOfNone
  <2>4. CASE x = e /\ tag = "req"
    <3>1. <<"buffer_", x>> # a /\ <<"req", x>> = a
      BY <2>4
    <3> QED BY <1>4, <1>5, <2>1, <2>4, <3>1, HeldNow
  <2> QED BY <2>2, <2>3, <2>4
<1>8. SentParts' = SentParts /\ responses' = [d \in Connections |-> responses'[d]]
  BY DEF SentParts, PartsInv
<1> QED BY <1>3, <1>6, <1>7, <1>8, HeldStep

(* Parts move from req to the answers of the connection the number names.  *)
LEMMA PartsWriteResponse ==
  ASSUME TypeOK, PartsInv, NEW e \in Executors, WriteResponse(e)
  PROVE  PartsInv'
<1> DEFINE c == fds[Fd(e)]
           a == <<"req", e>>
           b == <<"responses", c>>
           k == Len(Held[a])
           G == [Held EXCEPT ![a] = SubSeq(Held[a], k + 1, Len(Held[a])), ![b] = Held[b] \o SubSeq(Held[a], 1, k)]
<1>1. /\ c \in Connections /\ pc[e] = "respond"
      /\ responses' = [responses EXCEPT ![c] = @ \o req[e].parts]
      /\ pc' = [pc EXCEPT ![e] = "close"]
      /\ UNCHANGED <<buffer_, req, inbox, sent>>
  BY DEF WriteResponse
<1> HIDE DEF c
<1>2. /\ a \in Places /\ b \in Places /\ a # b
      /\ Held \in [Places -> Seq(SentParts)] /\ Unique(Held)
      /\ Held[a] = req[e].parts /\ Held[a] \in Seq(SentParts)
      /\ Held[b] = responses[c]
  BY <1>1, HeldNow, PlacesAre DEF Serving
<1>3. k \in 0..Len(Held[a])
  BY <1>2, DropAll
<1>4. G \in [Places -> Seq(SentParts)] /\ Unique(G)
  <2> HIDE DEF a, b, k, G
  <2> QED BY <1>2, <1>3, PourKeepsUnique DEF G
<1>5. G[a] = <<>> /\ G[b] = responses[c] \o req[e].parts
  <2>1. SubSeq(Held[a], k + 1, Len(Held[a])) = <<>> /\ SubSeq(Held[a], 1, k) = req[e].parts
    BY <1>2, DropAll, SubSeqFull
  <2> HIDE DEF a, b, k
  <2> QED BY <1>2, <2>1
<1>6. \A p \in Places : p # a /\ p # b => G[p] = Held[p]
  BY <1>2
<1> HIDE DEF k, G
<1>7. ASSUME NEW d \in Connections
      PROVE  G[<<"inbox", d>>] = Names(inbox'[d]) /\ G[<<"responses", d>>] = responses'[d]
  <2>1. /\ <<"inbox", d>> \in Places /\ <<"inbox", d>> # a /\ <<"inbox", d>> # b
        /\ <<"responses", d>> \in Places /\ <<"responses", d>> # a
    BY PlacesAre
  <2>2. G[<<"inbox", d>>] = Names(inbox'[d])
    BY <1>1, <1>6, <2>1, HeldNow
  <2>3. CASE d = c
    BY <1>1, <1>5, <2>2, <2>3 DEF PartsInv
  <2>4. CASE d # c
    <3>1. responses'[d] = responses[d] /\ <<"responses", d>> # b
      BY <1>1, <2>4 DEF PartsInv
    <3> QED BY <1>6, <2>1, <2>2, <3>1, HeldNow
  <2> QED BY <2>3, <2>4
<1>8. ASSUME NEW x \in Executors
      PROVE  /\ G[<<"buffer_", x>>] = Names(buffer_'[x])
             /\ G[<<"req", x>>] = IF pc'[x] \in Serving THEN req'[x].parts ELSE <<>>
  <2>1. /\ <<"buffer_", x>> \in Places /\ <<"buffer_", x>> # a /\ <<"buffer_", x>> # b
        /\ <<"req", x>> \in Places /\ <<"req", x>> # b
    BY PlacesAre
  <2>2. G[<<"buffer_", x>>] = Names(buffer_'[x])
    BY <1>1, <1>6, <2>1, HeldNow
  <2>3. CASE x = e
    BY <1>1, <1>5, <2>2, <2>3 DEF TypeOK, Serving
  <2>4. CASE x # e
    <3>1. pc'[x] = pc[x] /\ <<"req", x>> # a
      BY <1>1, <2>4 DEF TypeOK
    <3> QED BY <1>1, <1>6, <2>1, <2>2, <3>1, HeldNow
  <2> QED BY <2>3, <2>4
<1>9. /\ SentParts' = SentParts
      /\ req' = [x \in Executors |-> req'[x]] /\ responses' = [d \in Connections |-> responses'[d]]
  BY <1>1 DEF SentParts, PartsInv
<1> QED BY <1>4, <1>7, <1>8, <1>9, HeldStep

(* The steps that move no part: a thread may change its pc, but neither    *)
(* picks up a request nor leaves one.                                      *)
LEMMA PartsStay ==
  ASSUME TypeOK, PartsInv, UNCHANGED <<inbox, sent, responses, buffer_, req>>,
         \A x \in Executors : pc'[x] \in Serving <=> pc[x] \in Serving
  PROVE  PartsInv'
<1>1. /\ \A d \in Connections : /\ Held[<<"inbox", d>>] = Names(inbox'[d])
                                /\ Held[<<"responses", d>>] = responses'[d]
      /\ \A x \in Executors : /\ Held[<<"buffer_", x>>] = Names(buffer_'[x])
                              /\ Held[<<"req", x>>] = IF pc'[x] \in Serving THEN req'[x].parts ELSE <<>>
  BY HeldNow
<1>2. /\ SentParts' = SentParts
      /\ req' = [x \in Executors |-> req'[x]] /\ responses' = [d \in Connections |-> responses'[d]]
  BY DEF SentParts, PartsInv
<1> QED BY <1>1, <1>2, HeldNow, HeldStep

LEMMA InitParts == Init => PartsInv
<1> SUFFICES ASSUME Init PROVE PartsInv
  OBVIOUS
<1>1. /\ \A c \in Connections : inbox[c] = <<>> /\ responses[c] = <<>>
      /\ \A e \in Executors : buffer_[e] = <<>> /\ pc[e] = "idle"
      /\ req = [e \in Executors |-> req[e]] /\ responses = [c \in Connections |-> responses[c]]
  BY DEF Init
<1>2. Held = [p \in Places |-> Held[p]] /\ \A p \in Places : Held[p] = <<>>
  <2>1. /\ Held = [p \in Places |-> Held[p]]
        /\ \A c \in Connections : Held[<<"inbox", c>>] = <<>> /\ Held[<<"responses", c>>] = <<>>
        /\ \A e \in Executors : Held[<<"buffer_", e>>] = <<>> /\ Held[<<"req", e>>] = <<>>
    BY <1>1, HeldIs, NamesOfNone DEF Held, Serving
  <2> QED BY <2>1, PlacesAre, Zenon
<1>3. <<>> \in Seq(SentParts) /\ DOMAIN <<>> = {}
  OBVIOUS
<1>4. Held \in [Places -> Seq(SentParts)]
  BY <1>2, <1>3
<1>5. Unique(Held)
  BY <1>2, <1>3 DEF Unique
<1> QED BY <1>1, <1>4, <1>5 DEF PartsInv

LEMMA PartsStep ==
  ASSUME TypeOK, Ledger, PartsInv, [Next]_vars
  PROVE  PartsInv'
<1> USE DEF vars, poolVars, clientVars, connVars, sockVars
<1>1. CASE UNCHANGED <<inbox, sent, responses, buffer_, req, pc>>
  BY <1>1, PartsStay
<1>2. ASSUME NEW c \in Connections, Client(c) PROVE PartsInv'
  BY <1>1, <1>2, PartsSend DEF Client, Connect, HangUp
<1>3. CASE Server
  BY <1>1, <1>3 DEF Server, Accept, LookupFails, BindAndListen, AcceptFails, DestroyPool, DestroySocket,
                    Pool!Submit, Pool!BeginClose, Pool!EndClose
<1>4. ASSUME NEW e \in Executors, Start(e) PROVE PartsInv'
  <2>1. pc[e] = "idle"
    BY <1>4, NamesAssumption DEF Start, Pool!Start, Pool!Executors, Executors, TypeOK
  <2>2. \A x \in Executors : pc'[x] \in Serving <=> pc[x] \in Serving
    BY <1>4, <2>1 DEF Start, Serving, TypeOK
  <2> QED BY <1>4, <2>2, PartsStay DEF Start
<1>5. ASSUME NEW e \in Executors, CallRead(e) \/ ReadFails(e) PROVE PartsInv'
  <2>1. \A x \in Executors : pc'[x] \in Serving <=> pc[x] \in Serving
    BY <1>5 DEF CallRead, ReadFails, Serving, TypeOK
  <2> QED BY <1>5, <2>1, PartsStay DEF CallRead, ReadFails
<1>6. ASSUME NEW e \in Executors, ProcessRequest(e) PROVE PartsInv'
  <2>1. \A x \in Executors : pc'[x] \in Serving <=> pc[x] \in Serving
    BY <1>6 DEF ProcessRequest, Serving, TypeOK
  <2> QED BY <1>6, <2>1, PartsStay DEF ProcessRequest
<1>7. ASSUME NEW e \in Executors, WriteFails(e) PROVE PartsInv'
  BY <1>7, PartsDropped DEF WriteFails, TypeOK, PartsInv, Serving
<1>8. ASSUME NEW e \in Executors, DestroyConnection(e) PROVE PartsInv'
  <2>1. /\ pc[e] = "close" /\ buffer_' = [buffer_ EXCEPT ![e] = <<>>]
        /\ pc' = [pc EXCEPT ![e] = "idle"] \/ pc' = [pc EXCEPT ![e] = "read"]
        /\ req' = [req EXCEPT ![e] = NoRequest] \/ req' = req
        /\ UNCHANGED <<inbox, sent, responses>>
    BY <1>8 DEF DestroyConnection
  <2>2. /\ req' = [x \in Executors |-> req'[x]]
        /\ \A x \in Executors : x # e => buffer_'[x] = buffer_[x] /\ pc'[x] = pc[x] /\ req'[x] = req[x]
        /\ buffer_'[e] = <<>> /\ pc'[e] \notin Serving /\ pc[e] \notin Serving
    BY <2>1 DEF TypeOK, PartsInv, Serving
  <2> QED BY <2>1, <2>2, PartsDropped
<1> QED
  BY <1>1, <1>2, <1>3, <1>4, <1>5, <1>6, <1>7, <1>8, PartsReadReturns, PartsReadFile, PartsWriteResponse
  DEF Next, ThrFn, GetNextRequest, Over

-----------------------------------------------------------------------------
IInv == TypeOK /\ Ledger /\ ListenerInv /\ PartsInv

LEMMA InitIInv == Init => IInv
  BY InitTypes, InitListener, InitParts DEF IInv

LEMMA StepIInv == IInv /\ [Next]_vars => IInv'
  BY TypesStep, ListenerStep, PartsStep DEF IInv

THEOREM Invariance == Spec => []IInv
  BY InitIInv, StepIInv, PTL DEF Spec

(* Every variable of the server and its threads keeps its type, a thread   *)
(* executes HttpServer_ThrFn exactly while it has a task, holds a          *)
(* connection exactly while it reads, and a file's number while it serves  *)
(* one.                                                                    *)
THEOREM TypeCorrect == Spec => []TypeOK
<1>1. IInv => TypeOK
  BY DEF IInv
<1> QED BY <1>1, Invariance, PTL

(* The stale numbers that HttpServer_ThrFn closes are never the listening  *)
(* socket's while Run accepts on it, and the second close of               *)
(* listen_sock_fd_ hits nobody else's descriptor.                          *)
THEOREM ListenerIsSafe == Spec => []ListenerSurvives
<1>1. IInv => ListenerSurvives
  <2> SUFFICES ASSUME IInv PROVE ListenerSurvives
    OBVIOUS
  <2>1. ASSUME run = "quitting", phase = "closed"
        PROVE  fds[listen_fd] \in {"listener", "free"}
    <3>1. \A e \in Executors : file_fd[e] = -1
      BY <2>1 DEF IInv, Ledger, TypeOK
    <3>2. listen_fd \in FD /\ fds[listen_fd] \notin Connections
      BY <2>1 DEF IInv, Ledger, ListenerInv
    <3>3. fds[listen_fd] # "file"
      BY <3>1, <3>2, BoundsAssumption DEF IInv, ListenerInv, FD
    <3> QED BY <3>2, <3>3 DEF IInv, TypeOK
  <2> QED BY <2>1 DEF IInv, ListenerInv, ListenerSurvives
<1> QED BY <1>1, Invariance, PTL

(* No part of a request is answered twice, however threads and descriptors *)
(* get mixed up: a part is read by one thread, once.                       *)
THEOREM AnsweredOnce == Spec => []NoRequestAnsweredTwice
<1>1. IInv => NoRequestAnsweredTwice
  <2> SUFFICES ASSUME IInv, NEW c \in Connections, NEW d \in Connections,
                      NEW j \in DOMAIN responses[c], NEW k \in DOMAIN responses[d],
                      responses[c][j] = responses[d][k]
               PROVE  c = d /\ j = k
    BY DEF NoRequestAnsweredTwice
  <2> DEFINE p == <<"responses", c>>
             q == <<"responses", d>>
  <2>1. /\ Held \in [Places -> Seq(SentParts)] /\ Unique(Held) /\ p \in Places /\ q \in Places
        /\ Held[p] = responses[c] /\ Held[q] = responses[d]
    BY HeldNow, PlacesAre DEF IInv
  <2>2. p = q /\ j = k
    <3>1. p \in DOMAIN Held /\ q \in DOMAIN Held
      BY <2>1
    <3> HIDE DEF p, q
    <3> QED BY <2>1, <3>1, UniqueElim
  <2> QED BY <2>2
<1> QED BY <1>1, Invariance, PTL
=============================================================================
