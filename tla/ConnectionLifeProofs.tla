------------------------ MODULE ConnectionLifeProofs ------------------------
(***************************************************************************)
(* The life of connections, for any number of client slots and users and   *)
(* pipes of any capacity: types; no child returns into the accept loop; a  *)
(* connection stands while the server runs and its client stays; SIGPIPE   *)
(* kills the server only after the first client has gone.                  *)
(***************************************************************************)
EXTENDS ConnectionLife, TLAPS

(* Every step keeps the types.                                             *)
LEMMA NextTypeOK ==
  ASSUME TypeOK, [Next]_vars
  PROVE  TypeOK'
<1> USE ClientsAssumption, UsersAssumption, ServerAssumption,
   CapacityAssumption, BoundAssumption DEF TypeOK, descriptors, server,
   threads, pipes, connections, Clients, Processes, PipeThreadPCs,
   SocketThreadPCs, Leaving
<1>1. CASE Accept
  <2>1. num_clients_connected \in Clients
    BY <1>1 DEF Accept
  <2>2. sockets' \in [Processes -> SUBSET Clients]
    BY <1>1, <2>1 DEF Accept
  <2>3. QED
    BY <1>1, <2>2 DEF Accept
<1>2. CASE Fork
  BY <1>2 DEF Fork
<1>3. CASE CreateListener
  <2>1. num_clients_connected \in Clients
    BY <1>3 DEF CreateListener, ParentCloses
  <2>2. /\ num_clients_connected' \in 0 .. N_CLIENTS
        /\ main_pc' \in {"accept", "fork", "close", "join"}
        /\ main_pc' = "join" <=> num_clients_connected' = N_CLIENTS
    BY <1>3, <2>1 DEF CreateListener, ParentCloses
  <2>3. listener_pc' \in [Clients -> {"none", "getline", "done"}]
    BY <1>3, <2>1 DEF CreateListener, ParentCloses
  <2>4. pipe_ends' \in [Processes -> SUBSET PipeEnds]
    BY <1>3 DEF CreateListener, ParentCloses, ClosePipeEnds
  <2>5. QED
    BY <1>3, <2>2, <2>3, <2>4 DEF CreateListener, ParentCloses
<1>4. CASE SemWait
  <2>1. broadcast_message_ready' \in Nat
    BY <1>4 DEF SemWait
  <2>2. /\ broadcaster_pc' \in {"sem_wait", "write"}
        /\ served' \in 0 .. N_CLIENTS
        /\ broadcaster_pc' = "write" => served' < N_CLIENTS
    BY <1>4 DEF SemWait
  <2>3. QED
    BY <1>4, <2>1, <2>2 DEF SemWait
<1>5. CASE Write
  <2>1. served \in Clients /\ served + 1 \in 0 .. N_CLIENTS
    BY <1>5 DEF Write
  <2>2. to_client[served] + 1 \in 0 .. PIPE_CAPACITY
    BY <1>5, <2>1 DEF Write
  <2>3. to_client' \in [Clients -> 0 .. PIPE_CAPACITY]
    BY <1>5, <2>1, <2>2 DEF Write
  <2>4. /\ broadcaster_pc' \in {"sem_wait", "write"}
        /\ served' \in 0 .. N_CLIENTS
        /\ broadcaster_pc' = "write" => served' < N_CLIENTS
    BY <1>5, <2>1 DEF Write
  <2>5. QED
    BY <1>5, <2>3, <2>4 DEF Write
<1>6. CASE BrokenWrite
  BY <1>6 DEF BrokenWrite, Ends
<1>7. ASSUME NEW c \in Clients, Interpret(c) PROVE TypeOK'
  <2>1. to_server[c] - 1 \in 0 .. PIPE_CAPACITY
    BY <1>7 DEF Interpret
  <2>2. to_server' \in [Clients -> 0 .. PIPE_CAPACITY]
    BY <1>7, <2>1 DEF Interpret
  <2>3. broadcast_message_ready' \in Nat
    BY <1>7 DEF Interpret
  <2>4. QED
    BY <1>7, <2>2, <2>3 DEF Interpret
<1>8. ASSUME NEW c \in Clients, ListenerEnds(c) PROVE TypeOK'
  BY <1>8 DEF ListenerEnds, ClosePipeEnds
<1>9. ASSUME NEW c \in Clients, CloseAndStart(c) PROVE TypeOK'
  BY <1>9 DEF CloseAndStart, ClosePipeEnds
<1>10. ASSUME NEW c \in Clients, ErrorAndExit(c) PROVE TypeOK'
  BY <1>10 DEF ErrorAndExit, PipeThreadAt, SocketThreadAt, ChildEnds, Ends
<1>11. ASSUME NEW c \in Clients, PipeOpen(c) PROVE TypeOK'
  BY <1>11 DEF PipeOpen, PipeThreadAt, PipeThreadGoes
<1>12. ASSUME NEW c \in Clients, PipeGetLine(c) PROVE TypeOK'
  <2>1. to_client[c] - 1 \in 0 .. PIPE_CAPACITY
    BY <1>12 DEF PipeGetLine, PipeThreadAt, PipeThreadGoes
  <2>2. to_client' \in [Clients -> 0 .. PIPE_CAPACITY]
    BY <1>12, <2>1 DEF PipeGetLine, PipeThreadAt, PipeThreadGoes
  <2>3. QED
    BY <1>12, <2>2 DEF PipeGetLine, PipeThreadAt, PipeThreadGoes
<1>13. ASSUME NEW c \in Clients, PipeEOF(c) PROVE TypeOK'
  BY <1>13 DEF PipeEOF, PipeThreadAt, PipeThreadGoes
<1>14. ASSUME NEW c \in Clients, PipeWrite(c) PROVE TypeOK'
  BY <1>14 DEF PipeWrite, PipeThreadAt, PipeThreadGoes
<1>15. ASSUME NEW c \in Clients, PipeWriteDone(c) PROVE TypeOK'
  <2>0. c \in Users
    BY DEF Users
  <2>1. to_user[c] + 1 \in 0 .. SOCKET_CAPACITY
    BY <1>15, <2>0 DEF PipeWriteDone, PipeThreadAt, PipeThreadGoes
  <2>2. to_user' \in [Users -> 0 .. SOCKET_CAPACITY]
    BY <1>15, <2>1 DEF PipeWriteDone, PipeThreadAt, PipeThreadGoes
  <2>3. QED
    BY <1>15, <2>2 DEF PipeWriteDone, PipeThreadAt, PipeThreadGoes
<1>16. ASSUME NEW c \in Clients, PipeWriteLost(c) PROVE TypeOK'
  BY <1>16 DEF PipeWriteLost, PipeThreadAt, PipeThreadGoes
<1>17. ASSUME NEW c \in Clients, PipeWriteKilled(c) PROVE TypeOK'
  BY <1>17 DEF PipeWriteKilled, PipeThreadAt, ChildEnds, Ends
<1>18. ASSUME NEW c \in Clients, PipeClose(c) PROVE TypeOK'
  BY <1>18 DEF PipeClose, PipeThreadAt, PipeThreadGoes, CloseConnection
<1>19. ASSUME NEW c \in Clients, SocketOpen(c) PROVE TypeOK'
  BY <1>19 DEF SocketOpen, SocketThreadAt, SocketThreadGoes
<1>20. ASSUME NEW c \in Clients, SocketRead(c) PROVE TypeOK'
  BY <1>20 DEF SocketRead, SocketThreadAt, SocketThreadGoes
<1>21. ASSUME NEW c \in Clients, SocketGetLine(c) PROVE TypeOK'
  <2>0. c \in Users
    BY DEF Users
  <2>1. from_user[c] - 1 \in Nat
    BY <1>21, <2>0 DEF SocketGetLine, SocketThreadAt, SocketThreadGoes
  <2>2. from_user' \in [Users -> Nat]
    BY <1>21, <2>1 DEF SocketGetLine, SocketThreadAt, SocketThreadGoes
  <2>3. QED
    BY <1>21, <2>2 DEF SocketGetLine, SocketThreadAt, SocketThreadGoes
<1>22. ASSUME NEW c \in Clients, SocketEOF(c) PROVE TypeOK'
  BY <1>22 DEF SocketEOF, SocketThreadAt, SocketThreadGoes
<1>23. ASSUME NEW c \in Clients, SocketForward(c) PROVE TypeOK'
  <2>1. to_server[c] + 1 \in 0 .. PIPE_CAPACITY
    BY <1>23 DEF SocketForward, SocketThreadAt, SocketThreadGoes
  <2>2. to_server' \in [Clients -> 0 .. PIPE_CAPACITY]
    BY <1>23, <2>1 DEF SocketForward, SocketThreadAt, SocketThreadGoes
  <2>3. QED
    BY <1>23, <2>2 DEF SocketForward, SocketThreadAt, SocketThreadGoes
<1>24. ASSUME NEW c \in Clients, SocketForwardKilled(c) PROVE TypeOK'
  BY <1>24 DEF SocketForwardKilled, SocketThreadAt, ChildEnds, Ends
<1>25. ASSUME NEW c \in Clients, SocketClose(c) PROVE TypeOK'
  BY <1>25 DEF SocketClose, SocketThreadAt, SocketThreadGoes,
     CloseConnection
<1>26. ASSUME NEW u \in Users, Connect(u) PROVE TypeOK'
  BY <1>26 DEF Connect
<1>27. ASSUME NEW u \in Users, SendCommand(u) PROVE TypeOK'
  <2>1. from_user[u] + 1 \in Nat
    BY <1>27 DEF SendCommand
  <2>2. from_user' \in [Users -> Nat]
    BY <1>27, <2>1 DEF SendCommand
  <2>3. sent' \in Nat
    BY <1>27 DEF SendCommand
  <2>4. QED
    BY <1>27, <2>2, <2>3 DEF SendCommand
<1>28. ASSUME NEW u \in Users, ReadFrame(u) PROVE TypeOK'
  <2>1. to_user[u] - 1 \in 0 .. SOCKET_CAPACITY
    BY <1>28 DEF ReadFrame
  <2>2. to_user' \in [Users -> 0 .. SOCKET_CAPACITY]
    BY <1>28, <2>1 DEF ReadFrame
  <2>3. QED
    BY <1>28, <2>2 DEF ReadFrame
<1>29. ASSUME NEW u \in Users, Leave(u) PROVE TypeOK'
  <2>1. /\ client' \in [Users -> {"absent", "connected", "gone"}]
        /\ reset' \in [Users -> BOOLEAN]
    BY <1>29 DEF Leave
  <2>2. to_user' \in [Users -> 0 .. SOCKET_CAPACITY]
    BY <1>29 DEF Leave
  <2>3. from_user' \in [Users -> Nat]
    BY <1>29 DEF Leave
  <2>4. QED
    BY <1>29, <2>1, <2>2, <2>3 DEF Leave
<1>30. CASE Interrupt
  BY <1>30 DEF Interrupt
<1>31. CASE UNCHANGED vars
  BY <1>31 DEF vars
<1>32. ASSUME NEW c \in Clients, PipeThreadEnds(c) PROVE TypeOK'
  BY <1>32 DEF PipeThreadEnds, PipeThreadAt, PipeThreadGoes, ClosePipe,
     ClosePipeEnds
<1>33. ASSUME NEW c \in Clients, SocketThreadEnds(c) PROVE TypeOK'
  BY <1>33 DEF SocketThreadEnds, SocketThreadAt, SocketThreadGoes, ClosePipe,
     ClosePipeEnds
<1> QED
  BY <1>1, <1>2, <1>3, <1>4, <1>5, <1>6, <1>7, <1>8, <1>9, <1>10, <1>11, <1>12,
     <1>13, <1>14, <1>15, <1>16, <1>17, <1>18, <1>19, <1>20, <1>21, <1>22,
     <1>23, <1>24, <1>25, <1>26, <1>27, <1>28, <1>29, <1>30, <1>31, <1>32,
     <1>33
     DEF Next, Main, Broadcaster, Listener, Child, PipeThread, SocketThread,
         User

(* Children are forked in order, and start both threads.                   *)
LEMMA NextForkedInOrder ==
  ASSUME TypeOK, ForkedInOrder, [Next]_vars
  PROVE  ForkedInOrder'
<1> USE ClientsAssumption, ServerAssumption DEF TypeOK, ForkedInOrder, Clients,
   Processes, descriptors, server, threads, pipes, connections, Running
<1>1. CASE Accept
  BY <1>1 DEF Accept
<1>2. CASE Fork
  BY <1>2 DEF Fork
<1>3. CASE CreateListener
  BY <1>3 DEF CreateListener, ParentCloses, ClosePipeEnds
<1>4. CASE SemWait
  BY <1>4 DEF SemWait
<1>5. CASE Write
  BY <1>5 DEF Write
<1>6. CASE BrokenWrite
  BY <1>6 DEF BrokenWrite, Ends
<1>7. ASSUME NEW c \in Clients, Interpret(c) PROVE ForkedInOrder'
  BY <1>7 DEF Interpret
<1>8. ASSUME NEW c \in Clients, ListenerEnds(c) PROVE ForkedInOrder'
  BY <1>8 DEF ListenerEnds, ClosePipeEnds
<1>9. ASSUME NEW c \in Clients, CloseAndStart(c) PROVE ForkedInOrder'
  BY <1>9 DEF CloseAndStart, ClosePipeEnds
<1>10. ASSUME NEW c \in Clients, ErrorAndExit(c) PROVE ForkedInOrder'
  BY <1>10 DEF ErrorAndExit, PipeThreadAt, SocketThreadAt, ChildEnds, Ends
<1>11. ASSUME NEW c \in Clients, PipeOpen(c) PROVE ForkedInOrder'
  BY <1>11 DEF PipeOpen, PipeThreadAt, PipeThreadGoes
<1>12. ASSUME NEW c \in Clients, PipeGetLine(c) PROVE ForkedInOrder'
  BY <1>12 DEF PipeGetLine, PipeThreadAt, PipeThreadGoes
<1>13. ASSUME NEW c \in Clients, PipeEOF(c) PROVE ForkedInOrder'
  BY <1>13 DEF PipeEOF, PipeThreadAt, PipeThreadGoes
<1>14. ASSUME NEW c \in Clients, PipeWrite(c) PROVE ForkedInOrder'
  BY <1>14 DEF PipeWrite, PipeThreadAt, PipeThreadGoes
<1>15. ASSUME NEW c \in Clients, PipeWriteDone(c) PROVE ForkedInOrder'
  BY <1>15 DEF PipeWriteDone, PipeThreadAt, PipeThreadGoes
<1>16. ASSUME NEW c \in Clients, PipeWriteLost(c) PROVE ForkedInOrder'
  BY <1>16 DEF PipeWriteLost, PipeThreadAt, PipeThreadGoes
<1>17. ASSUME NEW c \in Clients, PipeWriteKilled(c) PROVE ForkedInOrder'
  BY <1>17 DEF PipeWriteKilled, PipeThreadAt, ChildEnds, Ends
<1>18. ASSUME NEW c \in Clients, PipeClose(c) PROVE ForkedInOrder'
  BY <1>18 DEF PipeClose, PipeThreadAt, PipeThreadGoes, CloseConnection
<1>19. ASSUME NEW c \in Clients, SocketOpen(c) PROVE ForkedInOrder'
  BY <1>19 DEF SocketOpen, SocketThreadAt, SocketThreadGoes
<1>20. ASSUME NEW c \in Clients, SocketRead(c) PROVE ForkedInOrder'
  BY <1>20 DEF SocketRead, SocketThreadAt, SocketThreadGoes
<1>21. ASSUME NEW c \in Clients, SocketGetLine(c) PROVE ForkedInOrder'
  BY <1>21 DEF SocketGetLine, SocketThreadAt, SocketThreadGoes
<1>22. ASSUME NEW c \in Clients, SocketEOF(c) PROVE ForkedInOrder'
  BY <1>22 DEF SocketEOF, SocketThreadAt, SocketThreadGoes
<1>23. ASSUME NEW c \in Clients, SocketForward(c) PROVE ForkedInOrder'
  BY <1>23 DEF SocketForward, SocketThreadAt, SocketThreadGoes
<1>24. ASSUME NEW c \in Clients, SocketForwardKilled(c) PROVE ForkedInOrder'
  BY <1>24 DEF SocketForwardKilled, SocketThreadAt, ChildEnds, Ends
<1>25. ASSUME NEW c \in Clients, SocketClose(c) PROVE ForkedInOrder'
  BY <1>25 DEF SocketClose, SocketThreadAt, SocketThreadGoes,
     CloseConnection
<1>26. ASSUME NEW u \in Users, Connect(u) PROVE ForkedInOrder'
  BY <1>26 DEF Connect
<1>27. ASSUME NEW u \in Users, SendCommand(u) PROVE ForkedInOrder'
  BY <1>27 DEF SendCommand
<1>28. ASSUME NEW u \in Users, ReadFrame(u) PROVE ForkedInOrder'
  BY <1>28 DEF ReadFrame
<1>29. ASSUME NEW u \in Users, Leave(u) PROVE ForkedInOrder'
  BY <1>29 DEF Leave
<1>30. CASE Interrupt
  BY <1>30 DEF Interrupt
<1>31. CASE UNCHANGED vars
  BY <1>31 DEF vars
<1>32. ASSUME NEW c \in Clients, PipeThreadEnds(c) PROVE ForkedInOrder'
  BY <1>32 DEF PipeThreadEnds, PipeThreadAt, PipeThreadGoes, ClosePipe,
     ClosePipeEnds
<1>33. ASSUME NEW c \in Clients, SocketThreadEnds(c) PROVE ForkedInOrder'
  BY <1>33 DEF SocketThreadEnds, SocketThreadAt, SocketThreadGoes, ClosePipe,
     ClosePipeEnds
<1> QED
  BY <1>1, <1>2, <1>3, <1>4, <1>5, <1>6, <1>7, <1>8, <1>9, <1>10, <1>11, <1>12,
     <1>13, <1>14, <1>15, <1>16, <1>17, <1>18, <1>19, <1>20, <1>21, <1>22,
     <1>23, <1>24, <1>25, <1>26, <1>27, <1>28, <1>29, <1>30, <1>31, <1>32,
     <1>33
     DEF Next, Main, Broadcaster, Listener, Child, PipeThread, SocketThread,
         User

(* The listener thread starts, and the server closes two ends it does not  *)
(* need.                                                                   *)
LEMMA CreateListenerHolds ==
  TypeOK /\ ServerHolds /\ CreateListener => ServerHolds'
<1> SUFFICES ASSUME TypeOK, ServerHolds, CreateListener PROVE ServerHolds'
  OBVIOUS
<1> DEFINE k == num_clients_connected
           held == pipe_ends[Server]
<1> USE DEF READ, WRITE, CLIENT_TO_SERVER, SERVER_TO_CLIENT
<1>1. /\ k \in Clients /\ k' = k + 1
      /\ Running(Server) /\ main_pc' # "fork"
      /\ listener_pc \in [Clients -> {"none", "getline", "done"}]
      /\ listener_pc' = [listener_pc EXCEPT ![k] = "getline"]
  BY ClientsAssumption
     DEF CreateListener, ParentCloses, TypeOK, Clients
<1>2. pipe_ends'[Server] = held \ {<<k, 0, 1>>, <<k, 1, 0>>}
  BY DEF CreateListener, ParentCloses, ClosePipeEnds, TypeOK, Processes
<1>3. ASSUME NEW d \in Clients
      PROVE  /\ <<d, 1, 1>> \in held
             /\ listener_pc[d] # "done" => <<d, 0, 0>> \in held
             /\ d >= k => <<d, 1, 0>> \in held /\ <<d, 0, 1>> \in held
             /\ listener_pc[d] = "none" <=> d >= k
  BY <1>1 DEF ServerHolds
<1>4. ASSUME NEW d \in Clients
      PROVE  /\ <<d, 1, 1>> \in pipe_ends'[Server]
             /\ listener_pc'[d] # "done" => <<d, 0, 0>> \in pipe_ends'[Server]
             /\ d >= k' => /\ <<d, 1, 0>> \in pipe_ends'[Server]
                           /\ <<d, 0, 1>> \in pipe_ends'[Server]
             /\ listener_pc'[d] = "none" <=> d >= k'
  <2>1. d \in Int /\ k \in Int
    BY <1>1 DEF Clients
  <2>2. CASE d = k
    <3>1. d >= k /\ listener_pc'[d] = "getline"
      BY <1>1, <2>1, <2>2
    <3>2. ~(d >= k')
      BY <1>1, <2>1, <2>2
    <3>3. QED
      BY <1>2, <1>3, <3>1, <3>2
  <2>3. CASE d # k
    <3>1. listener_pc'[d] = listener_pc[d]
      BY <1>1, <2>3
    <3>2. d >= k' <=> d >= k
      BY <1>1, <2>1, <2>3
    <3>3. QED
      BY <1>2, <1>3, <2>3, <3>1, <3>2
  <2>4. QED
    BY <2>2, <2>3
<1>5. QED
  BY <1>1, <1>4 DEF ServerHolds

(* A listener thread closes the end it has read to the end.                *)
LEMMA ListenerEndsHolds ==
  ASSUME NEW c \in Clients
  PROVE  TypeOK /\ ServerHolds /\ ListenerEnds(c) => ServerHolds'
<1> SUFFICES ASSUME TypeOK, ServerHolds, ListenerEnds(c) PROVE ServerHolds'
  OBVIOUS
<1> DEFINE k == num_clients_connected
           held == pipe_ends[Server]
<1> USE DEF READ, WRITE, CLIENT_TO_SERVER, SERVER_TO_CLIENT
<1>1. /\ Running(Server) /\ listener_pc[c] = "getline"
      /\ UNCHANGED <<sockets, main_pc, k>>
      /\ listener_pc \in [Clients -> {"none", "getline", "done"}]
      /\ listener_pc' = [listener_pc EXCEPT ![c] = "done"]
      /\ pipe_ends'[Server] = held \ {<<c, 0, 0>>}
  BY DEF ListenerEnds, ClosePipeEnds, TypeOK, Processes
<1>2. ASSUME NEW d \in Clients
      PROVE  /\ <<d, 1, 1>> \in held
             /\ listener_pc[d] # "done" => <<d, 0, 0>> \in held
             /\ d >= k => <<d, 1, 0>> \in held /\ <<d, 0, 1>> \in held
             /\ listener_pc[d] = "none" <=> d >= k
  BY <1>1 DEF ServerHolds
<1>3. ASSUME NEW d \in Clients
      PROVE  /\ <<d, 1, 1>> \in pipe_ends'[Server]
             /\ listener_pc'[d] # "done" => <<d, 0, 0>> \in pipe_ends'[Server]
             /\ d >= k' => /\ <<d, 1, 0>> \in pipe_ends'[Server]
                           /\ <<d, 0, 1>> \in pipe_ends'[Server]
             /\ listener_pc'[d] = "none" <=> d >= k'
  <2>1. CASE d = c
    <3>1. listener_pc'[d] = "done"
      BY <1>1, <2>1
    <3>2. ~(d >= k)
      BY <1>1, <1>2, <2>1
    <3>3. <<d, 1, 1>> # <<c, 0, 0>>
      OBVIOUS
    <3>4. QED
      BY <1>1, <1>2, <3>1, <3>2, <3>3
  <2>2. CASE d # c
    <3>1. listener_pc'[d] = listener_pc[d]
      BY <1>1, <2>2
    <3>2. QED
      BY <1>1, <1>2, <2>2, <3>1
  <2>3. QED
    BY <2>1, <2>2
<1>4. QED
  BY <1>1, <1>3 DEF ServerHolds

(* The server holds its ends of all pipes.                                 *)
LEMMA NextServerHolds ==
  ASSUME TypeOK, ServerHolds, [Next]_vars
  PROVE  ServerHolds'
<1> USE ClientsAssumption, ServerAssumption DEF TypeOK, ServerHolds, Clients,
   Processes, READ, WRITE, CLIENT_TO_SERVER, SERVER_TO_CLIENT, descriptors,
   server, threads, pipes, connections, Running
<1>1. CASE Accept
  BY <1>1 DEF Accept
<1>2. CASE Fork
  BY <1>2 DEF Fork
<1>3. CASE CreateListener
  BY <1>3, CreateListenerHolds
<1>4. CASE SemWait
  BY <1>4 DEF SemWait
<1>5. CASE Write
  BY <1>5 DEF Write
<1>6. CASE BrokenWrite
  BY <1>6 DEF BrokenWrite, Ends
<1>7. ASSUME NEW c \in Clients, Interpret(c) PROVE ServerHolds'
  BY <1>7 DEF Interpret
<1>8. ASSUME NEW c \in Clients, ListenerEnds(c) PROVE ServerHolds'
  BY <1>8, ListenerEndsHolds
<1>9. ASSUME NEW c \in Clients, CloseAndStart(c) PROVE ServerHolds'
  BY <1>9 DEF CloseAndStart, ClosePipeEnds
<1>10. ASSUME NEW c \in Clients, ErrorAndExit(c) PROVE ServerHolds'
  BY <1>10 DEF ErrorAndExit, PipeThreadAt, SocketThreadAt, ChildEnds, Ends
<1>11. ASSUME NEW c \in Clients, PipeOpen(c) PROVE ServerHolds'
  BY <1>11 DEF PipeOpen, PipeThreadAt, PipeThreadGoes
<1>12. ASSUME NEW c \in Clients, PipeGetLine(c) PROVE ServerHolds'
  BY <1>12 DEF PipeGetLine, PipeThreadAt, PipeThreadGoes
<1>13. ASSUME NEW c \in Clients, PipeEOF(c) PROVE ServerHolds'
  BY <1>13 DEF PipeEOF, PipeThreadAt, PipeThreadGoes
<1>14. ASSUME NEW c \in Clients, PipeWrite(c) PROVE ServerHolds'
  BY <1>14 DEF PipeWrite, PipeThreadAt, PipeThreadGoes
<1>15. ASSUME NEW c \in Clients, PipeWriteDone(c) PROVE ServerHolds'
  BY <1>15 DEF PipeWriteDone, PipeThreadAt, PipeThreadGoes
<1>16. ASSUME NEW c \in Clients, PipeWriteLost(c) PROVE ServerHolds'
  BY <1>16 DEF PipeWriteLost, PipeThreadAt, PipeThreadGoes
<1>17. ASSUME NEW c \in Clients, PipeWriteKilled(c) PROVE ServerHolds'
  BY <1>17 DEF PipeWriteKilled, PipeThreadAt, ChildEnds, Ends
<1>18. ASSUME NEW c \in Clients, PipeClose(c) PROVE ServerHolds'
  BY <1>18 DEF PipeClose, PipeThreadAt, PipeThreadGoes, CloseConnection
<1>19. ASSUME NEW c \in Clients, SocketOpen(c) PROVE ServerHolds'
  BY <1>19 DEF SocketOpen, SocketThreadAt, SocketThreadGoes
<1>20. ASSUME NEW c \in Clients, SocketRead(c) PROVE ServerHolds'
  BY <1>20 DEF SocketRead, SocketThreadAt, SocketThreadGoes
<1>21. ASSUME NEW c \in Clients, SocketGetLine(c) PROVE ServerHolds'
  BY <1>21 DEF SocketGetLine, SocketThreadAt, SocketThreadGoes
<1>22. ASSUME NEW c \in Clients, SocketEOF(c) PROVE ServerHolds'
  BY <1>22 DEF SocketEOF, SocketThreadAt, SocketThreadGoes
<1>23. ASSUME NEW c \in Clients, SocketForward(c) PROVE ServerHolds'
  BY <1>23 DEF SocketForward, SocketThreadAt, SocketThreadGoes
<1>24. ASSUME NEW c \in Clients, SocketForwardKilled(c) PROVE ServerHolds'
  BY <1>24 DEF SocketForwardKilled, SocketThreadAt, ChildEnds, Ends
<1>25. ASSUME NEW c \in Clients, SocketClose(c) PROVE ServerHolds'
  BY <1>25 DEF SocketClose, SocketThreadAt, SocketThreadGoes,
     CloseConnection
<1>26. ASSUME NEW u \in Users, Connect(u) PROVE ServerHolds'
  BY <1>26 DEF Connect
<1>27. ASSUME NEW u \in Users, SendCommand(u) PROVE ServerHolds'
  BY <1>27 DEF SendCommand
<1>28. ASSUME NEW u \in Users, ReadFrame(u) PROVE ServerHolds'
  BY <1>28 DEF ReadFrame
<1>29. ASSUME NEW u \in Users, Leave(u) PROVE ServerHolds'
  BY <1>29 DEF Leave
<1>30. CASE Interrupt
  BY <1>30 DEF Interrupt
<1>31. CASE UNCHANGED vars
  BY <1>31 DEF vars
<1>32. ASSUME NEW c \in Clients, PipeThreadEnds(c) PROVE ServerHolds'
  BY <1>32 DEF PipeThreadEnds, PipeThreadAt, PipeThreadGoes, ClosePipe,
     ClosePipeEnds
<1>33. ASSUME NEW c \in Clients, SocketThreadEnds(c) PROVE ServerHolds'
  BY <1>33 DEF SocketThreadEnds, SocketThreadAt, SocketThreadGoes, ClosePipe,
     ClosePipeEnds
<1> QED
  BY <1>1, <1>2, <1>3, <1>4, <1>5, <1>6, <1>7, <1>8, <1>9, <1>10, <1>11, <1>12,
     <1>13, <1>14, <1>15, <1>16, <1>17, <1>18, <1>19, <1>20, <1>21, <1>22,
     <1>23, <1>24, <1>25, <1>26, <1>27, <1>28, <1>29, <1>30, <1>31, <1>32,
     <1>33
     DEF Next, Main, Broadcaster, Listener, Child, PipeThread, SocketThread,
         User

(* Only a client that has gone has its connection reset.                   *)
LEMMA NextResetAfterLeave ==
  ASSUME TypeOK, ResetAfterLeave, [Next]_vars
  PROVE  ResetAfterLeave'
<1> USE UsersAssumption DEF TypeOK, ResetAfterLeave, Clients, Users,
   descriptors, server, threads, pipes, connections, Running
<1>1. CASE Accept
  BY <1>1 DEF Accept
<1>2. CASE Fork
  BY <1>2 DEF Fork
<1>3. CASE CreateListener
  BY <1>3 DEF CreateListener, ParentCloses, ClosePipeEnds
<1>4. CASE SemWait
  BY <1>4 DEF SemWait
<1>5. CASE Write
  BY <1>5 DEF Write
<1>6. CASE BrokenWrite
  BY <1>6 DEF BrokenWrite, Ends
<1>7. ASSUME NEW c \in Clients, Interpret(c) PROVE ResetAfterLeave'
  BY <1>7 DEF Interpret
<1>8. ASSUME NEW c \in Clients, ListenerEnds(c) PROVE ResetAfterLeave'
  BY <1>8 DEF ListenerEnds, ClosePipeEnds
<1>9. ASSUME NEW c \in Clients, CloseAndStart(c) PROVE ResetAfterLeave'
  BY <1>9 DEF CloseAndStart, ClosePipeEnds
<1>10. ASSUME NEW c \in Clients, ErrorAndExit(c) PROVE ResetAfterLeave'
  BY <1>10 DEF ErrorAndExit, PipeThreadAt, SocketThreadAt, ChildEnds, Ends
<1>11. ASSUME NEW c \in Clients, PipeOpen(c) PROVE ResetAfterLeave'
  BY <1>11 DEF PipeOpen, PipeThreadAt, PipeThreadGoes
<1>12. ASSUME NEW c \in Clients, PipeGetLine(c) PROVE ResetAfterLeave'
  BY <1>12 DEF PipeGetLine, PipeThreadAt, PipeThreadGoes
<1>13. ASSUME NEW c \in Clients, PipeEOF(c) PROVE ResetAfterLeave'
  BY <1>13 DEF PipeEOF, PipeThreadAt, PipeThreadGoes
<1>14. ASSUME NEW c \in Clients, PipeWrite(c) PROVE ResetAfterLeave'
  BY <1>14 DEF PipeWrite, PipeThreadAt, PipeThreadGoes
<1>15. ASSUME NEW c \in Clients, PipeWriteDone(c) PROVE ResetAfterLeave'
  BY <1>15 DEF PipeWriteDone, PipeThreadAt, PipeThreadGoes
<1>16. ASSUME NEW c \in Clients, PipeWriteLost(c) PROVE ResetAfterLeave'
  BY <1>16 DEF PipeWriteLost, PipeThreadAt, PipeThreadGoes
<1>17. ASSUME NEW c \in Clients, PipeWriteKilled(c) PROVE ResetAfterLeave'
  BY <1>17 DEF PipeWriteKilled, PipeThreadAt, ChildEnds, Ends
<1>18. ASSUME NEW c \in Clients, PipeClose(c) PROVE ResetAfterLeave'
  BY <1>18 DEF PipeClose, PipeThreadAt, PipeThreadGoes, CloseConnection
<1>19. ASSUME NEW c \in Clients, SocketOpen(c) PROVE ResetAfterLeave'
  BY <1>19 DEF SocketOpen, SocketThreadAt, SocketThreadGoes
<1>20. ASSUME NEW c \in Clients, SocketRead(c) PROVE ResetAfterLeave'
  BY <1>20 DEF SocketRead, SocketThreadAt, SocketThreadGoes
<1>21. ASSUME NEW c \in Clients, SocketGetLine(c) PROVE ResetAfterLeave'
  BY <1>21 DEF SocketGetLine, SocketThreadAt, SocketThreadGoes
<1>22. ASSUME NEW c \in Clients, SocketEOF(c) PROVE ResetAfterLeave'
  BY <1>22 DEF SocketEOF, SocketThreadAt, SocketThreadGoes
<1>23. ASSUME NEW c \in Clients, SocketForward(c) PROVE ResetAfterLeave'
  BY <1>23 DEF SocketForward, SocketThreadAt, SocketThreadGoes
<1>24. ASSUME NEW c \in Clients, SocketForwardKilled(c) PROVE ResetAfterLeave'
  BY <1>24 DEF SocketForwardKilled, SocketThreadAt, ChildEnds, Ends
<1>25. ASSUME NEW c \in Clients, SocketClose(c) PROVE ResetAfterLeave'
  BY <1>25 DEF SocketClose, SocketThreadAt, SocketThreadGoes,
     CloseConnection
<1>26. ASSUME NEW u \in Users, Connect(u) PROVE ResetAfterLeave'
  BY <1>26 DEF Connect
<1>27. ASSUME NEW u \in Users, SendCommand(u) PROVE ResetAfterLeave'
  BY <1>27 DEF SendCommand
<1>28. ASSUME NEW u \in Users, ReadFrame(u) PROVE ResetAfterLeave'
  BY <1>28 DEF ReadFrame
<1>29. ASSUME NEW u \in Users, Leave(u) PROVE ResetAfterLeave'
  BY <1>29 DEF Leave
<1>30. CASE Interrupt
  BY <1>30 DEF Interrupt
<1>31. CASE UNCHANGED vars
  BY <1>31 DEF vars
<1>32. ASSUME NEW c \in Clients, PipeThreadEnds(c) PROVE ResetAfterLeave'
  BY <1>32 DEF PipeThreadEnds, PipeThreadAt, PipeThreadGoes, ClosePipe,
     ClosePipeEnds
<1>33. ASSUME NEW c \in Clients, SocketThreadEnds(c) PROVE ResetAfterLeave'
  BY <1>33 DEF SocketThreadEnds, SocketThreadAt, SocketThreadGoes, ClosePipe,
     ClosePipeEnds
<1> QED
  BY <1>1, <1>2, <1>3, <1>4, <1>5, <1>6, <1>7, <1>8, <1>9, <1>10, <1>11, <1>12,
     <1>13, <1>14, <1>15, <1>16, <1>17, <1>18, <1>19, <1>20, <1>21, <1>22,
     <1>23, <1>24, <1>25, <1>26, <1>27, <1>28, <1>29, <1>30, <1>31, <1>32,
     <1>33
     DEF Next, Main, Broadcaster, Listener, Child, PipeThread, SocketThread,
         User

(* Of the two threads of a child only one closes the connection without an *)
(* error: once it has, the connection is not there for the other one.      *)
LEMMA NextOneThreadCloses ==
  ASSUME TypeOK, ForkedInOrder, OneThreadCloses, [Next]_vars
  PROVE  OneThreadCloses'
<1> USE ClientsAssumption, ServerAssumption DEF TypeOK, ForkedInOrder,
   OneThreadCloses, Leaving, Closed, Clients, Processes, descriptors, server,
   threads, pipes, connections, Running
<1>1. CASE Accept
  BY <1>1 DEF Accept
<1>2. CASE Fork
  BY <1>2 DEF Fork
<1>3. CASE CreateListener
  BY <1>3 DEF CreateListener, ParentCloses, ClosePipeEnds
<1>4. CASE SemWait
  BY <1>4 DEF SemWait
<1>5. CASE Write
  BY <1>5 DEF Write
<1>6. CASE BrokenWrite
  BY <1>6 DEF BrokenWrite, Ends
<1>7. ASSUME NEW c \in Clients, Interpret(c) PROVE OneThreadCloses'
  BY <1>7 DEF Interpret
<1>8. ASSUME NEW c \in Clients, ListenerEnds(c) PROVE OneThreadCloses'
  BY <1>8 DEF ListenerEnds, ClosePipeEnds
<1>9. ASSUME NEW c \in Clients, CloseAndStart(c) PROVE OneThreadCloses'
  BY <1>9 DEF CloseAndStart, ClosePipeEnds
<1>10. ASSUME NEW c \in Clients, ErrorAndExit(c) PROVE OneThreadCloses'
  BY <1>10 DEF ErrorAndExit, PipeThreadAt, SocketThreadAt, ChildEnds, Ends
<1>11. ASSUME NEW c \in Clients, PipeOpen(c) PROVE OneThreadCloses'
  BY <1>11 DEF PipeOpen, PipeThreadAt, PipeThreadGoes
<1>12. ASSUME NEW c \in Clients, PipeGetLine(c) PROVE OneThreadCloses'
  BY <1>12 DEF PipeGetLine, PipeThreadAt, PipeThreadGoes
<1>13. ASSUME NEW c \in Clients, PipeEOF(c) PROVE OneThreadCloses'
  BY <1>13 DEF PipeEOF, PipeThreadAt, PipeThreadGoes
<1>14. ASSUME NEW c \in Clients, PipeWrite(c) PROVE OneThreadCloses'
  BY <1>14 DEF PipeWrite, PipeThreadAt, PipeThreadGoes
<1>15. ASSUME NEW c \in Clients, PipeWriteDone(c) PROVE OneThreadCloses'
  BY <1>15 DEF PipeWriteDone, PipeThreadAt, PipeThreadGoes
<1>16. ASSUME NEW c \in Clients, PipeWriteLost(c) PROVE OneThreadCloses'
  BY <1>16 DEF PipeWriteLost, PipeThreadAt, PipeThreadGoes
<1>17. ASSUME NEW c \in Clients, PipeWriteKilled(c) PROVE OneThreadCloses'
  BY <1>17 DEF PipeWriteKilled, PipeThreadAt, ChildEnds, Ends
<1>18. ASSUME NEW c \in Clients, PipeClose(c) PROVE OneThreadCloses'
  BY <1>18 DEF PipeClose, PipeThreadAt, PipeThreadGoes, CloseConnection
<1>19. ASSUME NEW c \in Clients, SocketOpen(c) PROVE OneThreadCloses'
  BY <1>19 DEF SocketOpen, SocketThreadAt, SocketThreadGoes
<1>20. ASSUME NEW c \in Clients, SocketRead(c) PROVE OneThreadCloses'
  BY <1>20 DEF SocketRead, SocketThreadAt, SocketThreadGoes
<1>21. ASSUME NEW c \in Clients, SocketGetLine(c) PROVE OneThreadCloses'
  BY <1>21 DEF SocketGetLine, SocketThreadAt, SocketThreadGoes
<1>22. ASSUME NEW c \in Clients, SocketEOF(c) PROVE OneThreadCloses'
  BY <1>22 DEF SocketEOF, SocketThreadAt, SocketThreadGoes
<1>23. ASSUME NEW c \in Clients, SocketForward(c) PROVE OneThreadCloses'
  BY <1>23 DEF SocketForward, SocketThreadAt, SocketThreadGoes
<1>24. ASSUME NEW c \in Clients, SocketForwardKilled(c) PROVE OneThreadCloses'
  BY <1>24 DEF SocketForwardKilled, SocketThreadAt, ChildEnds, Ends
<1>25. ASSUME NEW c \in Clients, SocketClose(c) PROVE OneThreadCloses'
  BY <1>25 DEF SocketClose, SocketThreadAt, SocketThreadGoes,
     CloseConnection
<1>26. ASSUME NEW u \in Users, Connect(u) PROVE OneThreadCloses'
  BY <1>26 DEF Connect
<1>27. ASSUME NEW u \in Users, SendCommand(u) PROVE OneThreadCloses'
  BY <1>27 DEF SendCommand
<1>28. ASSUME NEW u \in Users, ReadFrame(u) PROVE OneThreadCloses'
  BY <1>28 DEF ReadFrame
<1>29. ASSUME NEW u \in Users, Leave(u) PROVE OneThreadCloses'
  BY <1>29 DEF Leave
<1>30. CASE Interrupt
  BY <1>30 DEF Interrupt
<1>31. CASE UNCHANGED vars
  BY <1>31 DEF vars
<1>32. ASSUME NEW c \in Clients, PipeThreadEnds(c) PROVE OneThreadCloses'
  BY <1>32 DEF PipeThreadEnds, PipeThreadAt, PipeThreadGoes, ClosePipe,
     ClosePipeEnds
<1>33. ASSUME NEW c \in Clients, SocketThreadEnds(c) PROVE OneThreadCloses'
  BY <1>33 DEF SocketThreadEnds, SocketThreadAt, SocketThreadGoes, ClosePipe,
     ClosePipeEnds
<1> QED
  BY <1>1, <1>2, <1>3, <1>4, <1>5, <1>6, <1>7, <1>8, <1>9, <1>10, <1>11, <1>12,
     <1>13, <1>14, <1>15, <1>16, <1>17, <1>18, <1>19, <1>20, <1>21, <1>22,
     <1>23, <1>24, <1>25, <1>26, <1>27, <1>28, <1>29, <1>30, <1>31, <1>32,
     <1>33
     DEF Next, Main, Broadcaster, Listener, Child, PipeThread, SocketThread,
         User

(* What makes a child stand, used for one child at a time.                 *)
LEMMA StandsAll ==
  ASSUME \A d \in Clients :
           /\ Running(Server)' /\ status'[d] # "none" /\ client'[d] # "gone"
           => ChildStands(d)'
  PROVE  ChildrenStand'
BY DEF ChildrenStand, Running

(* A new child has a copy of all that the server holds.                    *)
LEMMA ForkStands ==
  TypeOK /\ ForkedInOrder /\ ServerHolds /\ ChildrenStand /\ Fork
    => ChildrenStand'
<1> SUFFICES ASSUME TypeOK, ForkedInOrder, ServerHolds, ChildrenStand, Fork
             PROVE  ChildrenStand'
  OBVIOUS
<1> DEFINE k == num_clients_connected
<1>1. k \in Clients /\ k \in Processes /\ k # Server /\ Server \in Processes
  BY ClientsAssumption, ServerAssumption DEF Fork, TypeOK, Clients, Processes
<1>2. /\ Running(Server) /\ main_pc = "fork"
      /\ status' = [status EXCEPT ![k] = "running"]
      /\ pipe_ends' = [pipe_ends EXCEPT ![k] = pipe_ends[Server]]
      /\ sockets' = [sockets EXCEPT ![k] = sockets[Server]]
      /\ UNCHANGED <<pipe_thread, socket_thread, listener_pc, client>>
  BY DEF Fork, server, threads, pipes, connections
<1>3. /\ status'[k] = "running"
      /\ pipe_ends'[k] = pipe_ends[Server]
      /\ sockets'[k] = sockets[Server]
  BY <1>1, <1>2 DEF TypeOK
<1>4. ASSUME NEW d \in Clients, Running(Server)', status'[d] # "none",
             client'[d] # "gone"
      PROVE  ChildStands(d)'
  <2>1. CASE d = k
    <3>1. pipe_thread[k] = "none" /\ socket_thread[k] = "none"
      <4>1. ~(k < k)
        BY <1>1 DEF Clients
      <4>2. QED
        BY <1>1, <1>2, <4>1 DEF ForkedInOrder
    <3>2. /\ k \in sockets[Server]
          /\ \A e \in Clients : e >= k =>
               /\ <<e, SERVER_TO_CLIENT, READ>> \in pipe_ends[Server]
               /\ <<e, CLIENT_TO_SERVER, WRITE>> \in pipe_ends[Server]
               /\ listener_pc[e] = "none"
      BY <1>2 DEF ServerHolds
    <3>3. k >= k /\ (k = 0 => \A e \in Clients : e >= k)
      BY <1>1 DEF Clients
    <3>4. QED
      BY <1>1, <1>2, <1>3, <2>1, <3>1, <3>2, <3>3
         DEF ChildStands, Running, Leaving
  <2>2. CASE d # k
    <3>1. d \in Processes
      BY DEF Processes
    <3>2. /\ status'[d] = status[d] /\ pipe_ends'[d] = pipe_ends[d]
          /\ sockets'[d] = sockets[d]
      BY <1>2, <2>2, <3>1 DEF TypeOK
    <3>3. ChildStands(d)
      BY <1>2, <1>4, <3>2 DEF ChildrenStand
    <3>4. QED
      BY <1>2, <3>2, <3>3 DEF ChildStands, Running
  <2>3. QED
    BY <2>1, <2>2
<1>5. QED
  BY <1>4, StandsAll

(* A child that stands keeps the server's listener from an end of file.    *)
LEMMA ListenerEndsStands ==
  ASSUME NEW c \in Clients
  PROVE  TypeOK /\ ForkedInOrder /\ ServerHolds /\ ChildrenStand
           /\ ListenerEnds(c) => ChildrenStand'
<1> SUFFICES ASSUME TypeOK, ForkedInOrder, ServerHolds, ChildrenStand,
                    ListenerEnds(c)
             PROVE  ChildrenStand'
  OBVIOUS
<1>1. /\ Running(Server) /\ listener_pc[c] = "getline"
      /\ Writers(c, CLIENT_TO_SERVER) = {}
      /\ listener_pc' = [listener_pc EXCEPT ![c] = "done"]
      /\ pipe_ends' = [pipe_ends EXCEPT ![Server] =
                         @ \ {<<c, CLIENT_TO_SERVER, READ>>}]
      /\ UNCHANGED <<status, sockets, pipe_thread, socket_thread, client>>
  BY DEF ListenerEnds, ClosePipeEnds, threads, connections
<1>2. status[c] # "none"
  <2>1. ~(c >= num_clients_connected)
    BY <1>1 DEF ServerHolds
  <2>2. c < num_clients_connected
    BY <2>1 DEF TypeOK, Clients
  <2>3. QED
    BY <2>2 DEF ForkedInOrder
<1>3. client[c] = "gone"
  <2>1. c \in Processes
    BY DEF Processes
  <2>2. <<c, CLIENT_TO_SERVER, WRITE>> \notin pipe_ends[c]
    BY <1>1, <2>1 DEF Writers
  <2>3. QED
    BY <1>1, <1>2, <2>2 DEF ChildrenStand, ChildStands
<1>4. ASSUME NEW d \in Clients, Running(Server)', status'[d] # "none",
             client'[d] # "gone"
      PROVE  ChildStands(d)'
  <2>1. d # c /\ d # Server
    BY <1>1, <1>3, <1>4, ServerAssumption
  <2>2. listener_pc'[d] = listener_pc[d] /\ pipe_ends'[d] = pipe_ends[d]
    BY <1>1, <2>1 DEF TypeOK, Processes
  <2>3. ChildStands(d)
    BY <1>1, <1>4 DEF ChildrenStand
  <2>4. QED
    BY <1>1, <2>2, <2>3 DEF ChildStands, Running
<1>5. QED
  BY <1>4, StandsAll

(* A child closes the two ends that its threads do not need.               *)
LEMMA CloseAndStartStands ==
  ASSUME NEW c \in Clients
  PROVE  TypeOK /\ ChildrenStand /\ CloseAndStart(c) => ChildrenStand'
<1> SUFFICES ASSUME TypeOK, ChildrenStand, CloseAndStart(c)
             PROVE  ChildrenStand'
  OBVIOUS
<1> USE DEF READ, WRITE, CLIENT_TO_SERVER, SERVER_TO_CLIENT
<1>1. /\ pipe_ends' = [pipe_ends EXCEPT ![c] =
                         @ \ {<<c, 0, 0>>, <<c, 1, 1>>}]
      /\ pipe_thread' = [pipe_thread EXCEPT ![c] = "fdopen"]
      /\ socket_thread' = [socket_thread EXCEPT ![c] = "fdopen"]
      /\ UNCHANGED <<status, sockets, listener_pc, client>>
  BY DEF CloseAndStart, ClosePipeEnds, server, connections
<1>2. ASSUME NEW d \in Clients, Running(Server)', status'[d] # "none",
             client'[d] # "gone"
      PROVE  ChildStands(d)'
  <2>1. ChildStands(d)
    BY <1>1, <1>2 DEF ChildrenStand, Running
  <2>2. CASE d = c
    <3>1. /\ pipe_ends'[c] = pipe_ends[c] \ {<<c, 0, 0>>, <<c, 1, 1>>}
          /\ pipe_thread'[c] = "fdopen" /\ socket_thread'[c] = "fdopen"
      BY <1>1 DEF TypeOK, Processes
    <3>2. QED
      BY <1>1, <2>1, <2>2, <3>1 DEF ChildStands, Running, Leaving
  <2>3. CASE d # c
    <3>1. /\ pipe_ends'[d] = pipe_ends[d]
          /\ pipe_thread'[d] = pipe_thread[d]
          /\ socket_thread'[d] = socket_thread[d]
      BY <1>1, <2>3 DEF TypeOK, Processes
    <3>2. QED
      BY <1>1, <2>1, <3>1 DEF ChildStands, Running
  <2>4. QED
    BY <2>2, <2>3
<1>3. QED
  BY <1>2, StandsAll

(* A child that ends does not stand, so its client has gone or the server  *)
(* does not run.                                                           *)
LEMMA ChildEndsStands ==
  ASSUME NEW c \in Clients, NEW how \in {"exited", "killed"},
         ChildEnds(c, how), TypeOK, ChildrenStand,
         Running(Server) => client[c] = "gone"
  PROVE  ChildrenStand'
<1>1. /\ status' = [status EXCEPT ![c] = how]
      /\ pipe_ends' = [pipe_ends EXCEPT ![c] = {}]
      /\ sockets' = [sockets EXCEPT ![c] = {}]
      /\ UNCHANGED <<pipe_thread, socket_thread, listener_pc, client>>
  BY DEF ChildEnds, Ends, server, threads, connections
<1>2. ASSUME NEW d \in Clients, Running(Server)', status'[d] # "none",
             client'[d] # "gone"
      PROVE  ChildStands(d)'
  <2>1. Running(Server)
    BY <1>1, <1>2, ServerAssumption DEF TypeOK, Processes, Running
  <2>2. d # c
    BY <1>1, <1>2, <2>1
  <2>3. /\ status'[d] = status[d] /\ pipe_ends'[d] = pipe_ends[d]
        /\ sockets'[d] = sockets[d]
    BY <1>1, <2>2 DEF TypeOK, Processes
  <2>4. ChildStands(d)
    BY <1>1, <1>2, <2>1, <2>3 DEF ChildrenStand
  <2>5. QED
    BY <1>1, <2>3, <2>4 DEF ChildStands, Running
<1>3. QED
  BY <1>2, StandsAll

(* The child of a client that stays, stands.                               *)
LEMMA NextChildrenStand ==
  ASSUME TypeOK, ForkedInOrder, ServerHolds, ChildrenStand, ResetAfterLeave,
     [Next]_vars
  PROVE  ChildrenStand'
<1> USE ClientsAssumption, ServerAssumption, UsersAssumption DEF TypeOK,
   ForkedInOrder, ServerHolds, ChildrenStand, ChildStands, ResetAfterLeave,
   Leaving, Readers, Writers, Clients, Processes, Users, READ, WRITE,
   CLIENT_TO_SERVER, SERVER_TO_CLIENT, descriptors, server, threads, pipes,
   connections, Running
<1>1. CASE Accept
  BY <1>1 DEF Accept
<1>2. CASE Fork
  BY <1>2, ForkStands
<1>3. CASE CreateListener
  BY <1>3 DEF CreateListener, ParentCloses, ClosePipeEnds
<1>4. CASE SemWait
  BY <1>4 DEF SemWait
<1>5. CASE Write
  BY <1>5 DEF Write
<1>6. CASE BrokenWrite
  BY <1>6 DEF BrokenWrite, Ends
<1>7. ASSUME NEW c \in Clients, Interpret(c) PROVE ChildrenStand'
  BY <1>7 DEF Interpret
<1>8. ASSUME NEW c \in Clients, ListenerEnds(c) PROVE ChildrenStand'
  BY <1>8, ListenerEndsStands
<1>9. ASSUME NEW c \in Clients, CloseAndStart(c) PROVE ChildrenStand'
  BY <1>9, CloseAndStartStands
<1>10. ASSUME NEW c \in Clients, ErrorAndExit(c) PROVE ChildrenStand'
  <2>1. Running(Server) => client[c] = "gone"
    <3>1. Running(c) /\ (c \in sockets[c] => pipe_thread[c] = "fclose")
      BY <1>10 DEF ErrorAndExit, PipeThreadAt, SocketThreadAt
    <3>2. QED
      BY <3>1
  <2>2. QED
    BY <1>10, <2>1, ChildEndsStands DEF ErrorAndExit
<1>11. ASSUME NEW c \in Clients, PipeOpen(c) PROVE ChildrenStand'
  BY <1>11 DEF PipeOpen, PipeThreadAt, PipeThreadGoes
<1>12. ASSUME NEW c \in Clients, PipeGetLine(c) PROVE ChildrenStand'
  BY <1>12 DEF PipeGetLine, PipeThreadAt, PipeThreadGoes
<1>13. ASSUME NEW c \in Clients, PipeEOF(c) PROVE ChildrenStand'
  BY <1>13 DEF PipeEOF, PipeThreadAt, PipeThreadGoes
<1>14. ASSUME NEW c \in Clients, PipeWrite(c) PROVE ChildrenStand'
  BY <1>14 DEF PipeWrite, PipeThreadAt, PipeThreadGoes
<1>15. ASSUME NEW c \in Clients, PipeWriteDone(c) PROVE ChildrenStand'
  BY <1>15 DEF PipeWriteDone, PipeThreadAt, PipeThreadGoes
<1>16. ASSUME NEW c \in Clients, PipeWriteLost(c) PROVE ChildrenStand'
  BY <1>16 DEF PipeWriteLost, PipeThreadAt, PipeThreadGoes
<1>17. ASSUME NEW c \in Clients, PipeWriteKilled(c) PROVE ChildrenStand'
  <2>1. client[c] = "gone"
    BY <1>17 DEF PipeWriteKilled
  <2>2. QED
    BY <1>17, <2>1, ChildEndsStands DEF PipeWriteKilled
<1>18. ASSUME NEW c \in Clients, PipeClose(c) PROVE ChildrenStand'
  BY <1>18 DEF PipeClose, PipeThreadAt, PipeThreadGoes, CloseConnection
<1>19. ASSUME NEW c \in Clients, SocketOpen(c) PROVE ChildrenStand'
  BY <1>19 DEF SocketOpen, SocketThreadAt, SocketThreadGoes
<1>20. ASSUME NEW c \in Clients, SocketRead(c) PROVE ChildrenStand'
  BY <1>20 DEF SocketRead, SocketThreadAt, SocketThreadGoes
<1>21. ASSUME NEW c \in Clients, SocketGetLine(c) PROVE ChildrenStand'
  BY <1>21 DEF SocketGetLine, SocketThreadAt, SocketThreadGoes
<1>22. ASSUME NEW c \in Clients, SocketEOF(c) PROVE ChildrenStand'
  <2>1. ASSUME NEW d \in Clients, Running(Server)', status'[d] # "none",
               client'[d] # "gone"
        PROVE  ChildStands(d)'
    <3>1. client'[c] = "gone"
      BY <1>22 DEF SocketEOF
    <3>2. d # c
      BY <2>1, <3>1
    <3>3. socket_thread'[d] = socket_thread[d]
      BY <1>22, <3>2 DEF SocketEOF, SocketThreadGoes
    <3>4. QED
      BY <1>22, <2>1, <3>3 DEF SocketEOF, SocketThreadGoes
  <2>2. QED
    BY <2>1, StandsAll
<1>23. ASSUME NEW c \in Clients, SocketForward(c) PROVE ChildrenStand'
  BY <1>23 DEF SocketForward, SocketThreadAt, SocketThreadGoes
<1>24. ASSUME NEW c \in Clients, SocketForwardKilled(c) PROVE ChildrenStand'
  <2>1. Running(Server) => client[c] = "gone"
    BY <1>24 DEF SocketForwardKilled, SocketThreadAt
  <2>2. QED
    BY <1>24, <2>1, ChildEndsStands DEF SocketForwardKilled
<1>25. ASSUME NEW c \in Clients, SocketClose(c) PROVE ChildrenStand'
  BY <1>25 DEF SocketClose, SocketThreadAt, SocketThreadGoes,
     CloseConnection
<1>26. ASSUME NEW u \in Users, Connect(u) PROVE ChildrenStand'
  <2>1. ASSUME NEW d \in Clients, Running(Server)', status'[d] # "none",
               client'[d] # "gone"
        PROVE  ChildStands(d)'
    <3>1. d \in Users
      OBVIOUS
    <3>2. client[d] # "gone"
      BY <1>26, <2>1, <3>1 DEF Connect
    <3>3. QED
      BY <1>26, <2>1, <3>2 DEF Connect
  <2>2. QED
    BY <2>1, StandsAll
<1>27. ASSUME NEW u \in Users, SendCommand(u) PROVE ChildrenStand'
  BY <1>27 DEF SendCommand
<1>28. ASSUME NEW u \in Users, ReadFrame(u) PROVE ChildrenStand'
  BY <1>28 DEF ReadFrame
<1>29. ASSUME NEW u \in Users, Leave(u) PROVE ChildrenStand'
  <2>1. ASSUME NEW d \in Clients, Running(Server)', status'[d] # "none",
               client'[d] # "gone"
        PROVE  ChildStands(d)'
    <3>1. d \in Users
      OBVIOUS
    <3>2. client[d] # "gone"
      BY <1>29, <2>1, <3>1 DEF Leave
    <3>3. QED
      BY <1>29, <2>1, <3>2 DEF Leave
  <2>2. QED
    BY <2>1, StandsAll
<1>30. CASE Interrupt
  BY <1>30 DEF Interrupt
<1>31. CASE UNCHANGED vars
  BY <1>31 DEF vars
<1>32. ASSUME NEW c \in Clients, PipeThreadEnds(c) PROVE ChildrenStand'
  BY <1>32 DEF PipeThreadEnds, PipeThreadAt, PipeThreadGoes, ClosePipe,
     ClosePipeEnds
<1>33. ASSUME NEW c \in Clients, SocketThreadEnds(c) PROVE ChildrenStand'
  BY <1>33 DEF SocketThreadEnds, SocketThreadAt, SocketThreadGoes, ClosePipe,
     ClosePipeEnds
<1> QED
  BY <1>1, <1>2, <1>3, <1>4, <1>5, <1>6, <1>7, <1>8, <1>9, <1>10, <1>11, <1>12,
     <1>13, <1>14, <1>15, <1>16, <1>17, <1>18, <1>19, <1>20, <1>21, <1>22,
     <1>23, <1>24, <1>25, <1>26, <1>27, <1>28, <1>29, <1>30, <1>31, <1>32,
     <1>33
     DEF Next, Main, Broadcaster, Listener, Child, PipeThread, SocketThread,
         User

(* When no process can read the pipe it writes to, the server had a first  *)
(* client and its child does not stand.                                    *)
LEMMA BrokenWriteTooLate ==
  ASSUME TypeOK, ForkedInOrder, ServerHolds, ChildrenStand, BrokenWrite
  PROVE  ServerKilledOnlyAfterFirstClient'
<1>1. /\ Running(Server) /\ served \in Clients
      /\ Readers(served, SERVER_TO_CLIENT) = {}
      /\ client' = client
  BY ClientsAssumption DEF BrokenWrite, connections, TypeOK, Clients
<1>2. \A p \in Processes :
          <<served, SERVER_TO_CLIENT, READ>> \notin pipe_ends[p]
  BY <1>1 DEF Readers
<1>3. served < num_clients_connected
  <2>1. ~(served >= num_clients_connected)
    BY <1>1, <1>2 DEF ServerHolds, Processes
  <2>2. QED
    BY <1>1, <2>1 DEF TypeOK, Clients
<1>4. 0 \in Clients /\ 0 < num_clients_connected
  BY <1>1, <1>3, ClientsAssumption DEF TypeOK, Clients
<1>5. status[0] # "none"
  BY <1>4 DEF ForkedInOrder
<1>6. client[0] = "gone"
  BY <1>1, <1>2, <1>4, <1>5 DEF ChildrenStand, ChildStands, Processes
<1>7. QED
  BY <1>1, <1>6 DEF ServerKilledOnlyAfterFirstClient

(* SIGPIPE kills the server only after the first client has gone.          *)
LEMMA NextServerKilled ==
  ASSUME TypeOK, ForkedInOrder, ServerHolds, ChildrenStand,
     ServerKilledOnlyAfterFirstClient, [Next]_vars
  PROVE  ServerKilledOnlyAfterFirstClient'
<1> USE ClientsAssumption, ServerAssumption, UsersAssumption DEF TypeOK,
   ForkedInOrder, ServerHolds, ChildrenStand, ChildStands,
   ServerKilledOnlyAfterFirstClient, Clients, Processes, Users, READ, WRITE,
   CLIENT_TO_SERVER, SERVER_TO_CLIENT, Readers, descriptors, server, threads,
   pipes, connections, Running
<1>1. CASE Accept
  BY <1>1 DEF Accept
<1>2. CASE Fork
  BY <1>2 DEF Fork
<1>3. CASE CreateListener
  BY <1>3 DEF CreateListener, ParentCloses, ClosePipeEnds
<1>4. CASE SemWait
  BY <1>4 DEF SemWait
<1>5. CASE Write
  BY <1>5 DEF Write
<1>6. CASE BrokenWrite
  BY <1>6, BrokenWriteTooLate DEF Running
<1>7. ASSUME NEW c \in Clients, Interpret(c)
      PROVE  ServerKilledOnlyAfterFirstClient'
  BY <1>7 DEF Interpret
<1>8. ASSUME NEW c \in Clients, ListenerEnds(c)
      PROVE  ServerKilledOnlyAfterFirstClient'
  BY <1>8 DEF ListenerEnds, ClosePipeEnds
<1>9. ASSUME NEW c \in Clients, CloseAndStart(c)
      PROVE  ServerKilledOnlyAfterFirstClient'
  BY <1>9 DEF CloseAndStart, ClosePipeEnds
<1>10. ASSUME NEW c \in Clients, ErrorAndExit(c)
      PROVE  ServerKilledOnlyAfterFirstClient'
  BY <1>10 DEF ErrorAndExit, PipeThreadAt, SocketThreadAt, ChildEnds, Ends
<1>11. ASSUME NEW c \in Clients, PipeOpen(c)
      PROVE  ServerKilledOnlyAfterFirstClient'
  BY <1>11 DEF PipeOpen, PipeThreadAt, PipeThreadGoes
<1>12. ASSUME NEW c \in Clients, PipeGetLine(c)
      PROVE  ServerKilledOnlyAfterFirstClient'
  BY <1>12 DEF PipeGetLine, PipeThreadAt, PipeThreadGoes
<1>13. ASSUME NEW c \in Clients, PipeEOF(c)
      PROVE  ServerKilledOnlyAfterFirstClient'
  BY <1>13 DEF PipeEOF, PipeThreadAt, PipeThreadGoes
<1>14. ASSUME NEW c \in Clients, PipeWrite(c)
      PROVE  ServerKilledOnlyAfterFirstClient'
  BY <1>14 DEF PipeWrite, PipeThreadAt, PipeThreadGoes
<1>15. ASSUME NEW c \in Clients, PipeWriteDone(c)
      PROVE  ServerKilledOnlyAfterFirstClient'
  BY <1>15 DEF PipeWriteDone, PipeThreadAt, PipeThreadGoes
<1>16. ASSUME NEW c \in Clients, PipeWriteLost(c)
      PROVE  ServerKilledOnlyAfterFirstClient'
  BY <1>16 DEF PipeWriteLost, PipeThreadAt, PipeThreadGoes
<1>17. ASSUME NEW c \in Clients, PipeWriteKilled(c)
      PROVE  ServerKilledOnlyAfterFirstClient'
  BY <1>17 DEF PipeWriteKilled, PipeThreadAt, ChildEnds, Ends
<1>18. ASSUME NEW c \in Clients, PipeClose(c)
      PROVE  ServerKilledOnlyAfterFirstClient'
  BY <1>18 DEF PipeClose, PipeThreadAt, PipeThreadGoes, CloseConnection
<1>19. ASSUME NEW c \in Clients, SocketOpen(c)
      PROVE  ServerKilledOnlyAfterFirstClient'
  BY <1>19 DEF SocketOpen, SocketThreadAt, SocketThreadGoes
<1>20. ASSUME NEW c \in Clients, SocketRead(c)
      PROVE  ServerKilledOnlyAfterFirstClient'
  BY <1>20 DEF SocketRead, SocketThreadAt, SocketThreadGoes
<1>21. ASSUME NEW c \in Clients, SocketGetLine(c)
      PROVE  ServerKilledOnlyAfterFirstClient'
  BY <1>21 DEF SocketGetLine, SocketThreadAt, SocketThreadGoes
<1>22. ASSUME NEW c \in Clients, SocketEOF(c)
      PROVE  ServerKilledOnlyAfterFirstClient'
  BY <1>22 DEF SocketEOF, SocketThreadAt, SocketThreadGoes
<1>23. ASSUME NEW c \in Clients, SocketForward(c)
      PROVE  ServerKilledOnlyAfterFirstClient'
  BY <1>23 DEF SocketForward, SocketThreadAt, SocketThreadGoes
<1>24. ASSUME NEW c \in Clients, SocketForwardKilled(c)
      PROVE  ServerKilledOnlyAfterFirstClient'
  BY <1>24 DEF SocketForwardKilled, SocketThreadAt, ChildEnds, Ends
<1>25. ASSUME NEW c \in Clients, SocketClose(c)
      PROVE  ServerKilledOnlyAfterFirstClient'
  BY <1>25 DEF SocketClose, SocketThreadAt, SocketThreadGoes,
     CloseConnection
<1>26. ASSUME NEW u \in Users, Connect(u)
      PROVE  ServerKilledOnlyAfterFirstClient'
  BY <1>26 DEF Connect
<1>27. ASSUME NEW u \in Users, SendCommand(u)
      PROVE  ServerKilledOnlyAfterFirstClient'
  BY <1>27 DEF SendCommand
<1>28. ASSUME NEW u \in Users, ReadFrame(u)
      PROVE  ServerKilledOnlyAfterFirstClient'
  BY <1>28 DEF ReadFrame
<1>29. ASSUME NEW u \in Users, Leave(u) PROVE ServerKilledOnlyAfterFirstClient'
  BY <1>29 DEF Leave
<1>30. CASE Interrupt
  BY <1>30 DEF Interrupt
<1>31. CASE UNCHANGED vars
  BY <1>31 DEF vars
<1>32. ASSUME NEW c \in Clients, PipeThreadEnds(c)
      PROVE  ServerKilledOnlyAfterFirstClient'
  BY <1>32 DEF PipeThreadEnds, PipeThreadAt, PipeThreadGoes, ClosePipe,
     ClosePipeEnds
<1>33. ASSUME NEW c \in Clients, SocketThreadEnds(c)
      PROVE  ServerKilledOnlyAfterFirstClient'
  BY <1>33 DEF SocketThreadEnds, SocketThreadAt, SocketThreadGoes, ClosePipe,
     ClosePipeEnds
<1> QED
  BY <1>1, <1>2, <1>3, <1>4, <1>5, <1>6, <1>7, <1>8, <1>9, <1>10, <1>11, <1>12,
     <1>13, <1>14, <1>15, <1>16, <1>17, <1>18, <1>19, <1>20, <1>21, <1>22,
     <1>23, <1>24, <1>25, <1>26, <1>27, <1>28, <1>29, <1>30, <1>31, <1>32,
     <1>33
     DEF Next, Main, Broadcaster, Listener, Child, PipeThread, SocketThread,
         User

(* The initial state satisfies the invariant.                              *)
LEMMA InitInv == Init => Inv
<1> SUFFICES ASSUME Init PROVE Inv
  OBVIOUS
<1> USE ClientsAssumption, UsersAssumption, ServerAssumption,
        CapacityAssumption, BoundAssumption
    DEF Init, Clients, Processes, Users
<1>1. TypeOK
  BY DEF TypeOK, PipeThreadPCs, SocketThreadPCs, Leaving
<1>2. ForkedInOrder
  BY DEF ForkedInOrder
<1>3. ServerHolds
  BY DEF ServerHolds, PipeEnds, READ, WRITE, CLIENT_TO_SERVER,
         SERVER_TO_CLIENT
<1>4. ChildrenStand
  BY DEF ChildrenStand
<1>5. ResetAfterLeave
  BY DEF ResetAfterLeave
<1>6. OneThreadCloses
  BY DEF OneThreadCloses, Closed
<1>7. ServerKilledOnlyAfterFirstClient
  BY DEF ServerKilledOnlyAfterFirstClient
<1>8. QED
  BY <1>1, <1>2, <1>3, <1>4, <1>5, <1>6, <1>7 DEF Inv

(* Every reachable state satisfies the invariant.                          *)
LEMMA Invariance == Spec => []Inv
<1>1. Inv /\ [Next]_vars => Inv'
  BY NextTypeOK, NextForkedInOrder, NextServerHolds, NextChildrenStand,
     NextResetAfterLeave, NextOneThreadCloses, NextServerKilled
     DEF Inv
<1>2. QED
  BY InitInv, <1>1, PTL DEF Spec

(* The variables keep their types.                                         *)
THEOREM TypeCorrect == Spec => []TypeOK
<1>1. Inv => TypeOK
  BY DEF Inv
<1>2. QED
  BY Invariance, <1>1, PTL

(* client_facing_process never returns to accept_client: of the child's    *)
(* two threads, the second to close the connection ends the process.       *)
THEOREM ChildrenNeverReturn == Spec => []NoChildReturns
<1>1. Inv => NoChildReturns
  BY DEF Inv, OneThreadCloses, Closed, NoChildReturns
<1>2. QED
  BY Invariance, <1>1, PTL

(* While the server runs and a client stays, nothing between them closes,  *)
(* whatever other clients do.                                              *)
THEOREM ConnectionsStand == Spec => []ConnectionStands
<1>1. Inv => ConnectionStands
  <2> SUFFICES ASSUME Inv, NEW c \in Clients, Running(Server),
                      c < num_clients_connected, client[c] = "connected"
               PROVE  /\ ChildStands(c)
                      /\ listener_pc[c] = "getline"
    BY DEF ConnectionStands, ChildStands
  <2>1. ChildStands(c)
    BY DEF Inv, ForkedInOrder, ChildrenStand
  <2>2. listener_pc[c] # "none"
    <3>1. ~(c >= num_clients_connected)
      BY DEF Inv, TypeOK, Clients
    <3>2. QED
      BY <3>1 DEF Inv, ServerHolds
  <2>3. QED
    BY <2>1, <2>2 DEF ChildStands, Inv, TypeOK
<1>2. QED
  BY Invariance, <1>1, PTL

(* SIGPIPE kills the server only after the first client has gone, since    *)
(* the first child holds the reading ends of all pipes towards clients.    *)
THEOREM ServerSurvives == Spec => []ServerKilledOnlyAfterFirstClient
<1>1. Inv => ServerKilledOnlyAfterFirstClient
  BY DEF Inv
<1>2. QED
  BY Invariance, <1>1, PTL

=============================================================================
