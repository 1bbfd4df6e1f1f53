---------------------- MODULE RubiksServerStreamProofs ----------------------
(***************************************************************************)
(* The server, for any number of client slots, pipes of any capacity and   *)
(* any number of commands: all clients are sent the same states in the     *)
(* same order.  The inductive invariant is StreamInv of RubiksServer.      *)
(***************************************************************************)
EXTENDS RubiksServerProofs, SequenceTheorems, FiniteSetTheorems

(* The versions of a pipe's frames are a sequence of numbers as long.      *)
LEMMA VersionsType ==
  ASSUME NEW s \in Seq(Frames)
  PROVE  /\ Versions(s) \in Seq(Nat)
         /\ Len(Versions(s)) = Len(s)
         /\ \A k \in 1 .. Len(s) : Versions(s)[k] = s[k].version
<1>1. \A k \in 1 .. Len(s) : s[k].version \in Nat
  <2> SUFFICES ASSUME NEW k \in 1 .. Len(s) PROVE s[k].version \in Nat
    OBVIOUS
  <2>1. s[k] \in Frames
    BY ElementOfSeq
  <2> QED
    BY <2>1 DEF Frames
<1>2. Len(s) \in Nat
  OBVIOUS
<1>3. Versions(s) \in [1 .. Len(s) -> Nat]
  BY <1>1 DEF Versions
<1>4. Versions(s) \in Seq(Nat)
  BY <1>2, <1>3
<1>5. Len(Versions(s)) = Len(s)
  BY <1>2, <1>3, <1>4, LenProperties
<1>6. \A k \in 1 .. Len(s) : Versions(s)[k] = s[k].version
  BY DEF Versions
<1> QED
  BY <1>4, <1>5, <1>6

(* What has been received, followed by the versions of a pipe's frames.    *)
LEMMA ConcatVersions ==
  ASSUME NEW r \in Seq(Nat), NEW s \in Seq(Frames)
  PROVE  /\ r \o Versions(s) \in Seq(Nat)
         /\ Len(r \o Versions(s)) = Len(r) + Len(s)
         /\ \A k \in 1 .. Len(r) + Len(s) :
              (r \o Versions(s))[k] =
                IF k <= Len(r) THEN r[k] ELSE Versions(s)[k - Len(r)]
<1> DEFINE b == Versions(s)
<1>1. b \in Seq(Nat) /\ Len(b) = Len(s)
  BY VersionsType
<1> HIDE DEF b
<1>2. /\ r \o b \in Seq(Nat)
      /\ Len(r \o b) = Len(r) + Len(b)
      /\ \A k \in 1 .. Len(r) + Len(b) :
           (r \o b)[k] = IF k <= Len(r) THEN r[k] ELSE b[k - Len(r)]
  BY <1>1, ConcatProperties
<1>3. /\ r \o b \in Seq(Nat)
      /\ Len(r \o b) = Len(r) + Len(s)
      /\ \A k \in 1 .. Len(r) + Len(s) :
           (r \o b)[k] = IF k <= Len(r) THEN r[k] ELSE b[k - Len(r)]
  BY <1>1, <1>2, Zenon
<1> QED
  BY <1>3 DEF b

(* A frame that is read moves from the pipe to what has been received.     *)
LEMMA ReadFrame ==
  ASSUME NEW r \in Seq(Nat), NEW s \in Seq(Frames), s # <<>>
  PROVE  Append(r, Head(s).version) \o Versions(Tail(s)) = r \o Versions(s)
<1> DEFINE v == Head(s).version
           left == Append(r, v) \o Versions(Tail(s))
           right == r \o Versions(s)
<1>1. /\ Tail(s) \in Seq(Frames) /\ Len(Tail(s)) = Len(s) - 1
      /\ \A k \in 1 .. Len(s) - 1 : Tail(s)[k] = s[k + 1]
      /\ Head(s) = s[1] /\ Len(s) \in Nat \ {0} /\ Len(r) \in Nat
  OBVIOUS
<1>2. v = s[1].version /\ v \in Nat
  <2>1. s[1] \in Frames
    BY <1>1, ElementOfSeq
  <2> QED
    BY <1>1, <2>1 DEF Frames
<1> HIDE DEF v
<1>3. /\ Append(r, v) \in Seq(Nat) /\ Len(Append(r, v)) = Len(r) + 1
      /\ Append(r, v)[Len(r) + 1] = v
      /\ \A k \in 1 .. Len(r) : Append(r, v)[k] = r[k]
  BY <1>2, AppendFacts, AppendProperties
<1>4. /\ Versions(s) \in Seq(Nat) /\ Len(Versions(s)) = Len(s)
      /\ \A k \in 1 .. Len(s) : Versions(s)[k] = s[k].version
  BY VersionsType
<1>5. /\ Versions(Tail(s)) \in Seq(Nat)
      /\ Len(Versions(Tail(s))) = Len(s) - 1
      /\ \A k \in 1 .. Len(s) - 1 :
           Versions(Tail(s))[k] = s[k + 1].version
  <2> DEFINE t == Tail(s)
  <2>1. /\ t \in Seq(Frames) /\ Len(t) = Len(s) - 1
        /\ \A k \in 1 .. Len(s) - 1 : t[k] = s[k + 1]
    BY <1>1
  <2> HIDE DEF t
  <2>2. /\ Versions(t) \in Seq(Nat) /\ Len(Versions(t)) = Len(t)
        /\ \A k \in 1 .. Len(t) : Versions(t)[k] = t[k].version
    BY <2>1, VersionsType
  <2>3. \A k \in 1 .. Len(s) - 1 : Versions(t)[k] = s[k + 1].version
    BY <2>1, <2>2
  <2> QED
    BY <2>1, <2>2, <2>3 DEF t
<1>6. /\ left \in Seq(Nat) /\ Len(left) = Len(r) + Len(s)
      /\ \A k \in 1 .. Len(r) + Len(s) :
           left[k] = IF k <= Len(r) + 1 THEN Append(r, v)[k]
                     ELSE Versions(Tail(s))[k - (Len(r) + 1)]
  <2> DEFINE a == Append(r, v)
             b == Versions(Tail(s))
  <2>1. a \in Seq(Nat) /\ b \in Seq(Nat) /\ Len(b) = Len(s) - 1
    BY <1>3, <1>5
  <2>2. Len(a) = Len(r) + 1 /\ (Len(r) + 1) + (Len(s) - 1) = Len(r) + Len(s)
    BY <1>1, <1>3
  <2> HIDE DEF a, b
  <2>3. /\ a \o b \in Seq(Nat) /\ Len(a \o b) = Len(a) + Len(b)
        /\ \A k \in 1 .. Len(a) + Len(b) :
             (a \o b)[k] = IF k <= Len(a) THEN a[k] ELSE b[k - Len(a)]
    BY <2>1, ConcatProperties
  <2>4. Len(a) + Len(b) = Len(r) + Len(s)
    BY <2>1, <2>2
  <2>5. /\ a \o b \in Seq(Nat) /\ Len(a \o b) = Len(r) + Len(s)
        /\ \A k \in 1 .. Len(r) + Len(s) :
             (a \o b)[k] = IF k <= Len(r) + 1 THEN a[k]
                           ELSE b[k - (Len(r) + 1)]
    <3>1. Len(a) = Len(r) + 1
      BY <2>2
    <3> QED
      BY <2>3, <2>4, <3>1, Zenon
  <2> QED
    BY <2>5 DEF a, b
<1>7. /\ right \in Seq(Nat) /\ Len(right) = Len(r) + Len(s)
      /\ \A k \in 1 .. Len(r) + Len(s) :
           right[k] = IF k <= Len(r) THEN r[k] ELSE Versions(s)[k - Len(r)]
  BY ConcatVersions
<1>8. ASSUME NEW k \in 1 .. Len(r) + Len(s) PROVE left[k] = right[k]
  <2> HIDE DEF left, right
  <2>1. CASE k <= Len(r)
    <3>1. k \in 1 .. Len(r) /\ k <= Len(r) + 1
      BY <1>1, <2>1
    <3> QED
      BY <1>3, <1>6, <1>7, <2>1, <3>1
  <2>2. CASE k = Len(r) + 1
    <3>1. k <= Len(r) + 1 /\ ~(k <= Len(r)) /\ k - Len(r) = 1
          /\ 1 \in 1 .. Len(s)
      BY <1>1, <2>2
    <3>2. left[k] = v
      BY <1>3, <1>6, <2>2, <3>1
    <3>3. right[k] = s[1].version
      BY <1>4, <1>7, <3>1
    <3> QED
      BY <1>2, <3>2, <3>3
  <2>3. CASE k > Len(r) + 1
    <3> DEFINE j == k - (Len(r) + 1)
    <3>1. /\ ~(k <= Len(r) + 1) /\ ~(k <= Len(r))
          /\ j \in 1 .. Len(s) - 1
          /\ k - Len(r) = j + 1 /\ j + 1 \in 1 .. Len(s)
      BY <1>1, <2>3
    <3>2. left[k] = Versions(Tail(s))[j] /\ right[k] = Versions(s)[j + 1]
      BY <1>6, <1>7, <3>1
    <3> HIDE DEF j
    <3> QED
      BY <1>4, <1>5, <3>1, <3>2
  <2> QED
    BY <1>1, <2>1, <2>2, <2>3
<1> HIDE DEF left, right
<1>9. left = right
  BY <1>6, <1>7, <1>8, SeqEqual
<1> QED
  BY <1>9 DEF left, right, v

(* A frame that is written comes on top of the stream.                     *)
LEMMA WrittenFrame ==
  ASSUME NEW r \in Seq(Nat), NEW s \in Seq(Frames), NEW f \in Frames
  PROVE  r \o Versions(Append(s, f)) = Append(r \o Versions(s), f.version)
<1> DEFINE v == f.version
           left == r \o Versions(Append(s, f))
           right == Append(r \o Versions(s), v)
<1>1. v \in Nat
  BY DEF Frames
<1>2. Len(r) \in Nat /\ Len(s) \in Nat
  OBVIOUS
<1>3. /\ Append(s, f) \in Seq(Frames) /\ Len(Append(s, f)) = Len(s) + 1
      /\ Append(s, f)[Len(s) + 1] = f
      /\ \A k \in 1 .. Len(s) : Append(s, f)[k] = s[k]
  BY AppendFacts, AppendProperties
<1>4. /\ Versions(s) \in Seq(Nat) /\ Len(Versions(s)) = Len(s)
      /\ \A k \in 1 .. Len(s) : Versions(s)[k] = s[k].version
  BY VersionsType
<1>5. /\ Versions(Append(s, f)) \in Seq(Nat)
      /\ Len(Versions(Append(s, f))) = Len(s) + 1
      /\ \A k \in 1 .. Len(s) + 1 :
           Versions(Append(s, f))[k] = Append(s, f)[k].version
  BY <1>3, VersionsType
<1>6. /\ r \o Versions(s) \in Seq(Nat)
      /\ Len(r \o Versions(s)) = Len(r) + Len(s)
      /\ \A k \in 1 .. Len(r) + Len(s) :
           (r \o Versions(s))[k] =
             IF k <= Len(r) THEN r[k] ELSE Versions(s)[k - Len(r)]
  BY ConcatVersions
<1> DEFINE n == Len(r) + Len(s)
           old == r \o Versions(s)
<1>7. /\ right \in Seq(Nat) /\ Len(right) = n + 1
      /\ right[n + 1] = v
      /\ \A k \in 1 .. n : right[k] = old[k]
  <2>1. old \in Seq(Nat) /\ Len(old) = n
    BY <1>6
  <2> HIDE DEF old, v, n
  <2>2. /\ Append(old, v) \in Seq(Nat) /\ Len(Append(old, v)) = n + 1
        /\ Append(old, v)[n + 1] = v
        /\ \A k \in 1 .. n : Append(old, v)[k] = old[k]
    BY <1>1, <2>1, AppendFacts, AppendProperties
  <2> QED
    BY <2>2 DEF old
<1>8. /\ left \in Seq(Nat) /\ Len(left) = n + 1
      /\ \A k \in 1 .. n + 1 :
           left[k] = IF k <= Len(r) THEN r[k]
                     ELSE Versions(Append(s, f))[k - Len(r)]
  <2> DEFINE b == Versions(Append(s, f))
  <2>1. b \in Seq(Nat) /\ Len(b) = Len(s) + 1
    BY <1>5
  <2>2. Len(r) + (Len(s) + 1) = n + 1
    BY <1>2
  <2> HIDE DEF b, n
  <2>3. /\ r \o b \in Seq(Nat) /\ Len(r \o b) = Len(r) + Len(b)
        /\ \A k \in 1 .. Len(r) + Len(b) :
             (r \o b)[k] = IF k <= Len(r) THEN r[k] ELSE b[k - Len(r)]
    BY <2>1, ConcatProperties
  <2>4. Len(r) + Len(b) = n + 1
    BY <2>1, <2>2
  <2>5. /\ r \o b \in Seq(Nat) /\ Len(r \o b) = n + 1
        /\ \A k \in 1 .. n + 1 :
             (r \o b)[k] = IF k <= Len(r) THEN r[k] ELSE b[k - Len(r)]
    BY <2>3, <2>4, Zenon
  <2> QED
    BY <2>5 DEF b
<1>9. ASSUME NEW k \in 1 .. n + 1 PROVE left[k] = right[k]
  <2>0. n \in Nat
    BY <1>2
  <2> HIDE DEF left, right, v
  <2>1. CASE k <= Len(r)
    <3>1. k \in 1 .. n
      BY <1>2, <2>1
    <3> QED
      BY <1>6, <1>7, <1>8, <2>1, <3>1
  <2>2. CASE k > Len(r) /\ k <= n
    <3> DEFINE j == k - Len(r)
    <3>1. /\ ~(k <= Len(r)) /\ k \in 1 .. n
          /\ j \in 1 .. Len(s) /\ j \in 1 .. Len(s) + 1
      BY <1>2, <2>2
    <3>2. left[k] = Versions(Append(s, f))[j] /\ right[k] = Versions(s)[j]
      BY <1>6, <1>7, <1>8, <3>1
    <3> HIDE DEF j
    <3> QED
      BY <1>3, <1>4, <1>5, <3>1, <3>2
  <2>3. CASE k = n + 1
    <3>1. /\ ~(k <= Len(r)) /\ k - Len(r) = Len(s) + 1
          /\ Len(s) + 1 \in 1 .. Len(s) + 1
      BY <1>2, <2>3
    <3>2. left[k] = f.version
      BY <1>3, <1>5, <1>8, <3>1
    <3> QED
      BY <1>7, <2>3, <3>2 DEF v
  <2> QED
    BY <1>2, <2>0, <2>1, <2>2, <2>3
<1> HIDE DEF left, right
<1>10. left = right
  <2>1. Len(left) = Len(right) /\ \A k \in 1 .. Len(left) : left[k] = right[k]
    BY <1>7, <1>8, <1>9
  <2> QED
    BY <1>7, <1>8, <2>1, SeqEqual
<1> QED
  BY <1>10 DEF left, right, v

(* A stream is a sequence of numbers.                                      *)
LEMMA StreamType ==
  ASSUME TypeOK, NEW c \in Clients
  PROVE  Stream(c) \in Seq(Nat)
<1>1. received[c] \in Seq(Nat) /\ to_client[c] \in Seq(Frames)
  BY DEF TypeOK
<1> QED
  BY <1>1, VersionsType, ConcatProperties DEF Stream

(* Reading changes no stream.                                              *)
LEMMA ReceiveKeepsStreams ==
  ASSUME TypeOK, NEW c \in Clients, Receive(c), NEW d \in Clients
  PROVE  Stream(d)' = Stream(d)
<1>1. /\ to_client[c] \in Seq(Frames) /\ to_client[c] # <<>>
      /\ received[c] \in Seq(Nat)
      /\ to_client' = [to_client EXCEPT ![c] = Tail(to_client[c])]
      /\ received' = [received EXCEPT
                        ![c] = Append(received[c], Head(to_client[c]).version)]
  BY DEF Receive, TypeOK
<1>2. CASE d = c
  <2>1. /\ to_client'[c] = Tail(to_client[c])
        /\ received'[c] = Append(received[c], Head(to_client[c]).version)
    BY <1>1 DEF TypeOK
  <2>2. received'[c] \o Versions(to_client'[c])
          = received[c] \o Versions(to_client[c])
    BY <1>1, <2>1, ReadFrame
  <2> QED
    BY <1>2, <2>2 DEF Stream, Versions
<1>3. CASE d # c
  <2>1. to_client'[d] = to_client[d] /\ received'[d] = received[d]
    BY <1>1, <1>3 DEF TypeOK
  <2> QED
    BY <2>1 DEF Stream
<1> QED
  BY <1>2, <1>3

(* Writing puts the version of the message on top of one stream.           *)
LEMMA WriteExtendsStream ==
  ASSUME TypeOK, LoopsInRange, Write, NEW d \in Clients
  PROVE  Stream(d)' = IF d = served THEN Append(Stream(d), version)
                      ELSE Stream(d)
<1> DEFINE frame == Frame(msg, version)
<1>1. served \in Clients
  BY ClientsAssumption DEF Write, TypeOK, LoopsInRange, Clients
<1>2. /\ to_client[served] \in Seq(Frames) /\ frame \in Frames
      /\ to_client' = [to_client EXCEPT
                         ![served] = Append(to_client[served], frame)]
      /\ received' = received /\ received[d] \in Seq(Nat)
  BY <1>1 DEF Write, WriteFrame, NextServed, environment, TypeOK, Frame, Frames
<1>3. frame.version = version
  BY DEF Frame
<1> HIDE DEF frame
<1>4. CASE d = served
  <2>1. to_client'[d] = Append(to_client[d], frame)
    BY <1>2, <1>4 DEF TypeOK
  <2>2. received[d] \o Versions(Append(to_client[d], frame))
          = Append(received[d] \o Versions(to_client[d]), frame.version)
    BY <1>2, <1>4, WrittenFrame
  <2>3. received'[d] \o Versions(to_client'[d])
          = Append(received[d] \o Versions(to_client[d]), version)
    BY <1>2, <1>3, <2>1, <2>2
  <2>4. Stream(d)' = Append(Stream(d), version)
    BY <2>3 DEF Stream, Versions
  <2> QED
    BY <1>4, <2>4
<1>5. CASE d # served
  <2>1. to_client'[d] = to_client[d] /\ received'[d] = received[d]
    BY <1>2, <1>5 DEF TypeOK
  <2>2. Stream(d)' = Stream(d)
    BY <2>1 DEF Stream, Versions
  <2> QED
    BY <1>5, <2>2
<1> QED
  BY <1>4, <1>5

(* A step that neither writes nor takes the lock for a broadcast changes   *)
(* no stream, serves nobody, and makes no message; states are only added.  *)
LEMMA OtherSteps ==
  ASSUME TypeOK, [Next]_vars, ~Write, ~BroadcasterLock
  PROVE  /\ version' = version
         /\ Len(history') >= Len(history)
         /\ \A d \in Clients : Stream(d)' = Stream(d)
         /\ \A d \in Clients : Served(d)' <=> Served(d)
<1> DEFINE Goal == /\ version' = version
                   /\ Len(history') >= Len(history)
                   /\ \A d \in Clients : Stream(d)' = Stream(d)
                   /\ \A d \in Clients : Served(d)' <=> Served(d)
<1> SUFFICES Goal
  OBVIOUS
<1>0. Len(history) \in Nat /\ \A d \in Clients : d \in Nat
  BY ClientsAssumption DEF TypeOK, Clients
<1>1. ASSUME UNCHANGED <<received, to_client, broadcaster, history>> PROVE Goal
  BY <1>0, <1>1 DEF Stream, Versions, Served, broadcaster
<1>2. ASSUME NEW c \in Clients, Receive(c) PROVE Goal
  <2>1. UNCHANGED <<broadcaster, history>>
    BY <1>2 DEF Receive
  <2>2. \A d \in Clients : Stream(d)' = Stream(d)
    BY <1>2, ReceiveKeepsStreams
  <2> QED
    BY <1>0, <2>1, <2>2 DEF Served, broadcaster
<1>3. ASSUME NEW c \in Clients, Unlock(c) PROVE Goal
  <2>1. Len(history') = Len(history) + 1
    BY <1>3, UnlockAppends
  <2>2. UNCHANGED <<received, to_client, broadcaster>>
    BY <1>3 DEF Unlock, environment
  <2> QED
    BY <1>0, <2>1, <2>2 DEF Stream, Versions, Served, broadcaster
<1>4. ASSUME NEW c \in Clients, Listener(c), ~Unlock(c) PROVE Goal
  <2>1. UNCHANGED <<received, to_client, broadcaster, history>>
    BY <1>4 DEF Listener, GetLine, Lock, DecodeRotate, DecodeShuffle,
                DecodeSolve, ShuffleTurn, CopyFace, Post, environment
  <2> QED
    BY <1>1, <2>1
<1>5. ASSUME SemWait \/ Encode \/ BroadcasterUnlock PROVE Goal
  <2>1. UNCHANGED <<received, to_client, history, version>>
    BY <1>5 DEF SemWait, Encode, BroadcasterUnlock, environment
  <2>2. broadcaster_pc # "write"
    BY <1>5 DEF SemWait, Encode, BroadcasterUnlock
  <2>3. broadcaster_pc' = "write" => served' = 0
    BY <1>5 DEF SemWait, Encode, BroadcasterUnlock
  <2>4. \A d \in Clients : Served(d)' <=> Served(d)
    BY <1>0, <2>2, <2>3 DEF Served
  <2> QED
    BY <1>0, <2>1, <2>4 DEF Stream, Versions
<1>6. CASE Accept \/ CreateListener
  <2>1. UNCHANGED <<received, to_client, broadcaster, history>>
    BY <1>6 DEF Accept, CreateListener, environment
  <2> QED
    BY <1>1, <2>1
<1>7. ASSUME NEW c \in Clients, NEW l \in UserLines, Send(c, l) PROVE Goal
  <2>1. UNCHANGED <<received, to_client, broadcaster, history>>
    BY <1>7 DEF Send
  <2> QED
    BY <1>1, <2>1
<1>8. CASE UNCHANGED vars
  <2>1. UNCHANGED <<received, to_client, broadcaster, history>>
    BY <1>8 DEF vars, environment
  <2> QED
    BY <1>1, <2>1
<1> HIDE DEF Goal
<1> QED
  BY <1>2, <1>3, <1>4, <1>5, <1>6, <1>7, <1>8 DEF Next, Broadcast

(* What the write of a frame does to the loop.                             *)
LEMMA WriteServes ==
  ASSUME TypeOK, LoopsInRange, Write
  PROVE  /\ served \in Clients
         /\ version' = version /\ history' = history
         /\ \A d \in Clients : Served(d) <=> d < served
         /\ \/ \A d \in Clients : Served(d)' <=> d < served \/ d = served
            \/ /\ \A d \in Clients : ~Served(d)'
               /\ \A d \in Clients : d < served \/ d = served
<1>1. /\ served \in Clients /\ broadcaster_pc = "write"
      /\ served \in Nat /\ N_CLIENTS \in Nat
      /\ \A d \in Clients : d \in Nat /\ d < N_CLIENTS
  BY ClientsAssumption DEF Write, TypeOK, LoopsInRange, Clients
<1>2. /\ version' = version /\ history' = history /\ served' = served + 1
      /\ IF served + 1 < N_CLIENTS
         THEN broadcaster_pc' = broadcaster_pc
         ELSE broadcaster_pc' = "sem_wait"
  BY DEF Write, NextServed
<1>3. \A d \in Clients : Served(d) <=> d < served
  BY <1>1 DEF Served
<1>4. CASE served + 1 < N_CLIENTS
  <2>1. broadcaster_pc' = "write"
    BY <1>1, <1>2, <1>4
  <2>2. \A d \in Clients : Served(d)' <=> d < served \/ d = served
    BY <1>1, <1>2, <2>1 DEF Served
  <2> QED
    BY <1>1, <1>2, <1>3, <2>2
<1>5. CASE ~(served + 1 < N_CLIENTS)
  <2>1. \A d \in Clients : ~Served(d)'
    BY <1>2, <1>5 DEF Served
  <2>2. \A d \in Clients : d < served \/ d = served
    BY <1>1, <1>5
  <2> QED
    BY <1>1, <1>2, <1>3, <2>1, <2>2
<1> QED
  BY <1>4, <1>5

(* The streams of any two slots stay the same, but for the frame that is   *)
(* being written.                                                          *)
LEMMA NextAgree ==
  ASSUME TypeOK, LoopsInRange, StreamsAgree, [Next]_vars
  PROVE  StreamsAgree'
<1>1. CASE ~Write /\ ~BroadcasterLock
  <2>1. /\ version' = version
        /\ \A d \in Clients : Stream(d)' = Stream(d)
        /\ \A d \in Clients : Served(d)' <=> Served(d)
    BY <1>1, OtherSteps
  <2> SUFFICES ASSUME NEW c \in Clients, NEW d \in Clients
               PROVE  /\ (Served(c)' <=> Served(d)') => Stream(c)' = Stream(d)'
                      /\ Served(c)' /\ ~Served(d)' =>
                           Stream(c)' = Append(Stream(d)', version')
    BY DEF StreamsAgree
  <2>2. /\ (Served(c) <=> Served(d)) => Stream(c) = Stream(d)
        /\ Served(c) /\ ~Served(d) => Stream(c) = Append(Stream(d), version)
    BY DEF StreamsAgree
  <2> QED
    BY <2>1, <2>2
<1>2. CASE BroadcasterLock
  <2>1. /\ broadcaster_pc # "write" /\ broadcaster_pc' # "write"
        /\ UNCHANGED <<received, to_client>>
    BY <1>2 DEF BroadcasterLock, environment
  <2>2. \A c, d \in Clients : Stream(c) = Stream(d)
    BY <2>1 DEF StreamsAgree, Served
  <2>3. \A c \in Clients : Stream(c)' = Stream(c) /\ ~Served(c)'
    BY <2>1 DEF Stream, Versions, Served
  <2>4. \A c, d \in Clients : Stream(c)' = Stream(d)'
    BY <2>2, <2>3
  <2> QED
    BY <2>3, <2>4 DEF StreamsAgree
<1>3. CASE Write
  <2>1. /\ served \in Clients
        /\ version' = version
        /\ \A d \in Clients : Served(d) <=> d < served
        /\ \/ \A d \in Clients : Served(d)' <=> d < served \/ d = served
           \/ /\ \A d \in Clients : ~Served(d)'
              /\ \A d \in Clients : d < served \/ d = served
    BY <1>3, WriteServes
  <2>2. \A d \in Clients :
          Stream(d)' = IF d = served THEN Append(Stream(d), version)
                       ELSE Stream(d)
    BY <1>3, WriteExtendsStream
  <2> DEFINE T == Stream(served)
  <2>3. ~Served(served)
    <3>1. served \in Nat
      BY DEF TypeOK
    <3> QED
      BY <2>1, <3>1
  <2>4. ASSUME NEW d \in Clients
        PROVE  /\ d < served \/ d = served => Stream(d)' = Append(T, version)
               /\ ~(d < served \/ d = served) => Stream(d)' = T
    <3>1. CASE d = served
      BY <2>2, <3>1
    <3>2. CASE d # served /\ Served(d)
      <4>1. Stream(d) = Append(T, version)
        BY <2>1, <2>3, <3>2 DEF StreamsAgree
      <4> QED
        BY <2>1, <2>2, <3>2, <4>1
    <3>3. CASE d # served /\ ~Served(d)
      <4>1. Stream(d) = T
        BY <2>1, <2>3, <3>3 DEF StreamsAgree
      <4> QED
        BY <2>1, <2>2, <3>3, <4>1
    <3> QED
      BY <3>1, <3>2, <3>3
  <2> HIDE DEF T
  <2>5. ASSUME NEW c \in Clients, NEW d \in Clients
        PROVE  /\ (Served(c)' <=> Served(d)') => Stream(c)' = Stream(d)'
               /\ Served(c)' /\ ~Served(d)' =>
                    Stream(c)' = Append(Stream(d)', version')
    <3>1. /\ c < served \/ c = served => Stream(c)' = Append(T, version)
          /\ ~(c < served \/ c = served) => Stream(c)' = T
      BY <2>4
    <3>2. /\ d < served \/ d = served => Stream(d)' = Append(T, version)
          /\ ~(d < served \/ d = served) => Stream(d)' = T
      BY <2>4
    <3>3. CASE \A e \in Clients : Served(e)' <=> e < served \/ e = served
      <4>1. /\ Served(c)' <=> c < served \/ c = served
            /\ Served(d)' <=> d < served \/ d = served
        BY <3>3
      <4> QED
        BY <2>1, <3>1, <3>2, <4>1
    <3>4. CASE /\ \A e \in Clients : ~Served(e)'
               /\ \A e \in Clients : e < served \/ e = served
      BY <3>1, <3>2, <3>4
    <3> QED
      BY <2>1, <3>3, <3>4
  <2> QED
    BY <2>5 DEF StreamsAgree
<1> QED
  BY <1>1, <1>2, <1>3

(* No stream goes back in time: what is written is the newest state there  *)
(* was when the broadcaster took the lock, and it takes it once per frame. *)
LEMMA NextOrdered ==
  ASSUME TypeOK, LoopsInRange, StreamsAreOrdered, [Next]_vars
  PROVE  StreamsAreOrdered'
<1>0. /\ version \in Nat /\ Len(history) \in Nat /\ Len(history') \in Nat
      /\ version' \in Nat
      /\ \A c \in Clients : Stream(c) \in Seq(Nat)
  <2>1. TypeOK'
    BY NextTypeOK
  <2>2. /\ version \in Nat /\ history \in Seq(Cubes)
        /\ version' \in Nat /\ history' \in Seq(Cubes)
    BY <2>1 DEF TypeOK
  <2>3. Len(history) \in Nat /\ Len(history') \in Nat
    BY <2>2, LenProperties
  <2> QED
    BY <2>2, <2>3, StreamType
<1>1. version <= Len(history)
  BY DEF StreamsAreOrdered
<1>2. ASSUME NEW c \in Clients, NEW k \in 1 .. Len(Stream(c))
      PROVE  /\ Stream(c)[k] \in Nat
             /\ Stream(c)[k] <= version
             /\ k > 1 => Stream(c)[k - 1] <= Stream(c)[k]
  <2>1. Stream(c)[k] \in Nat
    BY <1>0, ElementOfSeq
  <2> QED
    BY <2>1 DEF StreamsAreOrdered
<1>3. CASE ~Write
  <2>1. /\ version' >= version /\ version' <= Len(history')
        /\ \A c \in Clients : Stream(c)' = Stream(c)
    <3>1. CASE BroadcasterLock
      <4>1. /\ version' = Len(history) /\ history' = history
            /\ UNCHANGED <<received, to_client>>
        BY <3>1 DEF BroadcasterLock, environment
      <4> QED
        BY <1>0, <1>1, <4>1 DEF Stream, Versions
    <3>2. CASE ~BroadcasterLock
      BY <1>0, <1>1, <1>3, <3>2, OtherSteps
    <3> QED
      BY <3>1, <3>2
  <2>2. ASSUME NEW c \in Clients, NEW k \in 1 .. Len(Stream(c)')
        PROVE  /\ Stream(c)'[k] <= version'
               /\ k > 1 => Stream(c)'[k - 1] <= Stream(c)'[k]
    <3>1. Stream(c)' = Stream(c) /\ k \in 1 .. Len(Stream(c))
      BY <2>1
    <3> QED
      BY <1>0, <1>2, <2>1, <3>1
  <2> QED
    BY <2>1, <2>2 DEF StreamsAreOrdered
<1>4. CASE Write
  <2>1. version' = version /\ history' = history
    BY <1>4, WriteServes
  <2>2. ASSUME NEW c \in Clients, NEW k \in 1 .. Len(Stream(c)')
        PROVE  /\ Stream(c)'[k] <= version'
               /\ k > 1 => Stream(c)'[k - 1] <= Stream(c)'[k]
    <3> DEFINE s == Stream(c)
    <3>0. s \in Seq(Nat) /\ Len(s) \in Nat
      BY <1>0
    <3>1. CASE c # served
      <4>1. Stream(c)' = Stream(c) /\ k \in 1 .. Len(Stream(c))
        BY <1>4, <3>1, WriteExtendsStream
      <4> QED
        BY <1>2, <2>1, <4>1
    <3>2. CASE c = served
      <4>1. Stream(c)' = Append(s, version)
        BY <1>4, <3>2, WriteExtendsStream
      <4> HIDE DEF s
      <4>2. /\ Len(Append(s, version)) = Len(s) + 1
            /\ Append(s, version)[Len(s) + 1] = version
            /\ \A j \in 1 .. Len(s) : Append(s, version)[j] = s[j]
        BY <1>0, <3>0, AppendFacts
      <4>3. k \in 1 .. Len(s) + 1
        BY <4>1, <4>2
      <4>4. \A j \in 1 .. Len(s) : s[j] <= version
        BY <1>2 DEF s
      <4>5. CASE k \in 1 .. Len(s)
        <5>1. /\ s[k] <= version
              /\ k > 1 => s[k - 1] <= s[k]
          BY <1>2, <4>5 DEF s
        <5>2. k > 1 => k - 1 \in 1 .. Len(s)
          BY <3>0, <4>5
        <5>3. /\ Append(s, version)[k] = s[k]
              /\ k > 1 => Append(s, version)[k - 1] = s[k - 1]
          BY <4>2, <4>5, <5>2
        <5> QED
          BY <2>1, <4>1, <5>1, <5>3
      <4>6. CASE k = Len(s) + 1
        <5>1. Append(s, version)[k] = version
          BY <4>2, <4>6
        <5>2. k > 1 => /\ k - 1 \in 1 .. Len(s)
                       /\ Append(s, version)[k - 1] = s[k - 1]
          <6>1. k > 1 => k - 1 \in 1 .. Len(s)
            BY <3>0, <4>6
          <6> QED
            BY <4>2, <6>1
        <5> QED
          BY <1>0, <2>1, <4>1, <4>4, <5>1, <5>2
      <4> QED
        BY <3>0, <4>3, <4>5, <4>6
    <3> QED
      BY <3>1, <3>2
  <2> QED
    BY <1>1, <2>1, <2>2 DEF StreamsAreOrdered
<1> QED
  BY <1>3, <1>4

(* At first all streams are empty.                                         *)
LEMMA EmptyStreams ==
  ASSUME Init, NEW c \in Clients
  PROVE  Stream(c) = <<>>
<1>1. Stream(c) = <<>> \o Versions(<<>>)
  BY DEF Init, Stream
<1>2. <<>> \in Seq(Frames) /\ <<>> \in Seq(Nat) /\ Len(<<>>) = 0
  BY EmptySeq
<1>3. Versions(<<>>) \in Seq(Nat) /\ Len(Versions(<<>>)) = 0
  BY <1>2, VersionsType
<1>4. Versions(<<>>) = <<>>
  BY <1>3, EmptySeq
<1> QED
  BY <1>1, <1>2, <1>4, ConcatEmptySeq

(* So the streams agree and are in order.                                  *)
LEMMA InitStreams == Init => StreamsAgree /\ StreamsAreOrdered
<1> SUFFICES ASSUME Init PROVE StreamsAgree /\ StreamsAreOrdered
  OBVIOUS
<1>1. \A c \in Clients : Stream(c) = <<>>
  BY EmptyStreams
<1>2. \A c \in Clients : ~Served(c)
  BY DEF Init, Served
<1>3. version <= Len(history)
  BY DEF Init
<1> QED
  BY <1>1, <1>2, <1>3 DEF StreamsAgree, StreamsAreOrdered

(* The broadcaster writes one frame to all pipes before it makes the next, *)
(* and it makes it of the cube as it is then: all clients are sent the     *)
(* same states in the same order, whoever is late or has not connected.    *)
THEOREM HistoryIsShared == Spec => []ClientsSeeTheSameHistory
<1>1. Init => StreamInv
  BY InitStreams DEF StreamInv
<1>2. Inv /\ StreamInv /\ [Next]_vars => StreamInv'
  BY NextAgree, NextOrdered DEF Inv, FrameInv, StreamInv
<1>3. Inv /\ StreamInv => ClientsSeeTheSameHistory
  <2> SUFFICES ASSUME Inv, StreamInv, NEW c \in Clients, NEW d \in Clients
               PROVE  /\ Len(Stream(c)) - Len(Stream(d)) \in -1 .. 1
                      /\ \A k \in 1 .. Len(Stream(c)) :
                           /\ k <= Len(Stream(d)) => Stream(c)[k] = Stream(d)[k]
                           /\ k > 1 => Stream(c)[k - 1] <= Stream(c)[k]
    BY DEF ClientsSeeTheSameHistory
  <2>0. TypeOK
    BY DEF Inv, FrameInv
  <2>1. /\ Stream(c) \in Seq(Nat) /\ Stream(d) \in Seq(Nat)
        /\ Len(Stream(c)) \in Nat /\ Len(Stream(d)) \in Nat
        /\ version \in Nat
    <3>1. Stream(c) \in Seq(Nat) /\ Stream(d) \in Seq(Nat)
      BY <2>0, StreamType
    <3> QED
      BY <2>0, <3>1, LenProperties DEF TypeOK
  <2>2. \A k \in 1 .. Len(Stream(c)) :
          k > 1 => Stream(c)[k - 1] <= Stream(c)[k]
    BY DEF StreamInv, StreamsAreOrdered
  <2>3. \/ Stream(c) = Stream(d)
        \/ Stream(c) = Append(Stream(d), version)
        \/ Stream(d) = Append(Stream(c), version)
    BY DEF StreamInv, StreamsAgree
  <2>4. \A s \in Seq(Nat) :
          /\ Len(Append(s, version)) = Len(s) + 1
          /\ \A k \in 1 .. Len(s) : Append(s, version)[k] = s[k]
    BY <2>1, AppendFacts
  <2>5. Len(Stream(c)) - Len(Stream(d)) \in -1 .. 1
    BY <2>1, <2>3, <2>4
  <2>6. ASSUME NEW k \in 1 .. Len(Stream(c)), k <= Len(Stream(d))
        PROVE  Stream(c)[k] = Stream(d)[k]
    <3>1. k \in 1 .. Len(Stream(d))
      BY <2>1, <2>6
    <3> QED
      BY <2>1, <2>3, <2>4, <2>6, <3>1
  <2> QED
    BY <2>2, <2>5, <2>6
<1>4. Spec => []Inv
  BY Invariance
<1> QED
  BY <1>1, <1>2, <1>3, <1>4, PTL DEF Spec

(* There are finitely many listeners, so those about to post can be        *)
(* counted.                                                                *)
LEMMA PostingFinite ==
  /\ IsFiniteSet(Posting) /\ Cardinality(Posting) \in Nat
<1>1. IsFiniteSet(Clients)
  BY ClientsAssumption, FS_Interval DEF Clients
<1>2. Posting \subseteq Clients
  BY DEF Posting
<1>3. IsFiniteSet(Posting)
  BY <1>1, <1>2, FS_Subset
<1> QED
  BY <1>3, FS_CardinalityType

(* An unlock adds one of them, a post takes one away, and nothing else     *)
(* changes who they are.                                                   *)
LEMMA PostingSteps ==
  ASSUME TypeOK, ListenersStartInOrder, [Next]_vars
  PROVE  \/ /\ \E c \in Clients : Unlock(c)
            /\ Cardinality(Posting') = Cardinality(Posting) + 1
         \/ /\ \E c \in Clients : Post(c)
            /\ Cardinality(Posting') = Cardinality(Posting) - 1
         \/ /\ ~ \E c \in Clients : Unlock(c) \/ Post(c)
            /\ Posting' = Posting
<1>0. \A d \in Clients : listener_pc[d] \in ListenerPcs
  BY DEF TypeOK
<1>1. ASSUME NEW c \in Clients, Unlock(c)
      PROVE  Cardinality(Posting') = Cardinality(Posting) + 1
  <2>1. /\ listener_pc[c] = "unlock"
        /\ listener_pc' = [listener_pc EXCEPT ![c] = "post"]
    BY <1>1 DEF Unlock
  <2>2. listener_pc'[c] = "post"
        /\ \A d \in Clients : d # c => listener_pc'[d] = listener_pc[d]
    BY <2>1 DEF TypeOK
  <2>3. Posting' = Posting \cup {c} /\ c \notin Posting
    BY <2>1, <2>2 DEF Posting
  <2> QED
    BY <2>3, PostingFinite, FS_AddElement
<1>2. ASSUME NEW c \in Clients, Post(c)
      PROVE  Cardinality(Posting') = Cardinality(Posting) - 1
  <2>1. /\ listener_pc[c] = "post"
        /\ listener_pc' = [listener_pc EXCEPT ![c] = "getline"]
    BY <1>2 DEF Post
  <2>2. listener_pc'[c] # "post"
        /\ \A d \in Clients : d # c => listener_pc'[d] = listener_pc[d]
    BY <2>1 DEF TypeOK
  <2>3. Posting' = Posting \ {c} /\ c \in Posting
    BY <2>1, <2>2 DEF Posting
  <2> QED
    BY <2>3, PostingFinite, FS_RemoveElement
<1>3. ASSUME ~ \E c \in Clients : Unlock(c) \/ Post(c) PROVE Posting' = Posting
  <2>1. ASSUME NEW c \in Clients,
               \/ GetLine(c) \/ Lock(c) \/ DecodeRotate(c) \/ DecodeShuffle(c)
               \/ DecodeSolve(c) \/ ShuffleTurn(c) \/ CopyFace(c)
        PROVE  Posting' = Posting
    <3>1. /\ listener_pc[c] # "post"
          /\ \/ UNCHANGED listener_pc
             \/ \E pc \in ListenerPcs \ {"post"} :
                  listener_pc' = [listener_pc EXCEPT ![c] = pc]
      <4>1. CASE GetLine(c) \/ Lock(c)
        BY <4>1 DEF GetLine, Lock, ListenerPcs
      <4>2. CASE DecodeRotate(c)
        BY <4>2 DEF DecodeRotate, WriteBack, ListenerPcs
      <4>3. CASE DecodeShuffle(c)
        BY <4>3 DEF DecodeShuffle, ListenerPcs
      <4>4. CASE DecodeSolve(c)
        <5>1. listener_pc[c] = "decode" /\ WriteBack(c, make_cube)
          BY <4>4, Zenon DEF DecodeSolve
        <5>2. listener_pc' = [listener_pc EXCEPT ![c] = "copy"]
          BY <5>1, Zenon DEF WriteBack
        <5> QED
          BY <5>1, <5>2 DEF ListenerPcs
      <4>5. CASE ShuffleTurn(c)
        <5>1. PICK t \in RandomTurns :
                WriteBack(c, rotate(global_cube_state, t[1], t[2]))
          BY <4>5, Zenon DEF ShuffleTurn
        <5>2. listener_pc[c] = "shuffle"
          BY <4>5, Zenon DEF ShuffleTurn
        <5>3. listener_pc' = [listener_pc EXCEPT ![c] = "copy"]
          BY <5>1, Zenon DEF WriteBack
        <5> QED
          BY <5>2, <5>3 DEF ListenerPcs
      <4>6. CASE CopyFace(c)
        <5>1. listener_pc[c] = "copy"
          BY <4>6 DEF CopyFace
        <5>2. \/ UNCHANGED listener_pc
              \/ listener_pc' = [listener_pc EXCEPT ![c] = "shuffle"]
              \/ listener_pc' = [listener_pc EXCEPT ![c] = "unlock"]
          BY <4>6, Zenon DEF CopyFace
        <5> QED
          BY <5>1, <5>2 DEF ListenerPcs
      <4> QED
        BY <2>1, <4>1, <4>2, <4>3, <4>4, <4>5, <4>6
    <3>2. /\ listener_pc'[c] # "post"
          /\ \A d \in Clients : d # c => listener_pc'[d] = listener_pc[d]
      BY <3>1 DEF TypeOK
    <3> QED
      BY <3>1, <3>2 DEF Posting
  <2>2. CASE CreateListener
    <3> DEFINE n == num_clients_connected
    <3>1. listener_pc' = [listener_pc EXCEPT ![n] = "getline"]
      BY <2>2 DEF CreateListener
    <3>2. \A d \in Clients : d # n => listener_pc'[d] = listener_pc[d]
      BY <3>1 DEF TypeOK
    <3>3. n \in Clients => listener_pc'[n] = "getline"
      BY <3>1 DEF TypeOK
    <3>4. n \in Clients => listener_pc[n] # "post"
      BY ClientsAssumption DEF ListenersStartInOrder, TypeOK, Clients
    <3> QED
      BY <3>2, <3>3, <3>4 DEF Posting
  <2>3. CASE UNCHANGED listener_pc
    BY <2>3 DEF Posting
  <2>4. Accept \/ Broadcast => UNCHANGED listener_pc
    BY DEF Accept, Broadcast, SemWait, BroadcasterLock, Encode,
           BroadcasterUnlock, Write, NextServed, listener
  <2>5. ASSUME NEW c \in Clients,
               Receive(c) \/ \E l \in UserLines : Send(c, l)
        PROVE  UNCHANGED listener_pc
    BY <2>5 DEF Receive, Send, listener
  <2>6. UNCHANGED vars => UNCHANGED listener_pc
    BY DEF vars, listener
  <2> QED
    BY <1>3, <2>1, <2>2, <2>3, <2>4, <2>5, <2>6 DEF Next, Listener
<1> QED
  BY <1>1, <1>2, <1>3

(* Only a write makes a stream longer, by one frame.                       *)
LEMMA StreamGrows ==
  ASSUME TypeOK, LoopsInRange, [Next]_vars, NEW c \in Clients
  PROVE  /\ Len(Stream(c)) \in Nat
         /\ Len(Stream(c)') =
              IF Write /\ c = served THEN Len(Stream(c)) + 1 ELSE Len(Stream(c))
<1>1. Stream(c) \in Seq(Nat) /\ version \in Nat
  BY StreamType DEF TypeOK
<1>2. Len(Stream(c)) \in Nat
  BY <1>1, LenProperties
<1>3. CASE Write
  <2>1. Stream(c)' = IF c = served THEN Append(Stream(c), version)
                     ELSE Stream(c)
    BY <1>3, WriteExtendsStream
  <2>2. Len(Append(Stream(c), version)) = Len(Stream(c)) + 1
    BY <1>1, AppendFacts
  <2> QED
    BY <1>2, <1>3, <2>1, <2>2
<1>4. CASE BroadcasterLock
  <2>1. UNCHANGED <<received, to_client>> /\ broadcaster_pc = "lock"
    BY <1>4 DEF BroadcasterLock, environment
  <2>2. Stream(c)' = Stream(c) /\ ~Write
    BY <2>1 DEF Stream, Versions, Write
  <2> QED
    BY <1>2, <2>2
<1>5. CASE ~Write /\ ~BroadcasterLock
  BY <1>2, <1>5, OtherSteps
<1> QED
  BY <1>3, <1>4, <1>5

(* A frame is due from the wake-up that is taken for it until it is in the *)
(* pipe of the slot.                                                       *)
LEMMA BroadcastSteps ==
  ASSUME TypeOK, LoopsInRange, Broadcast, NEW c \in Clients
  PROVE  /\ history' = history
         /\ broadcast_message_ready' + UnderWay(c)'
              = broadcast_message_ready + UnderWay(c)
                  - (IF Write /\ c = served THEN 1 ELSE 0)
<1>0. /\ broadcast_message_ready \in Nat /\ served \in Nat /\ c \in Nat
      /\ c < N_CLIENTS /\ N_CLIENTS \in Nat
  BY ClientsAssumption DEF TypeOK, Clients
<1>1. CASE SemWait
  <2>1. /\ broadcaster_pc = "sem_wait" /\ broadcaster_pc' = "lock"
        /\ broadcast_message_ready' = broadcast_message_ready - 1
        /\ history' = history
    BY <1>1 DEF SemWait
  <2>2. UnderWay(c) = 0 /\ UnderWay(c)' = 1 /\ ~Write
    BY <2>1 DEF UnderWay, Write
  <2> QED
    BY <1>0, <2>1, <2>2
<1>2. CASE BroadcasterLock \/ Encode \/ BroadcasterUnlock
  <2>1. /\ broadcaster_pc \in {"lock", "encode", "unlock"}
        /\ \/ broadcaster_pc' \in {"lock", "encode", "unlock"}
           \/ broadcaster_pc' = "write" /\ served' = 0
        /\ UNCHANGED <<broadcast_message_ready, history>>
    BY <1>2 DEF BroadcasterLock, Encode, BroadcasterUnlock
  <2>2. UnderWay(c) = 1 /\ ~Write
    BY <2>1 DEF UnderWay, Write
  <2>3. UnderWay(c)' = 1
    BY <1>0, <2>1 DEF UnderWay
  <2> QED
    BY <1>0, <2>1, <2>2, <2>3
<1>3. CASE Write
  <2>1. /\ broadcaster_pc = "write" /\ served' = served + 1
        /\ IF served + 1 < N_CLIENTS
           THEN broadcaster_pc' = broadcaster_pc
           ELSE broadcaster_pc' = "sem_wait"
        /\ UNCHANGED <<broadcast_message_ready, history>>
    BY <1>3 DEF Write, NextServed
  <2>2. UnderWay(c) = IF served <= c THEN 1 ELSE 0
    BY <2>1 DEF UnderWay
  <2>3. UnderWay(c)' = IF served + 1 <= c THEN 1 ELSE 0
    <3>1. CASE served + 1 < N_CLIENTS
      BY <2>1, <3>1 DEF UnderWay
    <3>2. CASE ~(served + 1 < N_CLIENTS)
      <4>1. UnderWay(c)' = 0
        BY <2>1, <3>2 DEF UnderWay
      <4>2. ~(served + 1 <= c)
        BY <1>0, <3>2
      <4> QED
        BY <4>1, <4>2
    <3> QED
      BY <3>1, <3>2
  <2> QED
    BY <1>0, <1>3, <2>1, <2>2, <2>3
<1> QED
  BY <1>1, <1>2, <1>3 DEF Broadcast

(* The frames written and due stay as many as the commands carried out.    *)
LEMMA NextFramesMatch ==
  ASSUME TypeOK, LoopsInRange, ListenersStartInOrder, FramesMatchCommands,
         [Next]_vars
  PROVE  FramesMatchCommands'
<1> SUFFICES ASSUME NEW c \in Clients
             PROVE  Len(Stream(c)') + Due(c)' = Len(history') - 1
  BY DEF FramesMatchCommands
<1> DEFINE posting == Cardinality(Posting)
           ready == broadcast_message_ready
           due == UnderWay(c)
           len == Len(Stream(c))
<1>0. /\ posting \in Nat /\ ready \in Nat /\ due \in 0 .. 1 /\ len \in Nat
      /\ Len(history) \in Nat
  <2>1. history \in Seq(Cubes) /\ ready \in Nat
    BY DEF TypeOK
  <2>2. Len(history) \in Nat
    BY <2>1, LenProperties
  <2>3. due \in 0 .. 1
    BY DEF UnderWay
  <2> QED
    BY <2>1, <2>2, <2>3, PostingFinite, StreamGrows
<1>1. len + (ready + posting + due) = Len(history) - 1
  BY DEF FramesMatchCommands, Due
<1>2. /\ len' = IF Write /\ c = served THEN len + 1 ELSE len
      /\ Due(c)' = ready' + posting' + due'
  BY StreamGrows DEF Due
<1>3. CASE Broadcast
  <2>1. /\ history' = history
        /\ ready' + due' = ready + due - (IF Write /\ c = served THEN 1 ELSE 0)
    BY <1>3, BroadcastSteps
  <2>2. listener_pc' = listener_pc
    BY <1>3 DEF Broadcast, SemWait, BroadcasterLock, Encode,
                BroadcasterUnlock, Write, NextServed, listener
  <2>3. posting' = posting
    BY <2>2 DEF Posting
  <2>4. ready' \in Nat /\ due' \in 0 .. 1
    <3>1. TypeOK'
      BY NextTypeOK
    <3> QED
      BY <3>1 DEF TypeOK, UnderWay
  <2>5. CASE Write /\ c = served
    <3>1. ready' + due' = ready + due - 1 /\ len' = len + 1
      BY <1>2, <2>1, <2>5
    <3>2. (len + 1) + (ready' + posting + due') = Len(history) - 1
      <4> HIDE DEF posting, ready, due, len
      <4>1. ready' + posting + due' = (ready + due - 1) + posting
        <5>1. ready' + posting + due' = (ready' + due') + posting
          BY <1>0, <2>4
        <5> QED
          BY <3>1, <5>1
      <4>2. (len + 1) + ((ready + due - 1) + posting)
              = len + (ready + posting + due)
        BY <1>0
      <4> QED
        BY <1>1, <4>1, <4>2
    <3> QED
      BY <1>2, <2>1, <2>3, <3>1, <3>2
  <2>6. CASE ~(Write /\ c = served)
    <3>1. ready' + due' = ready + due - 0 /\ len' = len
      BY <1>2, <2>1, <2>6
    <3>2. (len + 0) + (ready' + posting + due') = Len(history) - 1
      <4> HIDE DEF posting, ready, due, len
      <4>1. ready' + posting + due' = (ready + due - 0) + posting
        <5>1. ready' + posting + due' = (ready' + due') + posting
          BY <1>0, <2>4
        <5> QED
          BY <3>1, <5>1
      <4>2. (len + 0) + ((ready + due - 0) + posting)
              = len + (ready + posting + due)
        BY <1>0
      <4> QED
        BY <1>1, <4>1, <4>2
    <3>3. len + 0 = len
      BY <1>0
    <3> QED
      BY <1>2, <2>1, <2>3, <3>1, <3>2, <3>3
  <2> QED
    BY <2>5, <2>6
<1>4. CASE ~Broadcast
  <2>1. /\ ~Write
        /\ due' = due
    <3>1. UNCHANGED <<broadcaster_pc, served>>
      BY <1>4 DEF Next, vars, broadcaster, Accept, CreateListener, Listener,
                  GetLine, Lock, DecodeRotate, DecodeShuffle, DecodeSolve,
                  ShuffleTurn, CopyFace, Unlock, Post, Send, Receive
    <3> QED
      BY <1>4, <3>1 DEF UnderWay, Broadcast
  <2>2. ASSUME NEW d \in Clients, Unlock(d)
        PROVE  ready' = ready /\ Len(history') = Len(history) + 1
    BY <2>2, UnlockAppends DEF Unlock
  <2>3. ASSUME NEW d \in Clients, Post(d)
        PROVE  ready' = ready + 1 /\ history' = history
    BY <2>3 DEF Post
  <2>4. ASSUME ~ \E d \in Clients : Unlock(d) \/ Post(d)
        PROVE  ready' = ready /\ history' = history
    BY <1>4, <2>4
       DEF Next, vars, Accept, CreateListener, Listener, GetLine, Lock,
           DecodeRotate, DecodeShuffle, DecodeSolve, ShuffleTurn, CopyFace,
           Send, Receive
  <2>5. \/ posting' = posting + 1 /\ ready' = ready
           /\ Len(history') = Len(history) + 1
        \/ posting' = posting - 1 /\ ready' = ready + 1
           /\ Len(history') = Len(history)
        \/ posting' = posting /\ ready' = ready
           /\ Len(history') = Len(history)
    BY <2>2, <2>3, <2>4, PostingSteps
  <2>6. len' = len
    BY <1>2, <2>1
  <2>7. len' + Due(c)' = Len(history') - 1
    <3> HIDE DEF posting, ready, due, len
    <3> QED
      BY <1>0, <1>1, <1>2, <2>1, <2>5, <2>6
  <2> QED
    BY <2>7
<1> QED
  BY <1>3, <1>4

(* Lines and listeners are finitely many, so they can be counted.          *)
LEMMA CommandsFinite ==
  /\ IsFiniteSet(CommandsInPipes) /\ Cardinality(CommandsInPipes) \in Nat
  /\ IsFiniteSet(Carrying) /\ Cardinality(Carrying) \in Nat
<1>1. IsFiniteSet(Clients)
  BY ClientsAssumption, FS_Interval DEF Clients
<1>2. IsFiniteSet(1 .. PIPE_CAPACITY)
  BY PipeAssumption, FS_Interval
<1>3. IsFiniteSet(Clients \X (1 .. PIPE_CAPACITY))
  BY <1>1, <1>2, FS_Product
<1>4. /\ CommandsInPipes \subseteq Clients \X (1 .. PIPE_CAPACITY)
      /\ Carrying \subseteq Clients
  BY DEF CommandsInPipes, Carrying
<1>5. IsFiniteSet(CommandsInPipes) /\ IsFiniteSet(Carrying)
  BY <1>1, <1>3, <1>4, FS_Subset
<1> QED
  BY <1>5, FS_CardinalityType

(* A line that is sent is one line more in the pipes.                      *)
LEMMA SendCounts ==
  ASSUME TypeOK, NEW c \in Clients, NEW l \in UserLines, Send(c, l)
  PROVE  Cardinality(CommandsInPipes') = Cardinality(CommandsInPipes) + 1
<1> DEFINE n == Len(to_server[c])
           top == <<c, n + 1>>
<1>1. /\ to_server[c] \in Seq(Lines) /\ l \in Lines /\ n < PIPE_CAPACITY
      /\ to_server' = [to_server EXCEPT ![c] = Append(to_server[c], l)]
  BY BoundAssumption DEF Send, TypeOK
<1>2. n \in Nat /\ Len(Append(to_server[c], l)) = n + 1
  BY <1>1, LenProperties, AppendFacts
<1>3. /\ Len(to_server'[c]) = n + 1
      /\ \A d \in Clients : d # c => to_server'[d] = to_server[d]
  BY <1>1, <1>2 DEF TypeOK
<1>4. top \in Clients \X (1 .. PIPE_CAPACITY)
  BY <1>1, <1>2, PipeAssumption
<1>5. top \notin CommandsInPipes
  BY <1>2 DEF CommandsInPipes
<1>6. ASSUME NEW p \in Clients \X (1 .. PIPE_CAPACITY)
      PROVE  p[2] <= Len(to_server'[p[1]])
               <=> p[2] <= Len(to_server[p[1]]) \/ p = top
  <2>1. CASE p[1] = c
    <3>1. p[2] \in Int /\ p = <<c, p[2]>>
      BY <2>1
    <3>2. p = top <=> p[2] = n + 1
      BY <3>1
    <3>3. Len(to_server'[p[1]]) = n + 1 /\ Len(to_server[p[1]]) = n
      BY <1>3, <2>1
    <3> HIDE DEF n, top
    <3> QED
      BY <1>2, <3>1, <3>2, <3>3
  <2>2. CASE p[1] # c
    BY <1>3, <2>2
  <2> QED
    BY <2>1, <2>2
<1>7. CommandsInPipes' = CommandsInPipes \cup {top}
  BY <1>4, <1>6 DEF CommandsInPipes
<1> QED
  BY <1>5, <1>7, CommandsFinite, FS_AddElement

(* A line that is read is one line less in the pipes.                      *)
LEMMA GetLineCounts ==
  ASSUME TypeOK, NEW c \in Clients, GetLine(c)
  PROVE  Cardinality(CommandsInPipes') = Cardinality(CommandsInPipes) - 1
<1> DEFINE n == Len(to_server[c])
           top == <<c, n>>
<1>1. /\ to_server[c] \in Seq(Lines) /\ to_server[c] # <<>>
      /\ n <= PIPE_CAPACITY
      /\ to_server' = [to_server EXCEPT ![c] = Tail(to_server[c])]
  BY DEF GetLine, TypeOK
<1>2. n \in Nat \ {0} /\ Len(Tail(to_server[c])) = n - 1
  BY <1>1
<1>3. /\ Len(to_server'[c]) = n - 1
      /\ \A d \in Clients : d # c => to_server'[d] = to_server[d]
  BY <1>1, <1>2 DEF TypeOK
<1>4. top \in Clients \X (1 .. PIPE_CAPACITY)
  BY <1>1, <1>2, PipeAssumption
<1>5. top \in CommandsInPipes
  BY <1>2, <1>4 DEF CommandsInPipes
<1>6. ASSUME NEW p \in Clients \X (1 .. PIPE_CAPACITY)
      PROVE  p[2] <= Len(to_server'[p[1]])
               <=> p[2] <= Len(to_server[p[1]]) /\ p # top
  <2>1. CASE p[1] = c
    <3>1. p[2] \in Int /\ p = <<c, p[2]>>
      BY <2>1
    <3>2. p = top <=> p[2] = n
      BY <3>1
    <3>3. Len(to_server'[p[1]]) = n - 1 /\ Len(to_server[p[1]]) = n
      BY <1>3, <2>1
    <3> HIDE DEF n, top
    <3> QED
      BY <1>2, <3>1, <3>2, <3>3
  <2>2. CASE p[1] # c
    BY <1>3, <2>2
  <2> QED
    BY <2>1, <2>2
<1>7. CommandsInPipes' = CommandsInPipes \ {top}
  BY <1>4, <1>6 DEF CommandsInPipes
<1> QED
  BY <1>5, <1>7, CommandsFinite, FS_RemoveElement

(* Who carries a command: a listener from the line it reads to the unlock. *)
LEMMA CarryingSteps ==
  ASSUME TypeOK, ListenersStartInOrder, [Next]_vars
  PROVE  \/ /\ \E c \in Clients : GetLine(c)
            /\ Cardinality(Carrying') = Cardinality(Carrying) + 1
         \/ /\ \E c \in Clients : Unlock(c)
            /\ Cardinality(Carrying') = Cardinality(Carrying) - 1
         \/ /\ ~ \E c \in Clients : GetLine(c) \/ Unlock(c)
            /\ Carrying' = Carrying
<1> USE DEF ListenerCritical
<1>1. ASSUME NEW c \in Clients, GetLine(c)
      PROVE  Cardinality(Carrying') = Cardinality(Carrying) + 1
  <2>1. /\ listener_pc[c] = "getline"
        /\ listener_pc' = [listener_pc EXCEPT ![c] = "lock"]
    BY <1>1 DEF GetLine
  <2>2. /\ listener_pc'[c] = "lock"
        /\ \A d \in Clients : d # c => listener_pc'[d] = listener_pc[d]
    BY <2>1 DEF TypeOK
  <2>3. Carrying' = Carrying \cup {c} /\ c \notin Carrying
    BY <2>1, <2>2 DEF Carrying
  <2> QED
    BY <2>3, CommandsFinite, FS_AddElement
<1>2. ASSUME NEW c \in Clients, Unlock(c)
      PROVE  Cardinality(Carrying') = Cardinality(Carrying) - 1
  <2>1. /\ listener_pc[c] = "unlock"
        /\ listener_pc' = [listener_pc EXCEPT ![c] = "post"]
    BY <1>2 DEF Unlock
  <2>2. /\ listener_pc'[c] = "post"
        /\ \A d \in Clients : d # c => listener_pc'[d] = listener_pc[d]
    BY <2>1 DEF TypeOK
  <2>3. Carrying' = Carrying \ {c} /\ c \in Carrying
    BY <2>1, <2>2 DEF Carrying
  <2> QED
    BY <2>3, CommandsFinite, FS_RemoveElement
<1>3. ASSUME ~ \E c \in Clients : GetLine(c) \/ Unlock(c)
      PROVE  Carrying' = Carrying
  <2>1. ASSUME NEW c \in Clients,
               \/ Lock(c) \/ DecodeRotate(c) \/ DecodeShuffle(c)
               \/ DecodeSolve(c) \/ ShuffleTurn(c) \/ CopyFace(c)
        PROVE  Carrying' = Carrying
    <3> DEFINE Inside == {"lock"} \cup ListenerCritical
    <3>1. /\ listener_pc[c] \in Inside
          /\ \/ UNCHANGED listener_pc
             \/ \E pc \in Inside :
                  listener_pc' = [listener_pc EXCEPT ![c] = pc]
      <4>1. CASE Lock(c)
        BY <4>1 DEF Lock
      <4>2. CASE DecodeRotate(c)
        BY <4>2 DEF DecodeRotate, WriteBack
      <4>3. CASE DecodeShuffle(c)
        BY <4>3 DEF DecodeShuffle
      <4>4. CASE DecodeSolve(c)
        <5>1. listener_pc[c] = "decode" /\ WriteBack(c, make_cube)
          BY <4>4, Zenon DEF DecodeSolve
        <5>2. listener_pc' = [listener_pc EXCEPT ![c] = "copy"]
          BY <5>1, Zenon DEF WriteBack
        <5> QED
          BY <5>1, <5>2
      <4>5. CASE ShuffleTurn(c)
        <5>1. PICK t \in RandomTurns :
                WriteBack(c, rotate(global_cube_state, t[1], t[2]))
          BY <4>5, Zenon DEF ShuffleTurn
        <5>2. listener_pc[c] = "shuffle"
          BY <4>5, Zenon DEF ShuffleTurn
        <5>3. listener_pc' = [listener_pc EXCEPT ![c] = "copy"]
          BY <5>1, Zenon DEF WriteBack
        <5> QED
          BY <5>2, <5>3
      <4>6. CASE CopyFace(c)
        <5>1. listener_pc[c] = "copy"
          BY <4>6 DEF CopyFace
        <5>2. \/ UNCHANGED listener_pc
              \/ listener_pc' = [listener_pc EXCEPT ![c] = "shuffle"]
              \/ listener_pc' = [listener_pc EXCEPT ![c] = "unlock"]
          BY <4>6, Zenon DEF CopyFace
        <5> QED
          BY <5>1, <5>2
      <4> QED
        BY <2>1, <4>1, <4>2, <4>3, <4>4, <4>5, <4>6
    <3>2. /\ listener_pc'[c] \in Inside
          /\ \A d \in Clients : d # c => listener_pc'[d] = listener_pc[d]
      BY <3>1 DEF TypeOK
    <3> QED
      BY <3>1, <3>2 DEF Carrying
  <2>2. ASSUME NEW c \in Clients, Post(c) PROVE Carrying' = Carrying
    <3>1. /\ listener_pc[c] = "post"
          /\ listener_pc' = [listener_pc EXCEPT ![c] = "getline"]
      BY <2>2 DEF Post
    <3>2. /\ listener_pc'[c] = "getline"
          /\ \A d \in Clients : d # c => listener_pc'[d] = listener_pc[d]
      BY <3>1 DEF TypeOK
    <3> QED
      BY <3>1, <3>2 DEF Carrying
  <2>3. CASE CreateListener
    <3> DEFINE n == num_clients_connected
    <3>1. listener_pc' = [listener_pc EXCEPT ![n] = "getline"]
      BY <2>3 DEF CreateListener
    <3>2. \A d \in Clients : d # n => listener_pc'[d] = listener_pc[d]
      BY <3>1 DEF TypeOK
    <3>3. n \in Clients => listener_pc'[n] = "getline"
      BY <3>1 DEF TypeOK
    <3>4. n \in Clients => listener_pc[n] = "none"
      BY ClientsAssumption DEF ListenersStartInOrder, TypeOK, Clients
    <3> QED
      BY <3>2, <3>3, <3>4 DEF Carrying
  <2>4. CASE UNCHANGED listener_pc
    BY <2>4 DEF Carrying
  <2>5. Accept \/ Broadcast => UNCHANGED listener_pc
    BY DEF Accept, Broadcast, SemWait, BroadcasterLock, Encode,
           BroadcasterUnlock, Write, NextServed, listener
  <2>6. ASSUME NEW c \in Clients,
               Receive(c) \/ \E l \in UserLines : Send(c, l)
        PROVE  UNCHANGED listener_pc
    BY <2>6 DEF Receive, Send, listener
  <2>7. UNCHANGED vars => UNCHANGED listener_pc
    BY DEF vars, listener
  <2> QED
    BY <1>3, <2>1, <2>2, <2>3, <2>4, <2>5, <2>6, <2>7 DEF Next, Listener
<1> QED
  BY <1>1, <1>2, <1>3

(* A command is in one pipe, in one listener or done, whoever moves it.    *)
LEMMA NextLosesNoCommand ==
  ASSUME TypeOK, ListenersStartInOrder, NoCommandIsLost, [Next]_vars
  PROVE  NoCommandIsLost'
<1> DEFINE piped == Cardinality(CommandsInPipes)
           carried == Cardinality(Carrying)
           n == Len(history)
<1>0. piped \in Nat /\ carried \in Nat /\ n \in Nat /\ sent \in Nat
  <2>1. history \in Seq(Cubes) /\ sent \in Nat
    BY BoundAssumption DEF TypeOK
  <2> QED
    BY <2>1, LenProperties, CommandsFinite
<1>1. sent = n - 1 + piped + carried
  BY DEF NoCommandIsLost
<1>2. \/ /\ sent' = sent + 1 /\ piped' = piped + 1
         /\ carried' = carried /\ n' = n
      \/ /\ sent' = sent /\ piped' = piped - 1
         /\ carried' = carried + 1 /\ n' = n
      \/ /\ sent' = sent /\ piped' = piped
         /\ carried' = carried - 1 /\ n' = n + 1
      \/ /\ sent' = sent /\ piped' = piped
         /\ carried' = carried /\ n' = n
  <2>1. ASSUME NEW c \in Clients, GetLine(c)
        PROVE  sent' = sent /\ piped' = piped - 1 /\ n' = n
    BY <2>1, GetLineCounts DEF GetLine, environment
  <2>2. ASSUME NEW c \in Clients, Unlock(c)
        PROVE  sent' = sent /\ piped' = piped /\ n' = n + 1
    <3>1. to_server' = to_server /\ sent' = sent
      BY <2>2 DEF Unlock, environment
    <3>2. n' = n + 1
      BY <2>2, UnlockAppends
    <3> QED
      BY <3>1, <3>2 DEF CommandsInPipes
  <2>3. ASSUME NEW c \in Clients, NEW l \in UserLines, Send(c, l)
        PROVE  sent' = sent + 1 /\ piped' = piped + 1 /\ n' = n
    BY <2>3, SendCounts DEF Send
  <2>4. ASSUME ~ \E c \in Clients : GetLine(c) \/ Unlock(c),
               ~ \E c \in Clients, l \in UserLines : Send(c, l)
        PROVE  sent' = sent /\ piped' = piped /\ n' = n
    <3>1. UNCHANGED <<to_server, history, sent>>
      BY <2>4 DEF Next, vars, environment, Accept, CreateListener, Listener,
           Lock, DecodeRotate, DecodeShuffle, DecodeSolve, ShuffleTurn,
           CopyFace, Post, Receive, Broadcast, SemWait, BroadcasterLock,
           Encode, BroadcasterUnlock, Write, NextServed
    <3> QED
      BY <3>1 DEF CommandsInPipes
  <2>5. ASSUME NEW c \in Clients, NEW l \in UserLines, Send(c, l)
        PROVE  ~ \E d \in Clients : GetLine(d) \/ Unlock(d)
    <3>1. listener_pc' = listener_pc
      BY <2>5 DEF Send, listener
    <3>2. ASSUME NEW d \in Clients, GetLine(d) \/ Unlock(d) PROVE FALSE
      BY <3>1, <3>2 DEF GetLine, Unlock, TypeOK
    <3> QED
      BY <3>2
  <2>6. CASE \E c \in Clients : GetLine(c)
    <3>1. ~ \E c \in Clients : Unlock(c)
      <4>1. PICK c \in Clients : GetLine(c)
        BY <2>6
      <4>2. ASSUME NEW d \in Clients, Unlock(d) PROVE FALSE
        BY <4>1, <4>2, <2>1, <2>2, <1>0
      <4> QED
        BY <4>2
    <3>2. carried' = carried + 1
      BY <2>6, <3>1, CarryingSteps
    <3> QED
      BY <2>1, <2>6, <3>2
  <2>7. CASE \E c \in Clients : Unlock(c)
    <3>1. ~ \E c \in Clients : GetLine(c)
      <4>1. PICK c \in Clients : Unlock(c)
        BY <2>7
      <4>2. ASSUME NEW d \in Clients, GetLine(d) PROVE FALSE
        BY <4>1, <4>2, <2>1, <2>2, <1>0
      <4> QED
        BY <4>2
    <3>2. carried' = carried - 1
      BY <2>7, <3>1, CarryingSteps
    <3> QED
      BY <2>2, <2>7, <3>2
  <2>8. CASE ~ \E c \in Clients : GetLine(c) \/ Unlock(c)
    <3>1. carried' = carried
      BY <2>8, CarryingSteps
    <3> QED
      BY <2>3, <2>4, <2>8, <3>1
  <2> QED
    BY <2>6, <2>7, <2>8
<1>3. sent' = n' - 1 + piped' + carried'
  <2> HIDE DEF piped, carried, n
  <2> QED
    BY <1>0, <1>1, <1>2
<1> QED
  BY <1>3 DEF NoCommandIsLost

(* sem_post counts and sem_wait takes one count per frame: every command   *)
(* is broadcast exactly once to every slot, in whatever order listeners    *)
(* and broadcaster run and however long the pipes are full; and no command *)
(* is lost or carried out twice on its way from the child to the cube.     *)
THEOREM EveryCommandIsBroadcast == Spec => []OneFramePerCommand
<1>1. Init => OneFramePerCommand
  <2> SUFFICES ASSUME Init PROVE OneFramePerCommand
    OBVIOUS
  <2>0. Cardinality({}) = 0
    BY FS_EmptySet
  <2>1. ASSUME NEW c \in Clients
        PROVE  Len(Stream(c)) + Due(c) = Len(history) - 1
    <3>1. Stream(c) = <<>>
      BY EmptyStreams
    <3>2. Posting = {}
      BY DEF Init, Posting
    <3>3. UnderWay(c) = 0 /\ broadcast_message_ready = 0 /\ Len(history) = 1
      BY DEF Init, UnderWay
    <3>4. Len(<<>>) = 0
      OBVIOUS
    <3> QED
      BY <2>0, <3>1, <3>2, <3>3, <3>4 DEF Due
  <2>2. NoCommandIsLost
    <3>1. Carrying = {}
      BY DEF Init, Carrying, ListenerCritical
    <3>2. CommandsInPipes = {}
      <4>1. \A c \in Clients : Len(to_server[c]) = 0
        BY DEF Init
      <4> QED
        BY <4>1, PipeAssumption DEF CommandsInPipes
    <3>3. sent = 0 /\ Len(history) = 1
      BY DEF Init
    <3> QED
      BY <2>0, <3>1, <3>2, <3>3 DEF NoCommandIsLost
  <2> QED
    BY <2>1, <2>2 DEF OneFramePerCommand, FramesMatchCommands
<1>2. Inv /\ OneFramePerCommand /\ [Next]_vars => OneFramePerCommand'
  BY NextFramesMatch, NextLosesNoCommand DEF Inv, FrameInv, OneFramePerCommand
<1>3. Spec => []Inv
  BY Invariance
<1> QED
  BY <1>1, <1>2, <1>3, PTL DEF Spec

=============================================================================
