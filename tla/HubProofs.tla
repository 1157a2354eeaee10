----------------------------- MODULE HubProofs -----------------------------
(***************************************************************************)
(* Proofs about the partyline hub, for any number of clients and remote    *)
(* goroutines and any capacity of the channels.                            *)
(***************************************************************************)
EXTENDS Hub, TLAPS

\* Steps of a client whose session is in the map of a running hub.
Present == {"read", "post", "who", "setNick", "leave"}
Departed == {"drain", "done"}

\* A client that is writing a message has not used up its bound.
Posting == \A c \in Clients : pc[c] = "post" => posted[c] < MaxPosts

\* Who is in the map, and whose channel is closed, follow from where the clients
\* are; a stopped hub has closed every channel there was.
Ownership ==
    /\ ~panicked
    /\ hub = "running" => \A c \in Clients :
         /\ c \in sessions <=> pc[c] \in Present
         /\ c \in closed <=> pc[c] \in Departed
    /\ hub = "stopped" => \A c \in Clients : pc[c] \in {"off", "join"} \/ c \in closed

\* The hub has announced the nickname of everyone who has joined, and only those
\* who have joined have messages in the queue.
Announcement ==
    /\ \A c \in Clients : pc[c] \notin {"off", "join"} => announced[c] = nick[c]
    /\ \A i \in 1 .. Len(queue) :
         queue[i].from \in Clients => pc[queue[i].from] \notin {"off", "join"}
    /\ last.kind = "chat" => last.author \in Clients /\ last.nick = announced[last.author]

\* The flag tells the messages of remote nodes from those of local sessions as
\* long as they are in the queue.
Flagged == \A i \in 1 .. Len(queue) : queue[i].system <=> queue[i].from \notin Clients

IndInv == TypeOK /\ Posting /\ Ownership /\ Announcement /\ Flagged /\ NoReflood

-----------------------------------------------------------------------------
\* The inductive invariant holds before Run serves its first request.
LEMMA InitInd == Init => IndInv
<1> SUFFICES ASSUME Init PROVE IndInv
  OBVIOUS
<1>1. SomeNick \in Nicks
  BY HubAssumption DEF SomeNick
<1>2. TypeOK
  <2>1. queue \in Seq(Message) /\ Len(queue) = 0
    BY DEF Init
  <2>2. remoteSend \in Seq(RemoteMsg) /\ Len(remoteSend) = 0
    BY DEF Init
  <2>3. /\ nick \in [Clients -> Nicks] /\ want \in [Clients -> Nicks]
        /\ announced \in [Clients -> Nicks \cup {"none"}]
    BY <1>1 DEF Init
  <2>4. inbox \in [Clients -> 0 .. InboxCap] /\ posted \in [Authors -> 0 .. MaxPosts]
    BY HubAssumption DEF Init
  <2>5. pc \in [Clients -> {"off", "join", "read", "post", "who", "setNick", "leave",
                           "drain", "done"}]
    BY DEF Init
  <2>6. Len(queue) <= QueueCap /\ Len(remoteSend) <= RemoteCap
    BY <2>1, <2>2, HubAssumption
  <2>7. /\ hub \in {"running", "stopped"} /\ stop \in BOOLEAN /\ panicked \in BOOLEAN
        /\ sessions \subseteq Clients /\ closed \subseteq Clients /\ processed \subseteq Message
    BY DEF Init
  <2> QED BY <2>1, <2>2, <2>3, <2>4, <2>5, <2>6, <2>7 DEF TypeOK
<1>3. Posting /\ Ownership
  BY DEF Init, Posting, Ownership, Present, Departed
<1>4. Announcement /\ Flagged /\ NoReflood
  BY DEF Init, Announcement, Flagged, NoReflood, Line
<1> QED BY <1>2, <1>3, <1>4 DEF IndInv

\* sendAll keeps every inbox within its capacity.
LEMMA SendAllType ==
    ASSUME TypeOK, NEW S, NEW l, SendAll(S, l)
    PROVE  inbox' \in [Clients -> 0 .. InboxCap]
BY HubAssumption DEF TypeOK, SendAll

\* Taking the head of a bounded queue leaves a bounded queue of the same type.
LEMMA QueueHead ==
    ASSUME NEW T, NEW q \in Seq(T), q # << >>
    PROVE  /\ Head(q) \in T /\ Head(q) = q[1] /\ Tail(q) \in Seq(T)
           /\ Len(Tail(q)) = Len(q) - 1 /\ Len(q) \in Nat \ {0}
           /\ \A i \in 1 .. Len(Tail(q)) : i + 1 \in 1 .. Len(q) /\ Tail(q)[i] = q[i + 1]
OBVIOUS

\* Appending to a queue that has room leaves a bounded queue of the same type.
LEMMA QueueAppend ==
    ASSUME NEW T, NEW q \in Seq(T), NEW x \in T
    PROVE  /\ Append(q, x) \in Seq(T) /\ Len(Append(q, x)) = Len(q) + 1 /\ Len(q) \in Nat
           /\ \A i \in 1 .. Len(Append(q, x)) :
                \/ i \in 1 .. Len(q) /\ Append(q, x)[i] = q[i]
                \/ Append(q, x)[i] = x
OBVIOUS

\* A step of the hub or of its users keeps the types, and a blocked writer has
\* not used up its messages (Broadcast, DeliverRemote).
LEMMA NextType == TypeOK /\ Posting /\ [Next]_vars => TypeOK' /\ Posting'
<1> SUFFICES ASSUME TypeOK, Posting, [Next]_vars PROVE TypeOK' /\ Posting'
  OBVIOUS
<1> USE HubAssumption
<1>1. ASSUME NEW c \in Clients, HubJoin(c) PROVE TypeOK' /\ Posting'
  <2>1. inbox' \in [Clients -> 0 .. InboxCap]
    BY <1>1, SendAllType DEF HubJoin
  <2>2. /\ nick' \in [Clients -> Nicks] /\ announced' \in [Clients -> Nicks \cup {"none"}]
        /\ sessions' \subseteq Clients /\ panicked' \in BOOLEAN
    BY <1>1 DEF HubJoin, TypeOK
  <2> QED BY <1>1, <2>1, <2>2 DEF HubJoin, TypeOK, Posting
<1>2. ASSUME NEW c \in Clients, HubLeave(c) PROVE TypeOK' /\ Posting'
  <2>1. inbox' \in [Clients -> 0 .. InboxCap]
    BY <1>2, SendAllType DEF HubLeave, TypeOK
  <2>2. sessions' \subseteq Clients /\ closed' \subseteq Clients /\ panicked' \in BOOLEAN
    BY <1>2 DEF HubLeave, TypeOK
  <2> QED BY <1>2, <2>1, <2>2 DEF HubLeave, TypeOK, Posting
<1>3. ASSUME NEW c \in Clients, HubWho(c) \/ HubSetNick(c) PROVE TypeOK' /\ Posting'
  <2>1. CASE HubWho(c)
    BY <2>1 DEF HubWho, TypeOK, Posting
  <2>2. CASE HubSetNick(c)
    <3>1. inbox' \in [Clients -> 0 .. InboxCap]
      BY <2>2, SendAllType DEF HubSetNick
    <3>2. /\ nick' \in [Clients -> Nicks] /\ announced' \in [Clients -> Nicks \cup {"none"}]
          /\ panicked' \in BOOLEAN
      BY <2>2 DEF HubSetNick, TypeOK
    <3> QED BY <2>2, <3>1, <3>2 DEF HubSetNick, TypeOK, Posting
  <2> QED BY <1>3, <2>1, <2>2
<1>4. CASE HubBroadcast
  <2> DEFINE m == Head(queue)
  <2>1. /\ m \in Message /\ queue' \in Seq(Message) /\ Len(queue') <= QueueCap
    BY <1>4, QueueHead DEF HubBroadcast, TypeOK
  <2>2. m.from \in Authors /\ m.text \in 1 .. MaxPosts
    BY <2>1 DEF Message
  <2>3. PICK n \in Nicks \cup {"remote"} :
          remoteSend' \in {remoteSend, Append(remoteSend, [from |-> m.from, nick |-> n, text |-> m.text])}
          /\ (remoteSend' # remoteSend => Len(remoteSend) < RemoteCap)
    BY <1>4, <2>2 DEF HubBroadcast, NickOf, TypeOK
  <2>4. [from |-> m.from, nick |-> n, text |-> m.text] \in RemoteMsg
    BY <2>2, <2>3 DEF RemoteMsg
  <2>5. remoteSend' \in Seq(RemoteMsg) /\ Len(remoteSend') <= RemoteCap
    <3>1. CASE remoteSend' = remoteSend
      BY <3>1 DEF TypeOK
    <3>2. CASE remoteSend' # remoteSend
      <4> DEFINE x == [from |-> m.from, nick |-> n, text |-> m.text]
      <4>1. remoteSend' = Append(remoteSend, x) /\ Len(remoteSend) < RemoteCap
        BY <2>3, <3>2
      <4>2. x \in RemoteMsg /\ remoteSend \in Seq(RemoteMsg)
        BY <2>4 DEF TypeOK
      <4> HIDE DEF x
      <4> QED BY <4>1, <4>2, QueueAppend
    <3> QED BY <3>1, <3>2
  <2>6. inbox' \in [Clients -> 0 .. InboxCap]
    BY <1>4, SendAllType DEF HubBroadcast
  <2>7. processed' \subseteq Message /\ panicked' \in BOOLEAN
    BY <1>4, <2>1 DEF HubBroadcast, TypeOK
  <2>8. UNCHANGED <<hub, stop, sessions, nick, closed, pc, want, posted, announced>>
    BY <1>4 DEF HubBroadcast
  <2> QED BY <2>1, <2>5, <2>6, <2>7, <2>8 DEF TypeOK, Posting
<1>5. CASE HubStop
  BY <1>5 DEF HubStop, TypeOK, Posting
<1>6. ASSUME NEW c \in Clients, NEW n \in Nicks, Join(c, n) \/ SetNick(c, n)
      PROVE  TypeOK' /\ Posting'
  BY <1>6, ZenonT(60) DEF Join, SetNick, Call, TypeOK, Posting
<1>7. ASSUME NEW c \in Clients, Who(c) \/ Leave(c) \/ Type(c) \/ Finish(c)
      PROVE  TypeOK' /\ Posting'
  BY <1>7 DEF Who, Leave, Type, Finish, Call, TypeOK, Posting
<1>8. ASSUME NEW x \in Authors, NEW f \in BOOLEAN, Enqueue(x, f), posted[x] < MaxPosts
      PROVE  /\ queue' \in Seq(Message) /\ Len(queue') <= QueueCap
             /\ posted' \in [Authors -> 0 .. MaxPosts]
  <2>1. [from |-> x, text |-> posted[x] + 1, system |-> f] \in Message
    BY <1>8 DEF Message, TypeOK
  <2>2. queue' \in Seq(Message) /\ Len(queue') <= QueueCap
    BY <1>8, <2>1, QueueAppend DEF Enqueue, TypeOK
  <2>3. posted' \in [Authors -> 0 .. MaxPosts]
    BY <1>8 DEF Enqueue, TypeOK
  <2> QED BY <2>2, <2>3
<1>9. ASSUME NEW c \in Clients, Broadcast(c) PROVE TypeOK' /\ Posting'
  <2>1. c \in Authors /\ Enqueue(c, FALSE) /\ posted[c] < MaxPosts
    BY <1>9 DEF Broadcast, Authors, Posting
  <2>2. \A d \in Clients : d # c => posted'[d] = posted[d]
    BY <2>1 DEF Enqueue, TypeOK
  <2> QED BY <1>8, <1>9, <2>1, <2>2 DEF Broadcast, TypeOK, Posting
<1>10. ASSUME NEW r \in Remotes, DeliverRemote(r) PROVE TypeOK' /\ Posting'
  <2>1. r \in Authors /\ Enqueue(r, TRUE) /\ posted[r] < MaxPosts
    BY <1>10 DEF DeliverRemote, Authors
  <2>2. \A d \in Clients : posted'[d] = posted[d]
    BY <2>1 DEF Enqueue, TypeOK
  <2> QED BY <1>8, <1>10, <2>1, <2>2 DEF DeliverRemote, TypeOK, Posting
<1>11. ASSUME NEW c \in Clients, ShowLine(c) PROVE TypeOK' /\ Posting'
  BY <1>11 DEF ShowLine, TypeOK, Posting
<1>12. CASE TakeRemote
  BY <1>12, QueueHead DEF TakeRemote, TypeOK, Posting
<1>13. CASE Stop
  BY <1>13 DEF Stop, TypeOK, Posting
<1>14. CASE UNCHANGED vars
  BY <1>14 DEF vars, TypeOK, Posting
<1> QED BY <1>1, <1>2, <1>3, <1>4, <1>5, <1>6, <1>7, <1>9, <1>10, <1>11, <1>12,
        <1>13, <1>14 DEF Next, Select, Users

\* A step of a client from one call to another changes nothing of the hub's.
LEMMA OwnershipFrame ==
    ASSUME Ownership, UNCHANGED <<hub, sessions, closed, panicked>>,
           \A c \in Clients : /\ pc'[c] \in Present <=> pc[c] \in Present
                              /\ pc'[c] \in Departed <=> pc[c] \in Departed
                              /\ pc'[c] \in {"off", "join"} <=> pc[c] \in {"off", "join"}
    PROVE  Ownership'
BY DEF Ownership

\* A step keeps the link between the session map, the closed channels and the
\* place of each terminal goroutine (Run).
LEMMA OwnershipStep == TypeOK /\ Ownership /\ [Next]_vars => Ownership'
<1> SUFFICES ASSUME TypeOK, Ownership, [Next]_vars PROVE Ownership'
  OBVIOUS
<1> USE DEF Present, Departed
<1>1. ASSUME NEW c \in Clients, HubJoin(c) PROVE Ownership'
  <2>1. hub = "running" /\ pc[c] = "join" /\ c \notin closed
    BY <1>1 DEF HubJoin, Serving, Ownership
  <2>2. ~SendPanics(sessions \cup {c})
    BY <2>1 DEF SendPanics, Ownership, TypeOK
  <2> QED BY <1>1, <2>1, <2>2 DEF HubJoin, Ownership, TypeOK
<1>2. ASSUME NEW c \in Clients, HubLeave(c) PROVE Ownership'
  <2>1. hub = "running" /\ pc[c] = "leave" /\ c \in sessions
    BY <1>2 DEF HubLeave, Serving, Ownership
  <2>2. ~SendPanics(sessions \cup {c})
    BY <2>1 DEF SendPanics, Ownership, TypeOK
  <2> QED BY <1>2, <2>1, <2>2 DEF HubLeave, Ownership, TypeOK
<1>3. ASSUME NEW c \in Clients, HubWho(c) PROVE Ownership'
  BY <1>3, OwnershipFrame DEF HubWho, TypeOK
<1>4. ASSUME NEW c \in Clients, HubSetNick(c) PROVE Ownership'
  <2>1. hub = "running" /\ ~SendPanics(sessions)
    BY <1>4 DEF HubSetNick, Serving, SendPanics, Ownership, TypeOK
  <2>2. panicked' = panicked
    BY <1>4, <2>1 DEF HubSetNick, Ownership, TypeOK
  <2> QED BY <1>4, <2>2, OwnershipFrame DEF HubSetNick, TypeOK
<1>5. CASE HubBroadcast
  <2>1. hub = "running" /\ ~SendPanics(sessions \ {Head(queue).from})
    BY <1>5 DEF HubBroadcast, Serving, SendPanics, Ownership, TypeOK
  <2>2. panicked' = panicked
    BY <1>5, <2>1 DEF HubBroadcast, Ownership, TypeOK
  <2> QED BY <1>5, <2>2, OwnershipFrame DEF HubBroadcast
<1>6. CASE HubStop
  <2>1. hub = "running" /\ ~SendPanics(sessions)
    BY <1>6 DEF HubStop, Serving, SendPanics, Ownership, TypeOK
  <2> QED BY <1>6, <2>1 DEF HubStop, Ownership, TypeOK
<1>7. ASSUME NEW c \in Clients, NEW n \in Nicks, Join(c, n) \/ SetNick(c, n)
      PROVE  Ownership'
  BY <1>7, OwnershipFrame DEF Join, SetNick, Call, TypeOK
<1>8. ASSUME NEW c \in Clients, Who(c) \/ Leave(c) \/ Type(c) \/ Finish(c)
      PROVE  Ownership'
  BY <1>8, OwnershipFrame DEF Who, Leave, Type, Finish, Call, TypeOK
<1>9. ASSUME NEW c \in Clients, Broadcast(c) PROVE Ownership'
  BY <1>9, OwnershipFrame DEF Broadcast, TypeOK
<1>10. CASE (\E c \in Clients : ShowLine(c)) \/ (\E r \in Remotes : DeliverRemote(r))
            \/ TakeRemote \/ Stop \/ UNCHANGED vars
  BY <1>10, OwnershipFrame DEF ShowLine, DeliverRemote, TakeRemote, Stop, vars
<1> QED BY <1>1, <1>2, <1>3, <1>4, <1>5, <1>6, <1>7, <1>8, <1>9, <1>10
        DEF Next, Select, Users

\* A step that leaves the queue, the announcements and the line sent last alone,
\* and takes nobody back before the join, keeps what is announced.
LEMMA AnnouncementFrame ==
    ASSUME Announcement, UNCHANGED <<queue, nick, announced, last>>,
           \A c \in Clients : pc'[c] \in {"off", "join"} => pc[c] \in {"off", "join"},
           \A c \in Clients : pc[c] \in {"off", "join"} => pc'[c] \in {"off", "join"}
    PROVE  Announcement'
BY DEF Announcement

\* A step keeps nicknames and announcements in agreement (join and setNick).
LEMMA AnnouncementStep ==
    TypeOK /\ Ownership /\ Announcement /\ Flagged /\ [Next]_vars => Announcement'
<1> SUFFICES ASSUME TypeOK, Ownership, Announcement, Flagged, [Next]_vars PROVE Announcement'
  OBVIOUS
<1>1. ASSUME NEW c \in Clients, HubJoin(c) PROVE Announcement'
  <2>1. \A d \in Clients : pc'[d] \notin {"off", "join"} => announced'[d] = nick'[d]
    BY <1>1 DEF HubJoin, TypeOK, Announcement
  <2>2. last'.kind # "chat"
    BY <1>1 DEF HubJoin, SendAll, Line
  <2> QED BY <1>1, <2>1, <2>2 DEF HubJoin, TypeOK, Announcement
<1>2. ASSUME NEW c \in Clients, HubSetNick(c) PROVE Announcement'
  <2>1. \A d \in Clients : pc'[d] \notin {"off", "join"} => announced'[d] = nick'[d]
    BY <1>2 DEF HubSetNick, TypeOK, Announcement
  <2>2. last'.kind # "chat"
    BY <1>2 DEF HubSetNick, SendAll, Line
  <2> QED BY <1>2, <2>1, <2>2 DEF HubSetNick, TypeOK, Announcement
<1>3. ASSUME NEW c \in Clients, HubLeave(c) PROVE Announcement'
  <2>1. last'.kind # "chat" \/ last' = last
    BY <1>3 DEF HubLeave, SendAll, Line
  <2> QED BY <1>3, <2>1 DEF HubLeave, TypeOK, Announcement
<1>4. CASE HubBroadcast
  <2> DEFINE m == Head(queue)
  <2>1. /\ m = queue[1] /\ 1 \in 1 .. Len(queue) /\ m \in Message
        /\ \A i \in 1 .. Len(queue') : i + 1 \in 1 .. Len(queue) /\ queue'[i] = queue[i + 1]
    BY <1>4, QueueHead DEF HubBroadcast, TypeOK
  <2>2. \A i \in 1 .. Len(queue') :
          queue'[i].from \in Clients => pc[queue'[i].from] \notin {"off", "join"}
    BY <2>1 DEF Announcement
  <2>3. CASE ~m.system
    <3>0. m.from \in Clients
      BY <2>1, <2>3 DEF Flagged
    <3>1. last' = Line("chat", m.from, nick[m.from])
      BY <1>4, <2>3, <3>0 DEF HubBroadcast, SendAll, NickOf
    <3>2. announced[m.from] = nick[m.from]
      BY <2>1, <3>0 DEF Announcement
    <3>3. last'.author \in Clients /\ last'.nick = announced[last'.author]
      BY <3>0, <3>1, <3>2 DEF Line
    <3> QED BY <1>4, <2>2, <3>3 DEF HubBroadcast, Announcement
  <2>4. CASE m.system
    <3>1. last'.kind # "chat"
      BY <1>4, <2>4 DEF HubBroadcast, SendAll, Line
    <3> QED BY <1>4, <2>2, <3>1 DEF HubBroadcast, Announcement
  <2> QED BY <2>3, <2>4
<1>5. ASSUME NEW c \in Clients, HubWho(c) PROVE Announcement'
  BY <1>5, AnnouncementFrame DEF HubWho, TypeOK
<1>6. ASSUME NEW c \in Clients, NEW n \in Nicks, Join(c, n) \/ SetNick(c, n)
      PROVE  Announcement'
  BY <1>6, AnnouncementFrame DEF Join, SetNick, Call, TypeOK
<1>7. ASSUME NEW c \in Clients, Who(c) \/ Leave(c) \/ Type(c) \/ Finish(c)
      PROVE  Announcement'
  BY <1>7, AnnouncementFrame DEF Who, Leave, Type, Finish, Call, TypeOK
<1>8. ASSUME NEW x \in Authors, NEW f, Enqueue(x, f), UNCHANGED <<nick, announced, last>>,
             x \in Clients => pc[x] \notin {"off", "join"},
             \A d \in Clients : pc[d] \in {"off", "join"} <=> pc'[d] \in {"off", "join"}
      PROVE  Announcement'
  <2> DEFINE y == [from |-> x, text |-> posted[x] + 1, system |-> f]
  <2>1. queue' = Append(queue, y) /\ y.from = x
    BY <1>8 DEF Enqueue
  <2>2. \A i \in 1 .. Len(queue') :
          (i \in 1 .. Len(queue) /\ queue'[i] = queue[i]) \/ queue'[i] = y
    <3>1. queue \in Seq(Message \cup {y}) /\ y \in Message \cup {y}
      BY DEF TypeOK
    <3> HIDE DEF y
    <3> QED BY <2>1, <3>1, QueueAppend
  <2> HIDE DEF y
  <2> QED BY <1>8, <2>1, <2>2 DEF Announcement
<1>9. ASSUME NEW c \in Clients, Broadcast(c) PROVE Announcement'
  BY <1>8, <1>9 DEF Broadcast, Authors, TypeOK
<1>10. ASSUME NEW r \in Remotes, DeliverRemote(r) PROVE Announcement'
  BY <1>8, <1>10, HubAssumption DEF DeliverRemote, Authors
<1>11. CASE (\E c \in Clients : ShowLine(c)) \/ HubStop \/ TakeRemote \/ Stop \/ UNCHANGED vars
  BY <1>11, AnnouncementFrame DEF ShowLine, HubStop, TakeRemote, Stop, vars
<1> QED BY <1>1, <1>2, <1>3, <1>4, <1>5, <1>6, <1>7, <1>9, <1>10, <1>11
        DEF Next, Select, Users

\* Messages enter the queue with the flag that is due to them (Broadcast,
\* DeliverRemote), and keep it there.
LEMMA FlaggedStep == TypeOK /\ Flagged /\ [Next]_vars => Flagged'
<1> SUFFICES ASSUME TypeOK, Flagged, [Next]_vars PROVE Flagged'
  OBVIOUS
<1>1. CASE queue' = queue
  BY <1>1 DEF Flagged
<1>2. CASE HubBroadcast
  <2>1. \A i \in 1 .. Len(queue') : i + 1 \in 1 .. Len(queue) /\ queue'[i] = queue[i + 1]
    BY <1>2, QueueHead DEF HubBroadcast, TypeOK
  <2> QED BY <2>1 DEF Flagged
<1>3. ASSUME NEW x, NEW f, Enqueue(x, f), f <=> x \notin Clients PROVE Flagged'
  <2> DEFINE y == [from |-> x, text |-> posted[x] + 1, system |-> f]
  <2>1. queue' = Append(queue, y) /\ (y.system <=> y.from \notin Clients)
    BY <1>3 DEF Enqueue
  <2>2. queue \in Seq(Message \cup {y}) /\ y \in Message \cup {y}
    BY DEF TypeOK
  <2> HIDE DEF y
  <2>3. \A i \in 1 .. Len(queue') :
          (i \in 1 .. Len(queue) /\ queue'[i] = queue[i]) \/ queue'[i] = y
    BY <2>1, <2>2, QueueAppend
  <2> QED BY <2>1, <2>3 DEF Flagged
<1>4. ASSUME NEW c \in Clients, Broadcast(c) PROVE Flagged'
  <2>1. Enqueue(c, FALSE)
    BY <1>4 DEF Broadcast
  <2> QED BY <1>3, <2>1
<1>5. ASSUME NEW r \in Remotes, DeliverRemote(r) PROVE Flagged'
  <2>1. Enqueue(r, TRUE) /\ r \notin Clients
    BY <1>5, HubAssumption DEF DeliverRemote
  <2> QED BY <1>3, <2>1
<1>6. CASE \/ HubStop \/ TakeRemote \/ Stop \/ UNCHANGED vars
           \/ \E c \in Clients : \/ HubJoin(c) \/ HubLeave(c) \/ HubWho(c) \/ HubSetNick(c)
                                \/ Who(c) \/ Leave(c) \/ Type(c) \/ ShowLine(c) \/ Finish(c)
                                \/ \E n \in Nicks : Join(c, n) \/ SetNick(c, n)
  <2>1. queue' = queue
    BY <1>6 DEF HubJoin, HubLeave, HubWho, HubSetNick, HubStop, Join, SetNick, Who, Leave,
       Type, ShowLine, Finish, TakeRemote, Stop, Call, vars
  <2> QED BY <1>1, <2>1
<1> QED BY <1>2, <1>4, <1>5, <1>6 DEF Next, Select, Users

\* Only messages of local sessions enter remoteSend: what the hub forwards came
\* through the queue without the flag (broadcast).
LEMMA NoRefloodStep == TypeOK /\ Flagged /\ NoReflood /\ [Next]_vars => NoReflood'
<1> SUFFICES ASSUME TypeOK, Flagged, NoReflood, [Next]_vars PROVE NoReflood'
  OBVIOUS
<1>1. CASE remoteSend' = remoteSend
  BY <1>1 DEF NoReflood
<1>2. CASE HubBroadcast /\ remoteSend' # remoteSend
  <2> DEFINE m == Head(queue)
  <2> DEFINE x == [from |-> m.from, nick |-> NickOf(m.from), text |-> m.text]
  <2>1. ~m.system /\ remoteSend' = Append(remoteSend, x)
    BY <1>2 DEF HubBroadcast
  <2>2. x.from \in Clients
    <3>1. m = queue[1] /\ 1 \in 1 .. Len(queue)
      BY <1>2, QueueHead DEF HubBroadcast, TypeOK
    <3> QED BY <2>1, <3>1 DEF Flagged
  <2>3. \A i \in 1 .. Len(remoteSend') :
          (i \in 1 .. Len(remoteSend) /\ remoteSend'[i] = remoteSend[i]) \/ remoteSend'[i] = x
    <3>1. remoteSend \in Seq(RemoteMsg \cup {x}) /\ x \in RemoteMsg \cup {x}
      BY DEF TypeOK
    <3> HIDE DEF x
    <3> QED BY <2>1, <3>1, QueueAppend
  <2> HIDE DEF x
  <2> QED BY <2>2, <2>3 DEF NoReflood
<1>3. CASE TakeRemote
  <2>1. \A i \in 1 .. Len(remoteSend') :
          i + 1 \in 1 .. Len(remoteSend) /\ remoteSend'[i] = remoteSend[i + 1]
    BY <1>3, QueueHead DEF TakeRemote, TypeOK
  <2> QED BY <2>1 DEF NoReflood
<1>4. ASSUME [Next]_vars, ~HubBroadcast, ~TakeRemote PROVE remoteSend' = remoteSend
  BY <1>4 DEF Next, Select, Users, HubJoin, HubLeave, HubWho, HubSetNick, HubStop, Join,
     SetNick, Who, Leave, Type, Broadcast, ShowLine, Finish, DeliverRemote, Stop, Call, vars
<1> QED BY <1>1, <1>2, <1>3, <1>4

\* Every step keeps the inductive invariant.
LEMMA NextInd == IndInv /\ [Next]_vars => IndInv'
BY NextType, OwnershipStep, AnnouncementStep, FlaggedStep, NoRefloodStep DEF IndInv

\* The inductive invariant of the hub holds in every reachable state.
THEOREM Invariance == Spec => []IndInv
BY InitInd, NextInd, PTL DEF Spec

-----------------------------------------------------------------------------
\* Every variable keeps its type.
THEOREM TypeCorrect == Spec => []TypeOK
<1>1. IndInv => TypeOK
  BY DEF IndInv
<1> QED BY <1>1, Invariance, PTL

\* The hub never sends on or closes a closed channel.
THEOREM NoPanicHolds == Spec => []NoPanic
<1>1. IndInv => NoPanic
  BY DEF IndInv, Ownership, NoPanic, Serving, Present, Departed, TypeOK
<1> QED BY <1>1, Invariance, PTL

\* A stopped hub leaves no printer waiting.
THEOREM StopReleasesPrintersHolds == Spec => []StopReleasesPrinters
<1>1. IndInv => StopReleasesPrinters
  BY DEF IndInv, Ownership, StopReleasesPrinters
<1> QED BY <1>1, Invariance, PTL

\* Chat lines carry the nickname last announced.
THEOREM NickAsAnnouncedHolds == Spec => []NickAsAnnounced
<1>1. IndInv => NickAsAnnounced
  BY DEF IndInv, Announcement, NickAsAnnounced
<1> QED BY <1>1, Invariance, PTL

\* Remote messages are not sent to the network again: the flag they are queued with
\* stays with them until the hub decides what to forward.
THEOREM NoRefloodHolds == Spec => []NoReflood
<1>1. IndInv => NoReflood
  BY DEF IndInv
<1> QED BY <1>1, Invariance, PTL
=============================================================================
