-------------------------- MODULE AppServiceProofs --------------------------
(***************************************************************************)
(* The server for the phone application, for every number of clients,      *)
(* slots and descriptors, every time-out and every script.  What makes     *)
(* SlotServed inductive is Owned: a thread works for the slot that bears   *)
(* its client's name, and a slot that is being given up shares its socket  *)
(* with none in use.  Lined says how the list and the one append that is   *)
(* under way relate to what is due.                                        *)
(***************************************************************************)
EXTENDS AppService, TLAPS, WellFoundedInduction

Connected(i) == g_appclients[i].status = "APPCLIENT_CONNECTED"
Dying == {"close", "forget"}

Started ==
    /\ \A c \in AppClient : /\ appThread[c].at = "recv" => appThread[c].from # "none"
                            /\ appThread[c].at = "parse" => appThread[c].request # "short"
    /\ \A p \in Producer : Adding(p) => appScript.announced[p] > 0

(* What a slot in use has, and what holds of one that is being given up.   *)
Served(i) ==
    /\ g_appclients[i].client \in AppClient
    /\ g_appclients[i].socket # 0
    /\ appFd[g_appclients[i].socket] = g_appclients[i].client
    /\ appThread[g_appclients[i].client].at \notin {"none"} \cup Dying
    /\ appThread[g_appclients[i].client].index = i

GivenUp(i) ==
    /\ ~Connected(i)
    /\ g_appclients[i].client \in AppClient /\ phone[g_appclients[i].client] # "out"
    /\ Whose(g_appclients[i].socket) \in {g_appclients[i].client, "none"}
    /\ \A j \in Index : Connected(j) => /\ g_appclients[j].socket # g_appclients[i].socket
                                        /\ g_appclients[j].client # g_appclients[i].client

Owned ==
    ~handed =>
        /\ \A i \in Index : Connected(i) => Served(i)
        /\ \A i \in Index : Closing(i) => GivenUp(i)
        /\ \A c \in AppClient : appThread[c].at # "none" =>
              /\ g_appclients[appThread[c].index].client = c
              /\ phone[c] # "out"
              /\ ~Connected(appThread[c].index) => Closing(appThread[c].index)

Made ==
    ~handed => \A c \in AppClient : appThread[c].at = "send" =>
        \/ g_appclients[appThread[c].index].proSendBuffer = appThread[c].reply
        \/ appThread[c].index \in mixed

Lined ==
    ~overlapped =>
        /\ g_AckCmdlist = due
        /\ \A k \in DOMAIN due : due[k][2] > appScript.announced[due[k][1]]
        /\ \A k, l \in DOMAIN due : due[k] = due[l] => k = l
        /\ \A p, o \in Producer : Adding(p) /\ Adding(o) => p = o
        /\ \A p \in Producer : Adding(p) =>
              adding[p].pList = IF due = <<>> THEN NoAck ELSE due[Len(due)]

AppIInv == AppTypeOK /\ Started /\ Owned /\ Made /\ Lined

-----------------------------------------------------------------------------
(* Least elements and the values of the variables.                         *)

(* A set of numbers that is not empty has a least one.                     *)
LEMMA LeastFreeNumber ==
    ASSUME NEW T, T \subseteq Nat, T # {}
    PROVE  \E x \in T : \A y \in T : x <= y
<1>1. PICK x \in T : \A y \in T : <<y, x>> \notin OpToRel(<, Nat)
  BY NatLessThanWellFounded, WFMin, Zenon
<1>2. \A y \in T : ~(y < x)
  BY <1>1, Zenon DEF OpToRel
<1> QED BY <1>2

(* The listener takes an idle slot when there is one.                      *)
LEMMA FirstIdleIs ==
    ASSUME Idle # {}
    PROVE  FirstIdle \in Index /\ g_appclients[FirstIdle].status = "APPCLIENT_IDLE"
<1>1. Idle \subseteq Nat
  BY AppAssumption DEF Idle, Index
<1>2. \E i \in Idle : \A j \in Idle : i <= j
  BY <1>1, LeastFreeNumber
<1>3. FirstIdle \in Idle
  BY <1>2, Zenon DEF FirstIdle
<1> QED BY <1>3 DEF Idle

(* The kernel's new descriptor was nobody's.                               *)
LEMMA NewAppFdIs ==
    ASSUME AppUnused # {}
    PROVE  NewAppFd \in AppFd /\ appFd[NewAppFd] = "none"
<1>1. AppUnused \subseteq Nat
  BY AppAssumption DEF AppUnused, AppFd
<1>2. \E n \in AppUnused : \A m \in AppUnused : n <= m
  BY <1>1, LeastFreeNumber
<1>3. NewAppFd \in AppUnused
  BY <1>2, Zenon DEF NewAppFd
<1> QED BY <1>3 DEF AppUnused

(* The slots are numbered round, and descriptors from 1.                   *)
LEMMA AppBasics ==
    /\ 0 \in Index
    /\ \A i \in Index : NextIndex(i) \in Index
    /\ \A i \in Index : i + 1 # MAX_APP_CLIENT => i + 1 \in Index
    /\ \A n \in AppFd : n # 0
    /\ "none" \notin AppClient
    /\ \A p \in Producer : p # "none" /\ p \in Packet
    /\ \A r \in Reply \cup {"none"} : r \in Packet
    /\ 0 \in 0..OVER_TIME_SEC /\ OVER_TIME_SEC \in 0..OVER_TIME_SEC /\ OVER_TIME_SEC \in Nat
BY AppAssumption DEF Index, NextIndex, AppFd, Packet, Reply

(* What the fields of a slot are, and that it is a slot still when one is  *)
(* set.                                                                    *)
LEMMA AppSlotGet ==
    ASSUME NEW R \in [Index -> AppSlot], NEW i \in Index
    PROVE  /\ R[i].status \in {"APPCLIENT_IDLE", "APPCLIENT_CONNECTED"}
           /\ R[i].socket \in AppFd \cup {0} /\ R[i].client \in AppClient \cup {"none"}
           /\ R[i].iOverTimeCnt \in 0..OVER_TIME_SEC /\ R[i].proSendBuffer \in Packet
           /\ R[i].loginflag \in BOOLEAN
BY DEF AppSlot

LEMMA AppSlotPut ==
    ASSUME NEW R \in [Index -> AppSlot], NEW i \in Index
    PROVE  /\ \A x \in {"APPCLIENT_IDLE", "APPCLIENT_CONNECTED"} :
                 [R EXCEPT ![i].status = x] \in [Index -> AppSlot]
           /\ \A x \in AppFd \cup {0} : [R EXCEPT ![i].socket = x] \in [Index -> AppSlot]
           /\ \A x \in BOOLEAN : [R EXCEPT ![i].loginflag = x] \in [Index -> AppSlot]
           /\ \A x \in 0..OVER_TIME_SEC : [R EXCEPT ![i].iOverTimeCnt = x] \in [Index -> AppSlot]
           /\ \A x \in Packet : [R EXCEPT ![i].proSendBuffer = x] \in [Index -> AppSlot]
BY DEF AppSlot

(* Setting another field leaves status, socket and client as they are.     *)
Held(R, Q) ==
    \A j \in Index : /\ Q[j].status = R[j].status /\ Q[j].socket = R[j].socket
                     /\ Q[j].client = R[j].client

LEMMA SlotHolds ==
    ASSUME NEW R \in [Index -> AppSlot], NEW i \in Index, NEW x
    PROVE  /\ Held(R, [R EXCEPT ![i].loginflag = x])
           /\ Held(R, [R EXCEPT ![i].iOverTimeCnt = x])
           /\ Held(R, [R EXCEPT ![i].proSendBuffer = x])
BY DEF AppSlot, Held

(* The same of a thread's record.                                          *)
LEMMA ThreadGet ==
    ASSUME NEW R \in [AppClient -> ThreadState], NEW c \in AppClient
    PROVE  /\ R[c].at \in {"none", "loop", "recv", "parse", "send", "close", "forget"}
           /\ R[c].index \in Index /\ R[c].from \in AppClient \cup {"none"}
           /\ R[c].request \in Request /\ R[c].reply \in Reply \cup {"none"}
BY DEF ThreadState

LEMMA ThreadPut ==
    ASSUME NEW R \in [AppClient -> ThreadState], NEW c \in AppClient
    PROVE  /\ \A x \in {"none", "loop", "recv", "parse", "send", "close", "forget"} :
                 [R EXCEPT ![c].at = x] \in [AppClient -> ThreadState]
           /\ \A x \in AppClient \cup {"none"} :
                 [R EXCEPT ![c].from = x] \in [AppClient -> ThreadState]
           /\ \A x \in Request : [R EXCEPT ![c].request = x] \in [AppClient -> ThreadState]
           /\ \A x \in Reply \cup {"none"} : [R EXCEPT ![c].reply = x] \in [AppClient -> ThreadState]
BY DEF ThreadState

LEMMA Fresh ==
    /\ NoThread \in ThreadState /\ NoThread.at = "none"
    /\ \A i \in Index : [NoThread EXCEPT !.at = "loop", !.index = i] \in ThreadState
    /\ EmptySlot \in AppSlot /\ EmptySlot.status = "APPCLIENT_IDLE"
    /\ \A n \in AppFd, c \in AppClient :
          [EmptySlot EXCEPT !.status = "APPCLIENT_CONNECTED", !.socket = n, !.client = c] \in AppSlot
BY AppBasics DEF NoThread, ThreadState, EmptySlot, AppSlot, Request, Packet

-----------------------------------------------------------------------------
(* Type correctness of every step.                                         *)

(* What a slot given up becomes.                                           *)
LEMMA ForgettingIs ==
    ASSUME NEW i \in Index, g_appclients \in [Index -> AppSlot]
    PROVE  /\ Forgetting(i) \in [Index -> AppSlot]
           /\ \A j \in Index : /\ Forgetting(i)[j].status = g_appclients[j].status
                               /\ Forgetting(i)[j].client = g_appclients[j].client
                               /\ Forgetting(i)[j].proSendBuffer = g_appclients[j].proSendBuffer
                               /\ Forgetting(i)[j].socket =
                                     IF j = i THEN 0 ELSE g_appclients[j].socket
<1> DEFINE P == [g_appclients EXCEPT ![i].socket = 0]
<1>1. P \in [Index -> AppSlot]
  BY AppSlotPut
<1>2. \A j \in Index : /\ P[j].status = g_appclients[j].status /\ P[j].client = g_appclients[j].client
                       /\ P[j].proSendBuffer = g_appclients[j].proSendBuffer
                       /\ P[j].socket = IF j = i THEN 0 ELSE g_appclients[j].socket
  BY DEF AppSlot
<1>3. Forgetting(i) = [P EXCEPT ![i].iOverTimeCnt = 0]
  BY DEF Forgetting
<1> HIDE DEF P
<1>4. Forgetting(i) \in [Index -> AppSlot]
  <2>1. 0 \in 0..OVER_TIME_SEC
    BY AppBasics
  <2>2. \A x \in 0..OVER_TIME_SEC : [P EXCEPT ![i].iOverTimeCnt = x] \in [Index -> AppSlot]
    BY <1>1, AppSlotPut
  <2> QED BY <1>3, <2>1, <2>2, Zenon
<1>5. \A j \in Index : /\ Forgetting(i)[j].status = P[j].status /\ Forgetting(i)[j].client = P[j].client
                       /\ Forgetting(i)[j].proSendBuffer = P[j].proSendBuffer
                       /\ Forgetting(i)[j].socket = P[j].socket
  BY <1>1, <1>3 DEF AppSlot
<1> QED BY <1>2, <1>4, <1>5

(* What a request does to its slot: it may count for one that is alive,    *)
(* and empty the buffer.                                                   *)
LEMMA RecvPut ==
    ASSUME NEW R \in [Index -> AppSlot], NEW i \in Index, NEW q
    PROVE  LET Q == [R EXCEPT
                ![i].proSendBuffer = IF q \in {"short", "crc"} THEN @ ELSE "none",
                ![i].iOverTimeCnt = IF q \in {"short", "crc", "refused"} THEN @ ELSE 0]
           IN /\ Q \in [Index -> AppSlot] /\ Held(R, Q)
              /\ \A j \in Index : j # i => Q[j].proSendBuffer = R[j].proSendBuffer
<1> DEFINE b == IF q \in {"short", "crc"} THEN R[i].proSendBuffer ELSE "none"
           P == [R EXCEPT ![i].proSendBuffer = b]
           n == IF q \in {"short", "crc", "refused"} THEN P[i].iOverTimeCnt ELSE 0
           Q == [P EXCEPT ![i].iOverTimeCnt = n]
<1>1. b \in Packet
  BY AppSlotGet, AppBasics
<1>2. P \in [Index -> AppSlot] /\ Held(R, P)
  <2> HIDE DEF b
  <2> QED BY <1>1, AppSlotPut, SlotHolds
<1>3. \A j \in Index : j # i => P[j].proSendBuffer = R[j].proSendBuffer
  OBVIOUS
<1>4. n \in 0..OVER_TIME_SEC
  <2> HIDE DEF P
  <2> QED BY <1>2, AppSlotGet, AppBasics
<1>5. Q \in [Index -> AppSlot] /\ Held(P, Q)
  <2> HIDE DEF P, n
  <2> QED BY <1>2, <1>4, AppSlotPut, SlotHolds
<1>6. \A j \in Index : j # i => Q[j].proSendBuffer = P[j].proSendBuffer
  <2> HIDE DEF P, n
  <2> QED BY <1>2
<1>7. Q = [R EXCEPT
                ![i].proSendBuffer = IF q \in {"short", "crc"} THEN @ ELSE "none",
                ![i].iOverTimeCnt = IF q \in {"short", "crc", "refused"} THEN @ ELSE 0]
  BY Zenon
<1> HIDE DEF P, Q
<1> QED BY <1>2, <1>3, <1>5, <1>6, <1>7 DEF Held

(* What packing an answer does to the slot.                                *)
LEMMA PacksPut ==
    ASSUME NEW R \in [Index -> AppSlot], NEW i \in Index, NEW q, NEW r \in Packet
    PROVE  LET Q == [R EXCEPT ![i].proSendBuffer = r,
                       ![i].loginflag = CASE q = "login" -> TRUE
                                          [] q = "denied" -> FALSE
                                          [] OTHER -> @]
           IN /\ Q \in [Index -> AppSlot] /\ Held(R, Q)
              /\ Q[i].proSendBuffer = r
              /\ \A j \in Index : j # i => Q[j].proSendBuffer = R[j].proSendBuffer
<1> DEFINE P == [R EXCEPT ![i].proSendBuffer = r]
           l == CASE q = "login" -> TRUE [] q = "denied" -> FALSE [] OTHER -> P[i].loginflag
           Q == [P EXCEPT ![i].loginflag = l]
<1>1. P \in [Index -> AppSlot] /\ Held(R, P)
  BY AppSlotPut, SlotHolds
<1>2. P[i].proSendBuffer = r /\ \A j \in Index : j # i => P[j].proSendBuffer = R[j].proSendBuffer
  BY DEF AppSlot
<1>3. l \in BOOLEAN
  <2> HIDE DEF P
  <2>1. P[i].loginflag \in BOOLEAN
    BY <1>1, AppSlotGet
  <2>2. CASE q = "login"
    BY <2>2
  <2>3. CASE q = "denied"
    BY <2>3
  <2>4. CASE q \notin {"login", "denied"}
    BY <2>1, <2>4
  <2> QED BY <2>2, <2>3, <2>4
<1>4. Q \in [Index -> AppSlot] /\ Held(P, Q)
  <2> HIDE DEF P, l
  <2> QED BY <1>1, <1>3, AppSlotPut, SlotHolds
<1>5. \A j \in Index : Q[j].proSendBuffer = P[j].proSendBuffer
  <2> HIDE DEF P, l
  <2> QED BY <1>1 DEF AppSlot
<1>6. Q = [R EXCEPT ![i].proSendBuffer = r,
                       ![i].loginflag = CASE q = "login" -> TRUE
                                          [] q = "denied" -> FALSE
                                          [] OTHER -> @]
  BY Zenon
<1> HIDE DEF P, Q
<1> QED BY <1>1, <1>2, <1>4, <1>5, <1>6 DEF Held

(* What a number names is a client, or nobody.                             *)
LEMMA WhoseIs ==
    ASSUME appFd \in [AppFd -> AppClient \cup {"none"}], NEW n \in AppFd \cup {0}
    PROVE  Whose(n) \in AppClient \cup {"none"}
BY DEF Whose

(* The list, of announcements, stays one when one is linked to it.         *)
LEMMA LinkedType ==
    ASSUME NEW list \in Seq(Announcement), NEW last, NEW m \in Announcement
    PROVE  Linked(list, last, m) \in Seq(Announcement)
<1>1. CASE last # NoAck /\ \E k \in DOMAIN list : list[k] = last
  <2> DEFINE k == CHOOSE k \in DOMAIN list : list[k] = last
  <2>1. k \in 1..Len(list)
    BY <1>1
  <2> HIDE DEF k
  <2>2. SubSeq(list, 1, k) \in Seq(Announcement)
    BY <2>1
  <2>3. Linked(list, last, m) = SubSeq(list, 1, k) \o <<m>>
    BY <1>1, Zenon DEF Linked, k
  <2> QED BY <2>2, <2>3
<1>2. CASE ~(last # NoAck /\ \E k \in DOMAIN list : list[k] = last)
  <2>1. Linked(list, last, m) = <<m>> \/ Linked(list, last, m) = list
    BY <1>2, Zenon DEF Linked
  <2>2. <<m>> \in Seq(Announcement)
    OBVIOUS
  <2> QED BY <2>1, <2>2
<1> QED BY <1>1, <1>2

-----------------------------------------------------------------------------
(* The types, and what the threads that wait know.                          *)
LEMMA AppNext_Type ==
    ASSUME AppIInv, [AppNext]_appVars
    PROVE  AppTypeOK' /\ Started'
<1>t. AppTypeOK /\ Started
  BY DEF AppIInv
<1>phone. phone \in [AppClient -> {"out", "up", "gone"}]
  BY <1>t DEF AppTypeOK
<1>appFd. appFd \in [AppFd -> AppClient \cup {"none"}]
  BY <1>t DEF AppTypeOK
<1>slot. g_appclients \in [Index -> AppSlot]
  BY <1>t DEF AppTypeOK
<1>thread. appThread \in [AppClient -> ThreadState]
  BY <1>t DEF AppTypeOK
<1>alive. alive \in [at : {"count", "close", "forget"}, i : Index]
  BY <1>t DEF AppTypeOK
<1>ack. ackThread \in [at : {"wait", "look", "send"}, i : Index, p : Announcement \cup {NoAck}]
  BY <1>t DEF AppTypeOK
<1>adding. adding \in [Producer -> [at : {"out", "link"}, pList : Announcement \cup {NoAck}]]
  BY <1>t DEF AppTypeOK
<1>lists. g_AckCmdlist \in Seq(Announcement) /\ due \in Seq(Announcement)
  BY <1>t DEF AppTypeOK
<1>script. /\ appScript \in AppScript
           /\ appScript.requests \in [AppClient -> Seq(Request)]
           /\ appScript.announced \in [Producer -> Nat]
  BY <1>t DEF AppTypeOK, AppScript
<1>started. /\ \A c \in AppClient : /\ appThread[c].at = "recv" => appThread[c].from # "none"
                                    /\ appThread[c].at = "parse" => appThread[c].request # "short"
            /\ \A p \in Producer : adding[p].at = "link" => appScript.announced[p] > 0
  BY <1>t DEF Started, Adding
<1>ackon. ASSUME AckOn
          PROVE  ackThread' \in [at : {"wait", "look", "send"}, i : Index, p : Announcement \cup {NoAck}]
  <2>1. ackThread.i \in Index
    BY <1>ack
  <2>2. CASE ackThread.i + 1 = MAX_APP_CLIENT
    BY <2>2, <1>ackon, AppBasics DEF AckOn
  <2>3. CASE ackThread.i + 1 # MAX_APP_CLIENT
    <3>1. ackThread' = [ackThread EXCEPT !.at = "look", !.i = ackThread.i + 1]
      BY <2>3, <1>ackon DEF AckOn
    <3>2. ackThread.i + 1 \in Index
      BY <2>1, <2>3, AppBasics
    <3> QED BY <1>ack, <3>1, <3>2
  <2> QED BY <2>2, <2>3
<1>1. ASSUME NEW c \in AppClient, AppAccept(c)
      PROVE  AppTypeOK' /\ Started'
  <2>1. FirstIdle \in Index /\ NewAppFd \in AppFd
    BY <1>1, FirstIdleIs, NewAppFdIs DEF AppAccept, Connects
  <2>2. phone' \in [AppClient -> {"out", "up", "gone"}] /\ appFd' \in [AppFd -> AppClient \cup {"none"}]
    BY <1>phone, <1>appFd, <1>1, <2>1 DEF AppAccept, Connects
  <2>3. g_appclients' \in [Index -> AppSlot]
    BY <1>slot, <1>1, <2>1, Fresh DEF AppAccept
  <2>4. appThread' \in [AppClient -> ThreadState]
    BY <1>thread, <1>1, <2>1, Fresh DEF AppAccept
  <2>5. \A d \in AppClient : appThread'[d] = IF d = c THEN [NoThread EXCEPT !.at = "loop", !.index = FirstIdle]
                                             ELSE appThread[d]
    BY <1>thread, <1>1 DEF AppAccept
  <2>6. Started'
    BY <1>1, <1>started, <2>5 DEF Started, NoThread, AppAccept, acks, Adding
  <2>7. handed' \in BOOLEAN
    BY <1>1 DEF AppAccept
  <2> QED BY <1>t, <1>1, <2>2, <2>3, <2>4, <2>6, <2>7 DEF AppTypeOK, AppAccept, acks
<1>2. ASSUME NEW c \in AppClient, AppUnserved(c)
      PROVE  AppTypeOK' /\ Started'
  <2>1. NewAppFd \in AppFd
    BY <1>2, NewAppFdIs DEF AppUnserved, Connects
  <2>2. phone' \in [AppClient -> {"out", "up", "gone"}] /\ appFd' \in [AppFd -> AppClient \cup {"none"}]
    BY <1>phone, <1>appFd, <1>2, <2>1 DEF AppUnserved, Connects
  <2>3. handed' \in BOOLEAN
    BY <1>2 DEF AppUnserved
  <2>4. Started'
    BY <1>2, <1>t DEF Started, AppUnserved, acks, Adding
  <2> QED BY <1>t, <1>2, <2>2, <2>3, <2>4 DEF AppTypeOK, AppUnserved, acks
<1>3. ASSUME NEW c \in AppClient, AppHangUp(c)
      PROVE  AppTypeOK' /\ Started'
  <2>1. phone' \in [AppClient -> {"out", "up", "gone"}]
    BY <1>phone, <1>3 DEF AppHangUp
  <2>2. Started'
    BY <1>3, <1>t DEF Started, AppHangUp, acks, Adding
  <2> QED BY <1>t, <1>3, <2>1, <2>2 DEF AppTypeOK, AppHangUp, acks
<1>4. ASSUME NEW c \in AppClient, AppExit(c)
      PROVE  AppTypeOK' /\ Started'
  <2>1. appThread' \in [AppClient -> ThreadState]
    BY <1>thread, <1>4, Fresh DEF AppExit
  <2>2. \A d \in AppClient : appThread'[d] = IF d = c THEN NoThread ELSE appThread[d]
    BY <1>thread, <1>4 DEF AppExit
  <2>3. Started'
    BY <1>4, <1>started, <2>2 DEF Started, NoThread, AppExit, acks, Adding
  <2> QED BY <1>t, <1>4, <2>1, <2>3 DEF AppTypeOK, AppExit, acks
<1>5. ASSUME NEW c \in AppClient, AppWait(c)
      PROVE  AppTypeOK' /\ Started'
  <2> DEFINE w == Whose(slot(c).socket)
  <2>1. w \in AppClient \cup {"none"} /\ w # "none"
    BY <1>5, <1>slot, <1>thread, <1>appFd, AppSlotGet, ThreadGet, WhoseIs DEF AppWait, slot
  <2>2. appThread' = [appThread EXCEPT ![c].at = "recv", ![c].from = w]
    BY <1>5 DEF AppWait
  <2> HIDE DEF w
  <2>3. appThread' \in [AppClient -> ThreadState]
    <3> DEFINE P == [appThread EXCEPT ![c].at = "recv"]
    <3>1. P \in [AppClient -> ThreadState]
      BY <1>thread, ThreadPut
    <3>2. appThread' = [P EXCEPT ![c].from = w]
      BY <2>2
    <3> HIDE DEF P
    <3> QED BY <2>1, <3>1, <3>2, ThreadPut
  <2>4. \A d \in AppClient : /\ d # c => appThread'[d] = appThread[d]
                             /\ appThread'[c].at = "recv" /\ appThread'[c].from = w
    BY <1>thread, <2>2 DEF ThreadState
  <2>5. Started'
    BY <1>5, <1>started, <2>1, <2>4 DEF Started, AppWait, acks, Adding
  <2> QED BY <1>t, <1>5, <2>3, <2>5 DEF AppTypeOK, AppWait, acks
<1>6. ASSUME NEW c \in AppClient, AppRecv(c)
      PROVE  AppTypeOK' /\ Started'
  <2> DEFINE d == appThread[c].from
             i == appThread[c].index
             q == Head(appScript.requests[d])
             at == IF q = "short" THEN "loop" ELSE "parse"
  <2>1. i \in Index /\ d \in AppClient
    BY <1>6, <1>thread, <1>started, ThreadGet DEF AppRecv
  <2>2. /\ appScript.requests[d] \in Seq(Request) /\ appScript.requests[d] # <<>>
    BY <1>6, <1>script, <2>1 DEF AppRecv
  <2>3. q \in Request /\ Tail(appScript.requests[d]) \in Seq(Request)
    BY <2>2
  <2>4. /\ appScript' = [appScript EXCEPT !.requests[d] = Tail(appScript.requests[d])]
        /\ appThread' = [appThread EXCEPT ![c].request = q, ![c].from = "none", ![c].at = at]
        /\ g_appclients' = [g_appclients EXCEPT
                ![i].proSendBuffer = IF q \in {"short", "crc"} THEN @ ELSE "none",
                ![i].iOverTimeCnt = IF q \in {"short", "crc", "refused"} THEN @ ELSE 0]
        /\ mixed' \in {mixed, mixed \cup {i}}
    <3>1. /\ appScript' = [appScript EXCEPT !.requests[d] = Tail(appScript.requests[d])]
          /\ appThread' = [appThread EXCEPT ![c].request = q, ![c].from = "none", ![c].at = at]
      BY <1>6 DEF AppRecv
    <3>2. mixed' \in {mixed, mixed \cup {i}}
      BY <1>6 DEF AppRecv
    <3>3. g_appclients' = [g_appclients EXCEPT
                ![i].proSendBuffer = IF q \in {"short", "crc"} THEN @ ELSE "none",
                ![i].iOverTimeCnt = IF q \in {"short", "crc", "refused"} THEN @ ELSE 0]
      BY <1>6, Zenon DEF AppRecv
    <3> QED BY <3>1, <3>2, <3>3
  <2>5. at \in {"loop", "parse"} /\ (at = "parse" => q # "short")
    OBVIOUS
  <2> HIDE DEF d, i, q, at
  <2>6. g_appclients' \in [Index -> AppSlot]
    BY <1>slot, <2>1, <2>4, RecvPut, ZenonT(30)
  <2>7. appThread' \in [AppClient -> ThreadState]
    <3> DEFINE P == [appThread EXCEPT ![c].request = q]
               Q == [P EXCEPT ![c].from = "none"]
    <3>1. P \in [AppClient -> ThreadState]
      BY <1>thread, <2>3, ThreadPut
    <3>2. appThread' = [Q EXCEPT ![c].at = at]
      BY <2>4
    <3> HIDE DEF P
    <3>3. Q \in [AppClient -> ThreadState]
      BY <3>1, ThreadPut
    <3> HIDE DEF Q
    <3> QED BY <2>5, <3>2, <3>3, ThreadPut
  <2>8. \A e \in AppClient : e # c => appThread'[e] = appThread[e]
    BY <1>thread, <2>4
  <2>9. appThread'[c].at = at /\ appThread'[c].request = q
    BY <1>thread, <2>4 DEF ThreadState
  <2>10. appScript' \in AppScript /\ appScript'.announced = appScript.announced
    BY <1>script, <2>3, <2>4 DEF AppScript
  <2>11. Started'
    BY <1>6, <1>started, <2>5, <2>8, <2>9, <2>10 DEF Started, AppRecv, acks, Adding
  <2>12. mixed' \subseteq Index
    BY <1>t, <2>1, <2>4 DEF AppTypeOK
  <2> QED BY <1>t, <1>6, <2>6, <2>7, <2>10, <2>11, <2>12 DEF AppTypeOK, AppRecv, acks
<1>7. ASSUME NEW c \in AppClient, AppHandle(c)
      PROVE  AppTypeOK' /\ Started'
  <2>1. appThread[c].at = "parse" /\ appThread[c].request \in Request \ {"short"}
    BY <1>7, <1>thread, <1>started, ThreadGet DEF AppHandle
  <2>2. PICK r \in Answers(appThread[c].request) :
           IF r = "none" THEN To(c, "loop") /\ UNCHANGED <<g_appclients, mixed>> ELSE Packs(c, r)
    BY <1>7 DEF AppHandle
  <2>3. r \in Reply \cup {"none"}
    BY <2>1, <2>2 DEF Answers, Request, Reply
  <2>4. CASE r = "none"
    <3>1. appThread' = [appThread EXCEPT ![c].at = "loop"]
      BY <2>2, <2>4 DEF To
    <3>2. appThread' \in [AppClient -> ThreadState]
      BY <1>thread, <3>1, ThreadPut
    <3>3. \A d \in AppClient : (d # c => appThread'[d] = appThread[d]) /\ appThread'[c].at = "loop"
      BY <1>thread, <3>1 DEF ThreadState
    <3>4. Started'
      BY <1>7, <1>started, <3>3 DEF Started, AppHandle, acks, Adding
    <3> QED BY <1>t, <1>7, <2>2, <2>4, <3>2, <3>4 DEF AppTypeOK, AppHandle, acks
  <2>5. CASE r # "none"
    <3> DEFINE i == appThread[c].index
               q == appThread[c].request
    <3>0. i \in Index /\ r \in Reply /\ r \in Packet
      BY <1>thread, <2>3, <2>5, ThreadGet, AppBasics
    <3>1. appThread' = [appThread EXCEPT ![c].at = "send", ![c].reply = r]
      BY <2>2, <2>5 DEF Packs
    <3>2. g_appclients' = [g_appclients EXCEPT ![i].proSendBuffer = r,
                             ![i].loginflag = CASE q = "login" -> TRUE
                                                [] q = "denied" -> FALSE
                                                [] OTHER -> @]
      BY <2>2, <2>5, Zenon DEF Packs
    <3>3. mixed' \in {mixed, mixed \cup {i}}
      BY <2>2, <2>5 DEF Packs
    <3> HIDE DEF i, q
    <3>4. g_appclients' \in [Index -> AppSlot]
      BY <1>slot, <3>0, <3>2, PacksPut
    <3>5. appThread' \in [AppClient -> ThreadState]
      <4> DEFINE P == [appThread EXCEPT ![c].at = "send"]
      <4>1. P \in [AppClient -> ThreadState]
        BY <1>thread, ThreadPut
      <4>2. appThread' = [P EXCEPT ![c].reply = r]
        BY <3>1
      <4> HIDE DEF P
      <4> QED BY <2>3, <4>1, <4>2, ThreadPut
    <3>6. \A d \in AppClient : (d # c => appThread'[d] = appThread[d]) /\ appThread'[c].at = "send"
      BY <1>thread, <3>1 DEF ThreadState
    <3>7. Started'
      BY <1>7, <1>started, <3>6 DEF Started, AppHandle, acks, Adding
    <3>8. mixed' \subseteq Index
      BY <1>t, <3>0, <3>3 DEF AppTypeOK
    <3> QED BY <1>t, <1>7, <3>4, <3>5, <3>7, <3>8 DEF AppTypeOK, AppHandle, acks
  <2> QED BY <2>4, <2>5
<1>8. ASSUME NEW c \in AppClient, AppSend(c)
      PROVE  AppTypeOK' /\ Started'
  <2>1. appThread' = [appThread EXCEPT ![c].at = "loop", ![c].reply = "none"]
    BY <1>8 DEF AppSend
  <2>2. appThread' \in [AppClient -> ThreadState]
    <3> DEFINE P == [appThread EXCEPT ![c].at = "loop"]
    <3>1. P \in [AppClient -> ThreadState]
      BY <1>thread, ThreadPut
    <3>2. appThread' = [P EXCEPT ![c].reply = "none"]
      BY <2>1
    <3> HIDE DEF P
    <3> QED BY <3>1, <3>2, ThreadPut
  <2>3. \A d \in AppClient : (d # c => appThread'[d] = appThread[d]) /\ appThread'[c].at = "loop"
    BY <1>thread, <2>1 DEF ThreadState
  <2>4. Started'
    BY <1>8, <1>started, <2>3 DEF Started, AppSend, acks, Adding
  <2> QED BY <1>t, <1>8, <2>2, <2>4 DEF AppTypeOK, AppSend, acks
<1>9. ASSUME NEW c \in AppClient, AppEnd(c)
      PROVE  AppTypeOK' /\ Started'
  <2>0. appThread[c].index \in Index
    BY <1>thread, ThreadGet
  <2>1. /\ appThread' = [appThread EXCEPT ![c].at = "close", ![c].from = "none"]
        /\ g_appclients' = [g_appclients EXCEPT ![appThread[c].index].status = "APPCLIENT_IDLE"]
    BY <1>9 DEF AppEnd
  <2>2. appThread' \in [AppClient -> ThreadState]
    <3> DEFINE P == [appThread EXCEPT ![c].at = "close"]
    <3>1. P \in [AppClient -> ThreadState]
      BY <1>thread, ThreadPut
    <3>2. appThread' = [P EXCEPT ![c].from = "none"]
      BY <2>1
    <3> HIDE DEF P
    <3> QED BY <3>1, <3>2, ThreadPut
  <2>3. \A d \in AppClient : (d # c => appThread'[d] = appThread[d]) /\ appThread'[c].at = "close"
    BY <1>thread, <2>1 DEF ThreadState
  <2>4. g_appclients' \in [Index -> AppSlot]
    BY <1>slot, <2>0, <2>1, AppSlotPut
  <2>5. Started'
    BY <1>9, <1>started, <2>3 DEF Started, AppEnd, acks, Adding
  <2> QED BY <1>t, <1>9, <2>2, <2>4, <2>5 DEF AppTypeOK, AppEnd, acks
<1>10. ASSUME NEW c \in AppClient, AppClose(c)
       PROVE  AppTypeOK' /\ Started'
  <2>1. appThread' = [appThread EXCEPT ![c].at = "forget"]
    BY <1>10 DEF AppClose, To
  <2>2. appThread' \in [AppClient -> ThreadState]
    BY <1>thread, <2>1, ThreadPut
  <2>3. \A d \in AppClient : (d # c => appThread'[d] = appThread[d]) /\ appThread'[c].at = "forget"
    BY <1>thread, <2>1 DEF ThreadState
  <2>4. appFd' \in [AppFd -> AppClient \cup {"none"}]
    BY <1>appFd, <1>10 DEF AppClose, Shut
  <2>5. Started'
    BY <1>10, <1>started, <2>3 DEF Started, AppClose, acks, Adding
  <2> QED BY <1>t, <1>10, <2>2, <2>4, <2>5 DEF AppTypeOK, AppClose, acks
<1>11. ASSUME NEW c \in AppClient, AppForget(c)
       PROVE  AppTypeOK' /\ Started'
  <2>0. appThread[c].index \in Index
    BY <1>thread, ThreadGet
  <2>1. g_appclients' = Forgetting(appThread[c].index) /\ appThread' = [appThread EXCEPT ![c] = NoThread]
    BY <1>11 DEF AppForget
  <2>2. g_appclients' \in [Index -> AppSlot] /\ appThread' \in [AppClient -> ThreadState]
    BY <1>slot, <1>thread, <2>0, <2>1, ForgettingIs, Fresh
  <2>3. \A d \in AppClient : appThread'[d] = IF d = c THEN NoThread ELSE appThread[d]
    BY <1>thread, <2>1
  <2>4. Started'
    BY <1>11, <1>started, <2>3 DEF Started, NoThread, AppForget, acks, Adding
  <2> QED BY <1>t, <1>11, <2>2, <2>4 DEF AppTypeOK, AppForget, acks
<1>12. CASE AliveSkip
  <2>1. alive' \in [at : {"count", "close", "forget"}, i : Index]
    BY <1>alive, <1>12, AppBasics DEF AliveSkip
  <2>2. Started'
    BY <1>12, <1>t DEF Started, AliveSkip, acks, Adding
  <2> QED BY <1>t, <1>12, <2>1, <2>2 DEF AppTypeOK, AliveSkip, acks
<1>13. CASE AliveCount
  <2>1. alive' \in [at : {"count", "close", "forget"}, i : Index]
    BY <1>alive, <1>13, AppBasics DEF AliveCount
  <2>2. g_appclients' \in [Index -> AppSlot]
    <3>1. alive.i \in Index
      BY <1>alive
    <3>2. g_appclients[alive.i].iOverTimeCnt + 1 \in 0..OVER_TIME_SEC
      BY <1>slot, <1>13, <3>1, AppSlotGet, AppBasics DEF AliveCount
    <3>3. g_appclients' = [g_appclients EXCEPT ![alive.i].iOverTimeCnt =
                              g_appclients[alive.i].iOverTimeCnt + 1]
      BY <1>13 DEF AliveCount
    <3> QED BY <1>slot, <3>1, <3>2, <3>3, AppSlotPut
  <2>3. Started'
    BY <1>13, <1>t DEF Started, AliveCount, acks, Adding
  <2> QED BY <1>t, <1>13, <2>1, <2>2, <2>3 DEF AppTypeOK, AliveCount, acks
<1>14. CASE AliveExpire
  <2>1. alive' \in [at : {"count", "close", "forget"}, i : Index]
    BY <1>alive, <1>14 DEF AliveExpire
  <2>2. g_appclients' \in [Index -> AppSlot]
    <3>1. alive.i \in Index
      BY <1>alive
    <3> DEFINE P == [g_appclients EXCEPT ![alive.i].status = "APPCLIENT_IDLE"]
    <3>2. P \in [Index -> AppSlot]
      BY <1>slot, <3>1, AppSlotPut
    <3>3. g_appclients' = [P EXCEPT ![alive.i].iOverTimeCnt = OVER_TIME_SEC]
      BY <1>14 DEF AliveExpire
    <3> HIDE DEF P
    <3> QED BY <3>1, <3>2, <3>3, AppSlotPut, AppBasics
  <2>3. Started'
    BY <1>14, <1>t DEF Started, AliveExpire, acks, Adding
  <2> QED BY <1>t, <1>14, <2>1, <2>2, <2>3 DEF AppTypeOK, AliveExpire, acks
<1>15. CASE AliveClose
  <2>1. alive' \in [at : {"count", "close", "forget"}, i : Index]
    BY <1>alive, <1>15 DEF AliveClose
  <2>2. appFd' \in [AppFd -> AppClient \cup {"none"}]
    BY <1>appFd, <1>15 DEF AliveClose, Shut
  <2>3. Started'
    BY <1>15, <1>t DEF Started, AliveClose, acks, Adding
  <2> QED BY <1>t, <1>15, <2>1, <2>2, <2>3 DEF AppTypeOK, AliveClose, acks
<1>16. CASE AliveForget
  <2>1. alive.i \in Index
    BY <1>alive
  <2>2. alive' \in [at : {"count", "close", "forget"}, i : Index]
    BY <2>1, <1>16, AppBasics DEF AliveForget
  <2>3. g_appclients' \in [Index -> AppSlot]
    BY <1>slot, <1>16, <2>1, ForgettingIs DEF AliveForget
  <2>4. appThread' \in [AppClient -> ThreadState]
    BY <1>thread, <1>16, Fresh DEF AliveForget
  <2>5. \A d \in AppClient : appThread'[d] = NoThread \/ appThread'[d] = appThread[d]
    BY <1>16 DEF AliveForget
  <2>6. Started'
    BY <1>16, <1>started, <2>5 DEF Started, NoThread, AliveForget, acks, Adding
  <2> QED BY <1>t, <1>16, <2>2, <2>3, <2>4, <2>6 DEF AppTypeOK, AliveForget, acks
<1>17. CASE AckTake
  <2>1. g_AckCmdlist # <<>> /\ Head(g_AckCmdlist) \in Announcement /\ Tail(g_AckCmdlist) \in Seq(Announcement)
    BY <1>lists, <1>17 DEF AckTake
  <2>2. ackThread' \in [at : {"wait", "look", "send"}, i : Index, p : Announcement \cup {NoAck}]
    BY <1>17, <2>1, AppBasics DEF AckTake
  <2>3. overlapped' \in BOOLEAN
    BY <1>17 DEF AckTake
  <2>4. due' \in Seq(Announcement)
    <3>1. CASE overlapped'
      BY <1>17, <3>1 DEF AckTake
    <3>2. CASE ~overlapped'
      <4>1. due # <<>>
        BY <1>17, <2>1, <3>2 DEF AckTake, AppIInv, Lined
      <4> QED BY <1>lists, <1>17, <3>2, <4>1 DEF AckTake
    <3> QED BY <3>1, <3>2
  <2>5. Started'
    BY <1>17, <1>t DEF Started, AckTake, slots, Adding
  <2> QED BY <1>t, <1>17, <2>1, <2>2, <2>3, <2>4, <2>5 DEF AppTypeOK, AckTake, slots
<1>18. CASE AckPass
  <2>1. Started'
    BY <1>18, <1>t DEF Started, AckPass, slots, Adding
  <2> QED BY <1>t, <1>18, <1>ackon, <2>1 DEF AppTypeOK, AckPass, slots
<1>19. CASE AckPack
  <2>1. ackThread.i \in Index /\ ackThread.p[1] \in Packet
    BY <1>ack, AppBasics DEF Announcement, NoAck
  <2>2. ackThread' \in [at : {"wait", "look", "send"}, i : Index, p : Announcement \cup {NoAck}]
    BY <1>ack, <1>19 DEF AckPack
  <2>3. g_appclients' \in [Index -> AppSlot]
    BY <1>slot, <1>19, <2>1, AppSlotPut DEF AckPack
  <2>4. mixed' \subseteq Index
    BY <1>t, <1>19, <2>1 DEF AppTypeOK, AckPack
  <2>5. Started'
    BY <1>19, <1>t DEF Started, AckPack, Adding
  <2> QED BY <1>t, <1>19, <2>2, <2>3, <2>4, <2>5 DEF AppTypeOK, AckPack
<1>20. CASE AckSend
  <2>1. Started'
    BY <1>20, <1>t DEF Started, AckSend, slots, Adding
  <2> QED BY <1>t, <1>20, <1>ackon, <2>1 DEF AppTypeOK, AckSend, slots
<1>21. ASSUME NEW p \in Producer, AckLook(p)
       PROVE  AppTypeOK' /\ Started'
  <2> DEFINE last == IF g_AckCmdlist = <<>> THEN NoAck ELSE g_AckCmdlist[Len(g_AckCmdlist)]
  <2>1. last \in Announcement \cup {NoAck}
    BY <1>lists
  <2>2. Looks(p, last)
    BY <1>21, Zenon DEF AckLook
  <2> HIDE DEF last
  <2>3. adding' = [adding EXCEPT ![p] = [at |-> "link", pList |-> last]]
    BY <2>2 DEF Looks
  <2>4. adding' \in [Producer -> [at : {"out", "link"}, pList : Announcement \cup {NoAck}]]
    BY <1>adding, <2>1, <2>3
  <2>5. overlapped' \in BOOLEAN
    BY <2>2 DEF Looks
  <2>6. due' \in Seq(Announcement)
    BY <1>lists, <2>2 DEF Looks
  <2>7. \A o \in Producer : o # p => adding'[o] = adding[o]
    BY <1>adding, <2>3
  <2>8. Started'
    BY <1>t, <1>started, <2>2, <2>7 DEF Started, Looks, slots, Adding
  <2> QED BY <1>t, <2>2, <2>4, <2>5, <2>6, <2>8 DEF AppTypeOK, Looks, slots
<1>22. ASSUME NEW p \in Producer, AckLink(p)
       PROVE  AppTypeOK' /\ Started'
  <2> DEFINE m == <<p, appScript.announced[p]>>
             n == appScript.announced[p]
  <2>1. m \in Announcement /\ n - 1 \in Nat
    BY <1>22, <1>script, <1>started DEF Announcement, AckLink, Adding
  <2>2. g_AckCmdlist' \in Seq(Announcement)
    BY <1>22, <1>lists, <2>1, LinkedType DEF AckLink
  <2>3. due' \in Seq(Announcement)
    <3>1. due' = (IF overlapped THEN <<>> ELSE Append(due, m))
      BY <1>22 DEF AckLink
    <3> HIDE DEF m
    <3> QED BY <1>lists, <2>1, <3>1
  <2>4. /\ appScript' = [appScript EXCEPT !.announced[p] = n - 1]
        /\ adding' = [adding EXCEPT ![p] = [at |-> "out", pList |-> NoAck]]
    BY <1>22 DEF AckLink
  <2> HIDE DEF m, n
  <2>5. adding' \in [Producer -> [at : {"out", "link"}, pList : Announcement \cup {NoAck}]]
    BY <1>adding, <2>4
  <2>6. appScript' \in AppScript /\ \A o \in Producer : o # p => appScript'.announced[o] = appScript.announced[o]
    BY <1>script, <2>1, <2>4 DEF AppScript
  <2>7. \A o \in Producer : (o # p => adding'[o] = adding[o]) /\ adding'[p].at = "out"
    BY <1>adding, <2>4
  <2>8. Started'
    BY <1>22, <1>started, <2>6, <2>7 DEF Started, AckLink, slots, Adding
  <2> QED BY <1>t, <1>22, <2>2, <2>3, <2>5, <2>6, <2>8 DEF AppTypeOK, AckLink, slots
<1>23. CASE UNCHANGED appVars
  <2>1. Started'
    BY <1>23, <1>t DEF appVars, Started, Adding
  <2> QED BY <1>23, <1>t, <2>1 DEF appVars, AppTypeOK
<1> QED
  BY <1>1, <1>2, <1>3, <1>4, <1>5, <1>6, <1>7, <1>8, <1>9, <1>10, <1>11, <1>12, <1>13, <1>14, <1>15,
     <1>16, <1>17, <1>18, <1>19, <1>20, <1>21, <1>22, <1>23
     DEF AppNext, AppClientMsg, AppClientAlive, AckClientPro

-----------------------------------------------------------------------------
(* Whose a slot is.                                                        *)

(* Owned, with the slots and the clients named.                            *)
LEMMA OwnedBecause ==
    ASSUME AppTypeOK',
           \A i \in Index : Connected(i)' => Served(i)',
           \A i \in Index : Closing(i)' => GivenUp(i)',
           \A c \in AppClient, i \in Index : appThread'[c].at # "none" /\ appThread'[c].index = i =>
              g_appclients'[i].client = c /\ phone'[c] # "out" /\ (Connected(i)' \/ Closing(i)')
    PROVE  Owned'
<1>1. ASSUME NEW c \in AppClient, appThread'[c].at # "none"
      PROVE  /\ g_appclients'[appThread'[c].index].client = c
             /\ phone'[c] # "out"
             /\ ~Connected(appThread[c].index)' => Closing(appThread[c].index)'
  <2>1. PICK i \in Index : appThread'[c].index = i
    <3>1. appThread' \in [AppClient -> ThreadState]
      BY DEF AppTypeOK
    <3> QED BY <3>1, ThreadGet
  <2>2. g_appclients'[i].client = c /\ phone'[c] # "out" /\ (Connected(i)' \/ Closing(i)')
    BY <1>1, <2>1
  <2>3. Connected(appThread[c].index)' <=> Connected(i)'
    BY <2>1 DEF Connected
  <2>4. Closing(appThread[c].index)' <=> Closing(i)'
    BY <2>1 DEF Closing
  <2> QED BY <2>1, <2>2, <2>3, <2>4
<1> QED BY <1>1 DEF Owned

(* A step that gives no slot up, takes none and starts and ends no thread, *)
(* and closes at most the connection of a slot that is being given up,     *)
(* keeps it so.                                                            *)
LEMMA OwnedFrame ==
    ASSUME AppTypeOK, AppTypeOK', Owned, handed' = handed, Held(g_appclients, g_appclients'),
           \A n \in AppFd : \/ appFd'[n] = appFd[n]
                            \/ appFd'[n] = "none" /\ \E i \in Index : Closing(i) /\ g_appclients[i].socket = n,
           \A c \in AppClient : /\ appThread'[c].index = appThread[c].index
                                /\ appThread'[c].at = "none" <=> appThread[c].at = "none"
                                /\ appThread'[c].at \in Dying <=> appThread[c].at \in Dying,
           \A c \in AppClient : phone[c] # "out" => phone'[c] # "out",
           alive'.at \in Dying <=> alive.at \in Dying,
           alive.at \in Dying => alive'.i = alive.i
    PROVE  Owned'
<1> SUFFICES ASSUME ~handed'
             PROVE  Owned'
  BY DEF Owned
<1>0. ~handed
  OBVIOUS
<1>slot. g_appclients \in [Index -> AppSlot]
  BY DEF AppTypeOK
<1>1. \A i \in Index : Closing(i)' <=> Closing(i)
  BY DEF Closing, Dying
<1>2. \A i \in Index : Connected(i)' <=> Connected(i)
  BY DEF Connected, Held
<1>3. ASSUME NEW i \in Index, Connected(i)'
      PROVE  Served(i)'
  <2> DEFINE k == g_appclients[i].socket
             d == g_appclients[i].client
  <2>1. /\ d \in AppClient /\ k # 0 /\ appFd[k] = d
        /\ appThread[d].at \notin {"none"} \cup Dying /\ appThread[d].index = i
    BY <1>0, <1>2, <1>3 DEF Owned, Served
  <2>2. g_appclients'[i].socket = k /\ g_appclients'[i].client = d
    BY DEF Held
  <2>3. k \in AppFd
    BY <1>slot, <2>1, AppSlotGet
  <2>4. appFd'[k] = appFd[k]
    <3>1. \A j \in Index : Closing(j) => k # g_appclients[j].socket
      BY <1>0, <1>2, <1>3 DEF Owned, GivenUp
    <3> QED BY <2>3, <3>1
  <2>5. appThread'[d].at \notin {"none"} \cup Dying /\ appThread'[d].index = i
    BY <2>1
  <2> HIDE DEF k, d
  <2> QED BY <2>1, <2>2, <2>4, <2>5 DEF Served
<1>4. ASSUME NEW i \in Index, Closing(i)'
      PROVE  GivenUp(i)'
  <2>1. GivenUp(i)
    BY <1>0, <1>1, <1>4 DEF Owned
  <2>2. g_appclients'[i].socket = g_appclients[i].socket /\ g_appclients'[i].client = g_appclients[i].client
    BY DEF Held
  <2>3. g_appclients[i].socket \in AppFd \cup {0}
    BY <1>slot, AppSlotGet
  <2>4. Whose(g_appclients[i].socket)' \in {Whose(g_appclients[i].socket), "none"}
    BY <2>2, <2>3 DEF Whose
  <2>5. \A j \in Index : Connected(j)' => /\ g_appclients'[j].socket # g_appclients'[i].socket
                                          /\ g_appclients'[j].client # g_appclients'[i].client
    BY <1>2, <2>1 DEF Held, GivenUp
  <2> QED BY <1>2, <2>1, <2>2, <2>4, <2>5 DEF GivenUp
<1>5. ASSUME NEW c \in AppClient, NEW i \in Index, appThread'[c].at # "none", appThread'[c].index = i
      PROVE  g_appclients'[i].client = c /\ phone'[c] # "out" /\ (Connected(i)' \/ Closing(i)')
  <2>1. g_appclients[i].client = c /\ phone[c] # "out" /\ (~Connected(i) => Closing(i))
    BY <1>0, <1>5 DEF Owned
  <2> QED BY <1>1, <1>2, <2>1 DEF Held
<1> QED BY <1>3, <1>4, <1>5, OwnedBecause

(* Every step of the server keeps it so, unless what it takes is still     *)
(* being closed.                                                           *)
LEMMA AppNext_Owned ==
    ASSUME AppIInv, AppTypeOK', [AppNext]_appVars
    PROVE  Owned'
<1> SUFFICES ASSUME ~handed'
             PROVE  Owned'
  BY DEF Owned
<1>slot. g_appclients \in [Index -> AppSlot]
  BY DEF AppIInv, AppTypeOK
<1>appFd. appFd \in [AppFd -> AppClient \cup {"none"}]
  BY DEF AppIInv, AppTypeOK
<1>thread. appThread \in [AppClient -> ThreadState]
  BY DEF AppIInv, AppTypeOK
<1>phone. phone \in [AppClient -> {"out", "up", "gone"}]
  BY DEF AppIInv, AppTypeOK
<1>alive. alive \in [at : {"count", "close", "forget"}, i : Index]
  BY DEF AppIInv, AppTypeOK
<1>t. AppTypeOK /\ Owned
  BY DEF AppIInv
<1>own. ASSUME ~handed
        PROVE  /\ \A i \in Index : Connected(i) => Served(i)
               /\ \A i \in Index : Closing(i) => GivenUp(i)
               /\ \A c \in AppClient, i \in Index : appThread[c].at # "none" /\ appThread[c].index = i =>
                     g_appclients[i].client = c /\ phone[c] # "out" /\ (Connected(i) \/ Closing(i))
  BY <1>t, <1>own DEF Owned
<1>held. Held(g_appclients, g_appclients)
  BY DEF Held
<1>1. ASSUME NEW c \in AppClient, AppAccept(c)
      PROVE  Owned'
  <2>0. ~handed /\ ~TooSoon /\ Idle # {}
    BY <1>1 DEF AppAccept
  <2>1. PICK i0 \in Index : i0 = FirstIdle /\ g_appclients[i0].status = "APPCLIENT_IDLE"
    BY <2>0, FirstIdleIs
  <2>2. PICK n0 \in AppFd : n0 = NewAppFd /\ appFd[n0] = "none"
    BY <1>1, NewAppFdIs DEF AppAccept, Connects
  <2>3. ~Closing(i0) /\ \A i \in Index : Closing(i) => g_appclients[i].socket # n0
    BY <2>0, <2>1, <2>2 DEF TooSoon
  <2>4. /\ phone[c] = "out" /\ \A d \in AppClient : phone[d] # "out" => phone'[d] # "out"
        /\ phone'[c] # "out"
    BY <1>1, <1>phone DEF AppAccept, Connects
  <2>5. appFd'[n0] = c /\ \A n \in AppFd : n # n0 => appFd'[n] = appFd[n]
    BY <1>1, <1>appFd, <2>2 DEF AppAccept, Connects
  <2>6. /\ g_appclients'[i0].status = "APPCLIENT_CONNECTED" /\ g_appclients'[i0].socket = n0
        /\ g_appclients'[i0].client = c
        /\ \A i \in Index : i # i0 => g_appclients'[i] = g_appclients[i]
    BY <1>1, <1>slot, <2>1, <2>2 DEF AppAccept, EmptySlot
  <2>7. /\ appThread'[c].at = "loop" /\ appThread'[c].index = i0
        /\ \A d \in AppClient : d # c => appThread'[d] = appThread[d]
    BY <1>1, <1>thread, <2>1 DEF AppAccept, NoThread
  <2>8. alive' = alive
    BY <1>1 DEF AppAccept
  <2>9. appThread[c].at = "none"
    BY <1>own, <1>thread, <2>0, <2>4, ThreadGet
  <2>10. \A i \in Index : Closing(i)' => Closing(i)
    BY <2>7, <2>8 DEF Closing
  <2>11. \A i \in Index : Closing(i) => Closing(i)'
    BY <2>7, <2>8, <2>9 DEF Closing
  <2>12. \A i \in Index : Connected(i)' <=> (i = i0 \/ Connected(i))
    BY <2>1, <2>6 DEF Connected
  <2>13. ASSUME NEW i \in Index, Connected(i)'
         PROVE  Served(i)'
    <3>1. CASE i = i0
      BY <3>1, <2>2, <2>5, <2>6, <2>7, AppBasics DEF Served, Dying
    <3>2. CASE i # i0
      <4>1. Served(i)
        BY <1>own, <2>0, <2>12, <2>13, <3>2
      <4>2. g_appclients[i].socket \in AppFd /\ g_appclients[i].socket # n0 /\ g_appclients[i].client # c
        BY <1>slot, <2>2, <2>9, <4>1, AppSlotGet, AppBasics DEF Served
      <4> QED BY <2>5, <2>6, <2>7, <3>2, <4>1, <4>2 DEF Served
    <3> QED BY <3>1, <3>2
  <2>14. ASSUME NEW i \in Index, Closing(i)'
         PROVE  GivenUp(i)'
    <3>1. i # i0 /\ Closing(i) /\ GivenUp(i)
      BY <1>own, <2>0, <2>3, <2>10, <2>14
    <3>2. g_appclients'[i] = g_appclients[i] /\ g_appclients[i].socket # n0 /\ g_appclients[i].client # c
      BY <2>3, <2>4, <2>6, <3>1 DEF GivenUp
    <3>3. Whose(g_appclients[i].socket)' = Whose(g_appclients[i].socket)
      <4>1. g_appclients[i].socket \in AppFd \cup {0}
        BY <1>slot, AppSlotGet
      <4> QED BY <2>5, <3>2, <4>1 DEF Whose
    <3>4. \A j \in Index : Connected(j)' => /\ g_appclients'[j].socket # g_appclients'[i].socket
                                            /\ g_appclients'[j].client # g_appclients'[i].client
      BY <2>6, <2>12, <3>1, <3>2 DEF GivenUp
    <3> QED BY <2>4, <2>12, <3>1, <3>2, <3>3, <3>4 DEF GivenUp
  <2>15. ASSUME NEW d \in AppClient, NEW i \in Index, appThread'[d].at # "none", appThread'[d].index = i
         PROVE  g_appclients'[i].client = d /\ phone'[d] # "out" /\ (Connected(i)' \/ Closing(i)')
    <3>1. CASE d = c
      BY <2>4, <2>6, <2>7, <2>12, <2>15, <3>1
    <3>2. CASE d # c
      <4>1. g_appclients[i].client = d /\ phone[d] # "out" /\ (Connected(i) \/ Closing(i))
        BY <1>own, <2>0, <2>7, <2>15, <3>2
      <4>2. i # i0
        BY <2>1, <2>3, <4>1 DEF Connected
      <4> QED BY <2>4, <2>6, <2>11, <2>12, <4>1, <4>2
    <3> QED BY <3>1, <3>2
  <2> QED BY <2>13, <2>14, <2>15, OwnedBecause
<1>2. ASSUME NEW c \in AppClient, AppUnserved(c)
      PROVE  Owned'
  <2>0. ~handed /\ ~TooSoon
    BY <1>2 DEF AppUnserved
  <2>1. PICK n0 \in AppFd : n0 = NewAppFd /\ appFd[n0] = "none"
    BY <1>2, NewAppFdIs DEF AppUnserved, Connects
  <2>2. \A i \in Index : Closing(i) => g_appclients[i].socket # n0
    BY <2>0, <2>1 DEF TooSoon
  <2>3. \A d \in AppClient : phone[d] # "out" => phone'[d] # "out"
    BY <1>2, <1>phone DEF AppUnserved, Connects
  <2>4. \A n \in AppFd : n # n0 => appFd'[n] = appFd[n]
    BY <1>2, <1>appFd, <2>1 DEF AppUnserved, Connects
  <2>5. g_appclients' = g_appclients /\ appThread' = appThread /\ alive' = alive
    BY <1>2 DEF AppUnserved
  <2>6. \A i \in Index : (Closing(i)' <=> Closing(i)) /\ (Connected(i)' <=> Connected(i))
    BY <2>5 DEF Closing, Connected
  <2>7. ASSUME NEW i \in Index, Connected(i)'
        PROVE  Served(i)'
    <3>1. Served(i)
      BY <1>own, <2>0, <2>6, <2>7
    <3>2. g_appclients[i].socket \in AppFd /\ g_appclients[i].socket # n0
      BY <1>slot, <2>1, <3>1, AppSlotGet, AppBasics DEF Served
    <3> QED BY <2>4, <2>5, <3>1, <3>2 DEF Served
  <2>8. ASSUME NEW i \in Index, Closing(i)'
        PROVE  GivenUp(i)'
    <3>1. GivenUp(i) /\ g_appclients[i].socket # n0 /\ g_appclients[i].socket \in AppFd \cup {0}
      BY <1>own, <1>slot, <2>0, <2>2, <2>6, <2>8, AppSlotGet
    <3>2. Whose(g_appclients[i].socket)' = Whose(g_appclients[i].socket)
      BY <2>4, <2>5, <3>1 DEF Whose
    <3> QED BY <2>3, <2>5, <2>6, <3>1, <3>2 DEF GivenUp
  <2>9. ASSUME NEW d \in AppClient, NEW i \in Index, appThread'[d].at # "none", appThread'[d].index = i
        PROVE  g_appclients'[i].client = d /\ phone'[d] # "out" /\ (Connected(i)' \/ Closing(i)')
    BY <1>own, <2>0, <2>3, <2>5, <2>6, <2>9
  <2> QED BY <2>7, <2>8, <2>9, OwnedBecause
<1>3. ASSUME NEW c \in AppClient, AppHangUp(c)
      PROVE  Owned'
  <2>1. \A d \in AppClient : phone[d] # "out" => phone'[d] # "out"
    BY <1>3, <1>phone DEF AppHangUp
  <2> QED BY <1>t, <1>held, <1>3, <2>1, OwnedFrame DEF AppHangUp
<1>4. ASSUME NEW c \in AppClient, AppExit(c)
      PROVE  Owned'
  <2>0. ~handed
    BY <1>4 DEF AppExit
  <2>1. PICK i0 \in Index : i0 = appThread[c].index /\ ~Connected(i0) /\ appThread[c].at = "loop"
    BY <1>4, <1>thread, ThreadGet DEF AppExit, slot, Connected
  <2>2. appThread'[c].at = "none" /\ \A d \in AppClient : d # c => appThread'[d] = appThread[d]
    BY <1>4, <1>thread DEF AppExit, NoThread
  <2>3. g_appclients' = g_appclients /\ appFd' = appFd /\ alive' = alive /\ phone' = phone
    BY <1>4 DEF AppExit
  <2>4. \A i \in Index : (Closing(i)' <=> Closing(i)) /\ (Connected(i)' <=> Connected(i))
    BY <2>1, <2>2, <2>3 DEF Closing, Connected
  <2>5. ASSUME NEW i \in Index, Connected(i)'
        PROVE  Served(i)'
    <3>1. Served(i) /\ i # i0
      BY <1>own, <2>0, <2>1, <2>4, <2>5
    <3>2. g_appclients[i].client # c
      BY <2>1, <3>1 DEF Served
    <3> QED BY <2>2, <2>3, <3>1, <3>2 DEF Served
  <2>6. ASSUME NEW i \in Index, Closing(i)'
        PROVE  GivenUp(i)'
    <3>1. GivenUp(i)
      BY <1>own, <2>0, <2>4, <2>6
    <3>2. Whose(g_appclients[i].socket)' = Whose(g_appclients[i].socket)
      BY <2>3 DEF Whose
    <3> QED BY <2>3, <2>4, <3>1, <3>2 DEF GivenUp
  <2>7. ASSUME NEW d \in AppClient, NEW i \in Index, appThread'[d].at # "none", appThread'[d].index = i
        PROVE  g_appclients'[i].client = d /\ phone'[d] # "out" /\ (Connected(i)' \/ Closing(i)')
    BY <1>own, <2>0, <2>2, <2>3, <2>4, <2>7
  <2> QED BY <2>5, <2>6, <2>7, OwnedBecause
<1>5. ASSUME NEW c \in AppClient, AppWait(c)
      PROVE  Owned'
  <2>1. appThread[c].at = "loop" /\ \A d \in AppClient : d # c => appThread'[d] = appThread[d]
    BY <1>5, <1>thread DEF AppWait
  <2>2. appThread'[c].at = "recv" /\ appThread'[c].index = appThread[c].index
    BY <1>5, <1>thread DEF AppWait, ThreadState
  <2>3. \A d \in AppClient : /\ appThread'[d].index = appThread[d].index
                             /\ appThread'[d].at = "none" <=> appThread[d].at = "none"
                             /\ appThread'[d].at \in Dying <=> appThread[d].at \in Dying
    BY <2>1, <2>2 DEF Dying
  <2> QED BY <1>t, <1>held, <1>5, <2>3, OwnedFrame DEF AppWait
<1>6. ASSUME NEW c \in AppClient, AppRecv(c)
      PROVE  Owned'
  <2>0. appThread[c].index \in Index /\ appThread[c].at = "recv"
    BY <1>6, <1>thread, ThreadGet DEF AppRecv
  <2>1. Held(g_appclients, g_appclients')
    <3> DEFINE q == Head(appScript.requests[appThread[c].from])
    <3>1. g_appclients' = [g_appclients EXCEPT
                ![appThread[c].index].proSendBuffer = IF q \in {"short", "crc"} THEN @ ELSE "none",
                ![appThread[c].index].iOverTimeCnt = IF q \in {"short", "crc", "refused"} THEN @ ELSE 0]
      BY <1>6, Zenon DEF AppRecv
    <3> HIDE DEF q
    <3> QED BY <1>slot, <2>0, <3>1, RecvPut
  <2>2. /\ \A d \in AppClient : d # c => appThread'[d] = appThread[d]
        /\ appThread'[c].index = appThread[c].index /\ appThread'[c].at \in {"loop", "parse"}
    <3> DEFINE q == Head(appScript.requests[appThread[c].from])
               at == IF q = "short" THEN "loop" ELSE "parse"
    <3>1. appThread' = [appThread EXCEPT ![c].request = q, ![c].from = "none", ![c].at = at]
      BY <1>6 DEF AppRecv
    <3>2. at \in {"loop", "parse"}
      OBVIOUS
    <3> HIDE DEF q, at
    <3> QED BY <1>thread, <3>1, <3>2 DEF ThreadState
  <2>3. \A d \in AppClient : /\ appThread'[d].index = appThread[d].index
                             /\ appThread'[d].at = "none" <=> appThread[d].at = "none"
                             /\ appThread'[d].at \in Dying <=> appThread[d].at \in Dying
    BY <2>0, <2>2 DEF Dying
  <2> QED BY <1>t, <1>6, <2>1, <2>3, OwnedFrame DEF AppRecv
<1>7. ASSUME NEW c \in AppClient, AppHandle(c)
      PROVE  Owned'
  <2>0. appThread[c].index \in Index /\ appThread[c].at = "parse"
    BY <1>7, <1>thread, ThreadGet DEF AppHandle
  <2>1. PICK r \in Answers(appThread[c].request) :
           IF r = "none" THEN To(c, "loop") /\ UNCHANGED <<g_appclients, mixed>> ELSE Packs(c, r)
    BY <1>7 DEF AppHandle
  <2>2. appThread[c].request \in Request \ {"short"}
    BY <1>thread, <2>0, ThreadGet DEF AppIInv, Started
  <2>3. /\ Held(g_appclients, g_appclients')
        /\ \A d \in AppClient : d # c => appThread'[d] = appThread[d]
        /\ appThread'[c].index = appThread[c].index /\ appThread'[c].at \in {"loop", "send"}
    <3>1. CASE r = "none"
      <4>1. appThread' = [appThread EXCEPT ![c].at = "loop"] /\ g_appclients' = g_appclients
        BY <2>1, <3>1 DEF To
      <4> QED BY <1>thread, <1>held, <4>1 DEF ThreadState
    <3>2. CASE r # "none"
      <4> DEFINE i == appThread[c].index
                 q == appThread[c].request
      <4>1. appThread' = [appThread EXCEPT ![c].at = "send", ![c].reply = r]
        BY <2>1, <3>2 DEF Packs
      <4>2. g_appclients' = [g_appclients EXCEPT ![i].proSendBuffer = r,
                               ![i].loginflag = CASE q = "login" -> TRUE
                                                  [] q = "denied" -> FALSE
                                                  [] OTHER -> @]
        BY <2>1, <3>2, Zenon DEF Packs
      <4>3. r \in Packet
        BY <2>1, <2>2, <3>2, AppBasics DEF Answers, Request, Reply
      <4> HIDE DEF i, q
      <4>4. Held(g_appclients, g_appclients')
        <5>1. i \in Index
          BY <2>0 DEF i
        <5> QED BY <1>slot, <4>2, <4>3, <5>1, PacksPut
      <4> QED BY <1>thread, <4>1, <4>4 DEF ThreadState
    <3> QED BY <3>1, <3>2
  <2>4. \A d \in AppClient : /\ appThread'[d].index = appThread[d].index
                             /\ appThread'[d].at = "none" <=> appThread[d].at = "none"
                             /\ appThread'[d].at \in Dying <=> appThread[d].at \in Dying
    BY <2>0, <2>3 DEF Dying
  <2> QED BY <1>t, <1>7, <2>3, <2>4, OwnedFrame DEF AppHandle
<1>8. ASSUME NEW c \in AppClient, AppSend(c)
      PROVE  Owned'
  <2>1. appThread[c].at = "send" /\ \A d \in AppClient : d # c => appThread'[d] = appThread[d]
    BY <1>8, <1>thread DEF AppSend
  <2>2. appThread'[c].at = "loop" /\ appThread'[c].index = appThread[c].index
    BY <1>8, <1>thread DEF AppSend, ThreadState
  <2>3. \A d \in AppClient : /\ appThread'[d].index = appThread[d].index
                             /\ appThread'[d].at = "none" <=> appThread[d].at = "none"
                             /\ appThread'[d].at \in Dying <=> appThread[d].at \in Dying
    BY <2>1, <2>2 DEF Dying
  <2> QED BY <1>t, <1>held, <1>8, <2>3, OwnedFrame DEF AppSend
<1>9. ASSUME NEW c \in AppClient, AppEnd(c)
      PROVE  Owned'
  <2>0. ~handed
    BY <1>9 DEF AppEnd
  <2>1. PICK i0 \in Index : i0 = appThread[c].index
    BY <1>thread, ThreadGet
  <2>2. appThread[c].at \in {"recv", "loop"}
    BY <1>9 DEF AppEnd, Ended
  <2>3. /\ appThread'[c].at = "close" /\ appThread'[c].index = i0
        /\ \A d \in AppClient : d # c => appThread'[d] = appThread[d]
    BY <1>9, <1>thread, <2>1 DEF AppEnd, ThreadState
  <2>4. /\ g_appclients'[i0].status = "APPCLIENT_IDLE"
        /\ \A i \in Index : i # i0 => g_appclients'[i].status = g_appclients[i].status
        /\ \A i \in Index : /\ g_appclients'[i].socket = g_appclients[i].socket
                            /\ g_appclients'[i].client = g_appclients[i].client
    BY <1>9, <1>slot, <2>1 DEF AppEnd, AppSlot
  <2>5. appFd' = appFd /\ alive' = alive /\ phone' = phone
    BY <1>9 DEF AppEnd
  <2>6. \A i \in Index : Closing(i)' <=> (Closing(i) \/ i = i0)
    <3>1. \A i \in Index : Closing(i)' => (Closing(i) \/ i = i0)
      BY <2>3, <2>5 DEF Closing
    <3>2. \A i \in Index : Closing(i) => Closing(i)'
      BY <2>2, <2>3, <2>5 DEF Closing
    <3>3. Closing(i0)'
      BY <2>3 DEF Closing
    <3> QED BY <3>1, <3>2, <3>3
  <2>7. \A i \in Index : Connected(i)' <=> (Connected(i) /\ i # i0)
    BY <2>4 DEF Connected
  <2>8. /\ g_appclients[i0].client = c /\ phone[c] # "out"
        /\ (Connected(i0) /\ Served(i0)) \/ (Closing(i0) /\ GivenUp(i0))
    BY <1>own, <2>0, <2>1, <2>2
  <2>9. ASSUME NEW i \in Index, Connected(i)'
        PROVE  Served(i)'
    <3>1. Served(i) /\ i # i0
      BY <1>own, <2>0, <2>7, <2>9
    <3>2. g_appclients[i].client # c
      BY <2>1, <3>1 DEF Served
    <3> QED BY <2>3, <2>4, <2>5, <3>1, <3>2 DEF Served
  <2>10. ASSUME NEW i \in Index, Closing(i)'
         PROVE  GivenUp(i)'
    <3>1. Whose(g_appclients[i].socket)' = Whose(g_appclients[i].socket)
      BY <2>4, <2>5 DEF Whose
    <3>2. CASE i = i0 /\ Connected(i0) /\ Served(i0)
      <4>1. Whose(g_appclients[i].socket) = g_appclients[i].client
        BY <3>2 DEF Served, Whose
      <4>2. \A j \in Index : Connected(j) /\ j # i0 =>
               /\ g_appclients[j].client # c
               /\ g_appclients[j].socket # g_appclients[i0].socket
        BY <1>own, <2>0, <2>8, <3>2 DEF Served
      <4> QED BY <2>4, <2>5, <2>7, <2>8, <3>1, <3>2, <4>1, <4>2 DEF GivenUp
    <3>3. CASE GivenUp(i)
      BY <2>4, <2>5, <2>7, <3>1, <3>3 DEF GivenUp
    <3> QED BY <1>own, <2>0, <2>6, <2>8, <2>10, <3>2, <3>3
  <2>11. ASSUME NEW d \in AppClient, NEW i \in Index, appThread'[d].at # "none", appThread'[d].index = i
         PROVE  g_appclients'[i].client = d /\ phone'[d] # "out" /\ (Connected(i)' \/ Closing(i)')
    <3>1. appThread[d].at # "none" /\ appThread[d].index = i
      BY <2>1, <2>2, <2>3, <2>11
    <3> QED BY <1>own, <2>0, <2>4, <2>5, <2>6, <2>7, <3>1
  <2> QED BY <2>9, <2>10, <2>11, OwnedBecause
<1>10. ASSUME NEW c \in AppClient, AppClose(c)
       PROVE  Owned'
  <2>0. PICK i0 \in Index : i0 = appThread[c].index /\ appThread[c].at = "close"
    BY <1>10, <1>thread, ThreadGet DEF AppClose
  <2>1. Closing(i0)
    BY <2>0 DEF Closing
  <2>2. \A d \in AppClient : d # c => appThread'[d] = appThread[d]
    BY <1>10, <1>thread DEF AppClose, To
  <2>3. appThread'[c].at = "forget" /\ appThread'[c].index = appThread[c].index
    BY <1>10, <1>thread DEF AppClose, To, ThreadState
  <2>4. \A d \in AppClient : /\ appThread'[d].index = appThread[d].index
                             /\ appThread'[d].at = "none" <=> appThread[d].at = "none"
                             /\ appThread'[d].at \in Dying <=> appThread[d].at \in Dying
    BY <2>0, <2>2, <2>3 DEF Dying
  <2>5. \A n \in AppFd : \/ appFd'[n] = appFd[n]
                         \/ appFd'[n] = "none" /\ \E i \in Index : Closing(i) /\ g_appclients[i].socket = n
    <3>1. Shut(g_appclients[i0].socket)
      BY <1>10, <2>0 DEF AppClose, slot
    <3> QED BY <1>appFd, <2>1, <3>1 DEF Shut
  <2> QED BY <1>t, <1>held, <1>10, <2>4, <2>5, OwnedFrame DEF AppClose
<1>11. ASSUME NEW c \in AppClient, AppForget(c)
       PROVE  Owned'
  <2>0. ~handed
    BY <1>11 DEF AppForget
  <2>1. PICK i0 \in Index : i0 = appThread[c].index /\ appThread[c].at = "forget"
    BY <1>11, <1>thread, ThreadGet DEF AppForget
  <2>2. Closing(i0) /\ GivenUp(i0) /\ g_appclients[i0].client = c
    BY <1>own, <2>0, <2>1 DEF Closing
  <2>3. appThread'[c].at = "none" /\ \A d \in AppClient : d # c => appThread'[d] = appThread[d]
    BY <1>11, <1>thread DEF AppForget, NoThread
  <2>4. \A i \in Index : /\ g_appclients'[i].status = g_appclients[i].status
                         /\ g_appclients'[i].client = g_appclients[i].client
                         /\ g_appclients'[i].socket = IF i = i0 THEN 0 ELSE g_appclients[i].socket
    BY <1>11, <1>slot, <2>1, ForgettingIs DEF AppForget
  <2>5. appFd' = appFd /\ alive' = alive /\ phone' = phone
    BY <1>11 DEF AppForget
  <2>6. \A i \in Index : Closing(i)' => Closing(i)
    BY <2>3, <2>5 DEF Closing
  <2>7. \A i \in Index : i # i0 /\ Closing(i) => Closing(i)'
    BY <2>1, <2>3, <2>5 DEF Closing
  <2>8. \A i \in Index : Connected(i)' <=> Connected(i)
    BY <2>4 DEF Connected
  <2>9. ASSUME NEW i \in Index, Connected(i)'
        PROVE  Served(i)'
    <3>1. Served(i) /\ i # i0
      BY <1>own, <2>0, <2>2, <2>8, <2>9 DEF GivenUp
    <3>2. g_appclients[i].client # c
      BY <2>1, <3>1 DEF Served
    <3> QED BY <2>3, <2>4, <2>5, <3>1, <3>2 DEF Served
  <2>10. ASSUME NEW i \in Index, Closing(i)'
         PROVE  GivenUp(i)'
    <3>1. GivenUp(i)
      BY <1>own, <2>0, <2>6, <2>10
    <3>2. \A j \in Index : Connected(j) => j # i0 /\ g_appclients[j].socket # 0
      BY <1>own, <2>0, <2>2 DEF GivenUp, Served
    <3>3. CASE i = i0
      BY <2>4, <2>5, <2>8, <3>1, <3>2, <3>3 DEF GivenUp, Whose
    <3>4. CASE i # i0
      BY <2>4, <2>5, <2>8, <3>1, <3>2, <3>4 DEF GivenUp, Whose
    <3> QED BY <3>3, <3>4
  <2>11. ASSUME NEW d \in AppClient, NEW i \in Index, appThread'[d].at # "none", appThread'[d].index = i
         PROVE  g_appclients'[i].client = d /\ phone'[d] # "out" /\ (Connected(i)' \/ Closing(i)')
    <3>1. d # c /\ g_appclients[i].client = d /\ phone[d] # "out" /\ (Connected(i) \/ Closing(i))
      BY <1>own, <2>0, <2>3, <2>11
    <3>2. i # i0
      BY <2>2, <3>1
    <3> QED BY <2>4, <2>5, <2>7, <2>8, <3>1, <3>2
  <2> QED BY <2>9, <2>10, <2>11, OwnedBecause
<1>12. CASE AliveSkip
  <2>1. alive.at = "count" /\ alive'.at = "count"
    BY <1>12, <1>alive DEF AliveSkip
  <2> QED BY <1>t, <1>held, <1>12, <2>1, OwnedFrame DEF AliveSkip, Dying
<1>13. CASE AliveCount
  <2>1. alive.at = "count" /\ alive'.at = "count"
    BY <1>13, <1>alive DEF AliveCount
  <2>2. Held(g_appclients, g_appclients')
    <3>1. alive.i \in Index
      BY <1>alive
    <3> QED BY <1>13, <1>slot, <3>1, SlotHolds DEF AliveCount
  <2> QED BY <1>t, <1>13, <2>1, <2>2, OwnedFrame DEF AliveCount, Dying
<1>14. CASE AliveExpire
  <2>0. ~handed
    BY <1>14 DEF AliveExpire
  <2>1. PICK i0 \in Index : i0 = alive.i
    BY <1>alive
  <2>2. Connected(i0) /\ alive.at = "count"
    BY <1>14, <1>slot, <2>1, AppSlotGet DEF AliveExpire, Connected
  <2>3. alive'.at = "close" /\ alive'.i = i0
    BY <1>14, <1>alive, <2>1 DEF AliveExpire
  <2>4. /\ g_appclients'[i0].status = "APPCLIENT_IDLE"
        /\ \A i \in Index : i # i0 => g_appclients'[i].status = g_appclients[i].status
        /\ \A i \in Index : /\ g_appclients'[i].socket = g_appclients[i].socket
                            /\ g_appclients'[i].client = g_appclients[i].client
    BY <1>14, <1>slot, <2>1 DEF AliveExpire, AppSlot
  <2>5. appFd' = appFd /\ appThread' = appThread /\ phone' = phone
    BY <1>14 DEF AliveExpire
  <2>6. \A i \in Index : Closing(i)' <=> (Closing(i) \/ i = i0)
    BY <2>2, <2>3, <2>5 DEF Closing
  <2>7. \A i \in Index : Connected(i)' <=> (Connected(i) /\ i # i0)
    BY <2>4 DEF Connected
  <2>8. Served(i0)
    BY <1>own, <2>0, <2>2
  <2>9. ASSUME NEW i \in Index, Connected(i)'
        PROVE  Served(i)'
    <3>1. Served(i)
      BY <1>own, <2>0, <2>7, <2>9
    <3> QED BY <2>4, <2>5, <3>1 DEF Served
  <2>10. ASSUME NEW i \in Index, Closing(i)'
         PROVE  GivenUp(i)'
    <3>1. Whose(g_appclients[i].socket)' = Whose(g_appclients[i].socket)
      BY <2>4, <2>5 DEF Whose
    <3>2. CASE i = i0
      <4>1. Whose(g_appclients[i].socket) = g_appclients[i].client
        BY <2>8, <3>2 DEF Served, Whose
      <4>2. \A j \in Index : Connected(j) /\ j # i0 =>
               /\ g_appclients[j].client # g_appclients[i0].client
               /\ g_appclients[j].socket # g_appclients[i0].socket
        BY <1>own, <2>0, <2>8 DEF Served
      <4>3. g_appclients[i0].client \in AppClient /\ phone[g_appclients[i0].client] # "out"
        BY <1>own, <2>0, <2>8 DEF Served
      <4> QED BY <2>4, <2>5, <2>7, <3>1, <3>2, <4>1, <4>2, <4>3 DEF GivenUp
    <3>3. CASE i # i0
      <4>1. GivenUp(i)
        BY <1>own, <2>0, <2>6, <2>10, <3>3
      <4> QED BY <2>4, <2>5, <2>7, <3>1, <4>1 DEF GivenUp
    <3> QED BY <3>2, <3>3
  <2>11. ASSUME NEW d \in AppClient, NEW i \in Index, appThread'[d].at # "none", appThread'[d].index = i
         PROVE  g_appclients'[i].client = d /\ phone'[d] # "out" /\ (Connected(i)' \/ Closing(i)')
    BY <1>own, <2>0, <2>4, <2>5, <2>6, <2>7, <2>11
  <2> QED BY <2>9, <2>10, <2>11, OwnedBecause
<1>15. CASE AliveClose
  <2>0. PICK i0 \in Index : i0 = alive.i /\ alive.at = "close"
    BY <1>15, <1>alive DEF AliveClose
  <2>1. Closing(i0)
    BY <2>0 DEF Closing
  <2>2. alive'.at = "forget" /\ alive'.i = alive.i
    BY <1>15, <1>alive DEF AliveClose
  <2>3. \A n \in AppFd : \/ appFd'[n] = appFd[n]
                         \/ appFd'[n] = "none" /\ \E i \in Index : Closing(i) /\ g_appclients[i].socket = n
    <3>1. Shut(g_appclients[i0].socket)
      BY <1>15, <2>0 DEF AliveClose
    <3> QED BY <1>appFd, <2>1, <3>1 DEF Shut
  <2> QED BY <1>t, <1>held, <1>15, <2>0, <2>2, <2>3, OwnedFrame DEF AliveClose, Dying
<1>16. CASE AliveForget
  <2>0. ~handed
    BY <1>16 DEF AliveForget
  <2>1. PICK i0 \in Index : i0 = alive.i /\ alive.at = "forget"
    BY <1>16, <1>alive DEF AliveForget
  <2>2. Closing(i0) /\ GivenUp(i0)
    BY <1>own, <2>0, <2>1 DEF Closing
  <2>3. PICK c \in AppClient : c = g_appclients[i0].client
    BY <2>2 DEF GivenUp
  <2>4. appThread'[c].at = "none" /\ \A d \in AppClient : d # c => appThread'[d] = appThread[d]
    BY <1>16, <2>1, <2>3 DEF AliveForget, NoThread
  <2>5. \A i \in Index : /\ g_appclients'[i].status = g_appclients[i].status
                         /\ g_appclients'[i].client = g_appclients[i].client
                         /\ g_appclients'[i].socket = IF i = i0 THEN 0 ELSE g_appclients[i].socket
    BY <1>16, <1>slot, <2>1, ForgettingIs DEF AliveForget
  <2>6. appFd' = appFd /\ phone' = phone /\ alive'.at = "count"
    BY <1>16 DEF AliveForget
  <2>7. \A i \in Index : Closing(i)' => Closing(i)
    BY <2>4, <2>6 DEF Closing
  <2>8. ASSUME NEW i \in Index, i # i0, Closing(i), g_appclients[i].client # c
        PROVE  Closing(i)'
    <3>1. PICK d \in AppClient : appThread[d].index = i /\ appThread[d].at \in Dying
      BY <2>1, <2>8 DEF Closing, Dying
    <3>2. d # c
      BY <1>own, <2>0, <2>8, <3>1 DEF Dying
    <3> QED BY <2>4, <3>1, <3>2 DEF Closing, Dying
  <2>9. \A i \in Index : Connected(i)' <=> Connected(i)
    BY <2>5 DEF Connected
  <2>10. ASSUME NEW i \in Index, Connected(i)'
         PROVE  Served(i)'
    <3>1. Served(i) /\ i # i0 /\ g_appclients[i].client # c
      BY <1>own, <2>0, <2>2, <2>3, <2>9, <2>10 DEF GivenUp
    <3> QED BY <2>4, <2>5, <2>6, <3>1 DEF Served
  <2>11. ASSUME NEW i \in Index, Closing(i)'
         PROVE  GivenUp(i)'
    <3>1. GivenUp(i)
      BY <1>own, <2>0, <2>7, <2>11
    <3>2. \A j \in Index : Connected(j) => j # i0 /\ g_appclients[j].socket # 0
      BY <1>own, <2>0, <2>2 DEF GivenUp, Served
    <3>3. CASE i = i0
      BY <2>5, <2>6, <2>9, <3>1, <3>2, <3>3 DEF GivenUp, Whose
    <3>4. CASE i # i0
      BY <2>5, <2>6, <2>9, <3>1, <3>2, <3>4 DEF GivenUp, Whose
    <3> QED BY <3>3, <3>4
  <2>12. ASSUME NEW d \in AppClient, NEW i \in Index, appThread'[d].at # "none", appThread'[d].index = i
         PROVE  g_appclients'[i].client = d /\ phone'[d] # "out" /\ (Connected(i)' \/ Closing(i)')
    <3>1. d # c /\ g_appclients[i].client = d /\ phone[d] # "out" /\ (Connected(i) \/ Closing(i))
      BY <1>own, <2>0, <2>4, <2>12
    <3>2. i # i0
      BY <2>3, <3>1
    <3> QED BY <2>5, <2>6, <2>8, <2>9, <3>1, <3>2
  <2> QED BY <2>10, <2>11, <2>12, OwnedBecause
<1>17. CASE AckTake \/ AckPass \/ AckSend
  <2>1. slots' = slots
    BY <1>17 DEF AckTake, AckPass, AckSend
  <2> QED BY <1>t, <1>held, <2>1, OwnedFrame DEF slots
<1>18. CASE AckPack
  <2>1. Held(g_appclients, g_appclients')
    <3>1. ackThread.i \in Index
      BY DEF AppIInv, AppTypeOK
    <3> QED BY <1>18, <1>slot, <3>1, SlotHolds DEF AckPack
  <2> QED BY <1>t, <1>18, <2>1, OwnedFrame DEF AckPack
<1>19. ASSUME NEW p \in Producer, AckLook(p) \/ AckLink(p)
       PROVE  Owned'
  <2>1. slots' = slots
    BY <1>19 DEF AckLook, Looks, AckLink
  <2> QED BY <1>t, <1>held, <2>1, OwnedFrame DEF slots
<1>20. CASE UNCHANGED appVars
  BY <1>t, <1>held, <1>20, OwnedFrame DEF appVars
<1> QED
  BY <1>1, <1>2, <1>3, <1>4, <1>5, <1>6, <1>7, <1>8, <1>9, <1>10, <1>11, <1>12, <1>13, <1>14, <1>15,
     <1>16, <1>17, <1>18, <1>19, <1>20 DEF AppNext, AppClientMsg, AppClientAlive, AckClientPro

-----------------------------------------------------------------------------
(* What is in a slot's buffer.                                             *)

(* A thread's answer stays in its slot's buffer until it is sent, unless   *)
(* an announcement is packed there, or the slot is given away too soon.    *)
LEMMA AppNext_Made ==
    ASSUME AppIInv, AppTypeOK', [AppNext]_appVars
    PROVE  Made'
<1> SUFFICES ASSUME ~handed', NEW c \in AppClient, appThread'[c].at = "send"
             PROVE  \/ g_appclients'[appThread'[c].index].proSendBuffer = appThread'[c].reply
                    \/ appThread'[c].index \in mixed'
  BY DEF Made
<1>slot. g_appclients \in [Index -> AppSlot]
  BY DEF AppIInv, AppTypeOK
<1>thread. appThread \in [AppClient -> ThreadState]
  BY DEF AppIInv, AppTypeOK
<1>0. ~handed
  BY DEF AppNext, AppClientMsg, AppClientAlive, AckClientPro, AppAccept, AppUnserved, AppHangUp, AppExit,
         AppWait, AppRecv, AppHandle, AppSend, AppEnd, AppClose, AppForget, AliveSkip, AliveCount, AliveExpire,
         AliveClose, AliveForget, AckTake, AckPass, AckPack, AckSend, AckLook, Looks, AckLink, slots, appVars
<1> DEFINE i == appThread[c].index
<1>i. i \in Index
  BY <1>thread, ThreadGet
<1>own. appThread[c].at # "none" =>
           /\ g_appclients[i].client = c
           /\ ~Connected(i) => Closing(i)
  BY <1>0 DEF AppIInv, Owned
<1>alone. ASSUME NEW d \in AppClient, d # c, appThread[c].at # "none", appThread[d].at # "none"
          PROVE  appThread[d].index # i
  BY <1>0, <1>own, <1>alone DEF AppIInv, Owned
<1>made. appThread[c].at = "send" => g_appclients[i].proSendBuffer = appThread[c].reply \/ i \in mixed
  BY <1>0 DEF AppIInv, Made
<1>keeps. ASSUME appThread'[c] = appThread[c], mixed \subseteq mixed',
                 g_appclients'[i].proSendBuffer = g_appclients[i].proSendBuffer \/ i \in mixed'
          PROVE  \/ g_appclients'[appThread'[c].index].proSendBuffer = appThread'[c].reply
                 \/ appThread'[c].index \in mixed'
  BY <1>keeps, <1>made
<1> DEFINE Goal == \/ g_appclients'[appThread'[c].index].proSendBuffer = appThread'[c].reply
                   \/ appThread'[c].index \in mixed'
<1>1. ASSUME NEW d \in AppClient, AppAccept(d)
      PROVE  Goal
  <2>1. d # c /\ appThread'[c] = appThread[c]
    BY <1>1, <1>thread DEF AppAccept, NoThread
  <2>2. FirstIdle # i
    <3>1. ~TooSoon /\ Idle # {} /\ FirstIdle \in Index /\ ~Connected(FirstIdle)
      BY <1>1, FirstIdleIs DEF AppAccept, Connected
    <3>2. ~Closing(FirstIdle)
      BY <3>1 DEF TooSoon
    <3>3. FirstIdle = i => Closing(FirstIdle)
      BY <1>own, <2>1, <3>1
    <3> QED BY <3>2, <3>3
  <2>3. g_appclients'[i] = g_appclients[i]
    BY <1>1, <1>slot, <1>i, <2>2 DEF AppAccept
  <2> QED BY <1>1, <1>keeps, <2>1, <2>3 DEF AppAccept
<1>2. ASSUME NEW d \in AppClient, AppUnserved(d) \/ AppHangUp(d)
      PROVE  Goal
  BY <1>2, <1>keeps DEF AppUnserved, AppHangUp
<1>3. ASSUME NEW d \in AppClient, AppExit(d) \/ AppWait(d) \/ AppSend(d) \/ AppClose(d)
      PROVE  Goal
  <2>1. d # c => appThread'[c] = appThread[c]
    BY <1>3, <1>thread DEF AppExit, AppWait, AppSend, AppClose, To
  <2>2. appThread'[d].at \in {"none", "recv", "loop", "forget"}
    BY <1>3, <1>thread DEF AppExit, AppWait, AppSend, AppClose, To, NoThread, ThreadState
  <2> QED BY <1>3, <1>keeps, <2>1, <2>2 DEF AppExit, AppWait, AppSend, AppClose
<1>4. ASSUME NEW d \in AppClient, AppRecv(d)
      PROVE  Goal
  <2> DEFINE q == Head(appScript.requests[appThread[d].from])
             k == appThread[d].index
             at == IF q = "short" THEN "loop" ELSE "parse"
  <2>0. k \in Index /\ appThread[d].at = "recv"
    BY <1>4, <1>thread, ThreadGet DEF AppRecv
  <2>1. /\ appThread' = [appThread EXCEPT ![d].request = q, ![d].from = "none", ![d].at = at]
        /\ mixed \subseteq mixed'
    BY <1>4 DEF AppRecv
  <2>2. g_appclients' = [g_appclients EXCEPT
                ![k].proSendBuffer = IF q \in {"short", "crc"} THEN @ ELSE "none",
                ![k].iOverTimeCnt = IF q \in {"short", "crc", "refused"} THEN @ ELSE 0]
    BY <1>4, Zenon DEF AppRecv
  <2>3. at \in {"loop", "parse"}
    OBVIOUS
  <2> HIDE DEF q, at
  <2>4. d # c /\ appThread'[c] = appThread[c]
    <3>1. appThread'[d].at = at
      BY <1>thread, <2>1 DEF ThreadState
    <3>2. d # c
      BY <2>3, <3>1
    <3> QED BY <1>thread, <2>1, <3>2
  <2>5. k # i
    BY <1>alone, <2>0, <2>4
  <2> HIDE DEF k
  <2>6. g_appclients'[i].proSendBuffer = g_appclients[i].proSendBuffer
    BY <1>slot, <1>i, <2>0, <2>2, <2>5, RecvPut
  <2> QED BY <1>keeps, <2>1, <2>4, <2>6
<1>5. ASSUME NEW d \in AppClient, AppHandle(d)
      PROVE  Goal
  <2> DEFINE q == appThread[d].request
             k == appThread[d].index
  <2>0. k \in Index /\ appThread[d].at = "parse" /\ q \in Request \ {"short"}
    BY <1>5, <1>thread, ThreadGet DEF AppHandle, AppIInv, Started
  <2>1. PICK r \in Answers(q) :
           IF r = "none" THEN To(d, "loop") /\ UNCHANGED <<g_appclients, mixed>> ELSE Packs(d, r)
    BY <1>5 DEF AppHandle
  <2>2. CASE r = "none"
    <3>1. appThread' = [appThread EXCEPT ![d].at = "loop"] /\ g_appclients' = g_appclients /\ mixed' = mixed
      BY <2>1, <2>2 DEF To
    <3>2. appThread'[c] = appThread[c]
      BY <1>thread, <3>1 DEF ThreadState
    <3> QED BY <1>keeps, <3>1, <3>2
  <2>3. CASE r # "none"
    <3>1. appThread' = [appThread EXCEPT ![d].at = "send", ![d].reply = r] /\ mixed \subseteq mixed'
      BY <2>1, <2>3 DEF Packs
    <3>2. g_appclients' = [g_appclients EXCEPT ![k].proSendBuffer = r,
                             ![k].loginflag = CASE q = "login" -> TRUE
                                                [] q = "denied" -> FALSE
                                                [] OTHER -> @]
      BY <2>1, <2>3, Zenon DEF Packs
    <3>3. r \in Packet
      BY <2>0, <2>1, <2>3, AppBasics DEF Answers, Request, Reply
    <3> HIDE DEF q
    <3>4. /\ g_appclients'[k].proSendBuffer = r
          /\ \A j \in Index : j # k => g_appclients'[j].proSendBuffer = g_appclients[j].proSendBuffer
      <4> HIDE DEF k
      <4> QED BY <1>slot, <2>0, <3>2, <3>3, PacksPut
    <3>5. CASE d = c
      <4>1. appThread'[c].reply = r /\ appThread'[c].index = k
        BY <1>thread, <3>1, <3>5 DEF ThreadState
      <4> QED BY <3>4, <4>1
    <3>6. CASE d # c
      <4>1. appThread'[c] = appThread[c]
        BY <1>thread, <3>1, <3>6
      <4>2. k # i
        BY <1>alone, <2>0, <3>6, <4>1
      <4> QED BY <1>i, <1>keeps, <3>1, <3>4, <4>1, <4>2
    <3> QED BY <3>5, <3>6
  <2> QED BY <2>2, <2>3
<1>6. ASSUME NEW d \in AppClient, AppEnd(d) \/ AppForget(d)
      PROVE  Goal
  <2>1. appThread'[d].at \in {"close", "none"} /\ (d # c => appThread'[c] = appThread[c])
    BY <1>6, <1>thread DEF AppEnd, AppForget, NoThread, ThreadState
  <2>2. g_appclients'[i].proSendBuffer = g_appclients[i].proSendBuffer
    <3>1. CASE AppEnd(d)
      BY <3>1, <1>slot, <1>i DEF AppEnd, AppSlot
    <3>2. CASE AppForget(d)
      <4>1. appThread[d].index \in Index
        BY <1>thread, ThreadGet
      <4> QED BY <3>2, <4>1, <1>slot, <1>i, ForgettingIs DEF AppForget
    <3> QED BY <1>6, <3>1, <3>2
  <2> QED BY <1>6, <1>keeps, <2>1, <2>2 DEF AppEnd, AppForget
<1>7. CASE AliveSkip \/ AliveClose
  BY <1>7, <1>keeps DEF AliveSkip, AliveClose
<1>8. CASE AliveCount \/ AliveExpire
  <2>1. g_appclients'[i].proSendBuffer = g_appclients[i].proSendBuffer
    BY <1>8, <1>slot, <1>i DEF AliveCount, AliveExpire, AppSlot
  <2> QED BY <1>8, <1>keeps, <2>1 DEF AliveCount, AliveExpire
<1>9. CASE AliveForget
  <2>1. appThread'[c] = appThread[c]
    BY <1>9 DEF AliveForget, NoThread
  <2>2. alive.i \in Index
    BY DEF AppIInv, AppTypeOK
  <2>3. g_appclients'[i].proSendBuffer = g_appclients[i].proSendBuffer
    BY <1>9, <1>slot, <1>i, <2>2, ForgettingIs DEF AliveForget
  <2> QED BY <1>9, <1>keeps, <2>1, <2>3 DEF AliveForget
<1>10. CASE AckTake \/ AckPass \/ AckSend
  <2>1. slots' = slots
    BY <1>10 DEF AckTake, AckPass, AckSend
  <2> QED BY <1>keeps, <2>1 DEF slots
<1>11. CASE AckPack
  <2>1. appThread' = appThread /\ mixed \subseteq mixed'
    BY <1>11 DEF AckPack
  <2>2. CASE i = ackThread.i
    BY <1>11, <2>1, <2>2 DEF AckPack
  <2>3. CASE i # ackThread.i
    <3>1. g_appclients'[i] = g_appclients[i]
      BY <1>11, <1>slot, <1>i, <2>3 DEF AckPack
    <3> QED BY <1>keeps, <2>1, <3>1
  <2> QED BY <2>2, <2>3
<1>12. ASSUME NEW p \in Producer, AckLook(p) \/ AckLink(p)
       PROVE  Goal
  <2>1. slots' = slots
    BY <1>12 DEF AckLook, Looks, AckLink
  <2> QED BY <1>keeps, <2>1 DEF slots
<1>13. CASE UNCHANGED appVars
  BY <1>13, <1>keeps DEF appVars
<1> QED
  BY <1>1, <1>2, <1>3, <1>4, <1>5, <1>6, <1>7, <1>8, <1>9, <1>10, <1>11, <1>12, <1>13
     DEF AppNext, AppClientMsg, AppClientAlive, AckClientPro

-----------------------------------------------------------------------------
(* The list of announcements.                                              *)

(* Behind the last node is the end.                                        *)
LEMMA LinkedAtEnd ==
    ASSUME NEW list \in Seq(Announcement), NEW m \in Announcement,
           \A k, l \in DOMAIN list : list[k] = list[l] => k = l
    PROVE  Linked(list, IF list = <<>> THEN NoAck ELSE list[Len(list)], m) = Append(list, m)
<1>1. CASE list = <<>>
  <2>1. Linked(list, NoAck, m) = <<m>>
    BY DEF Linked
  <2> QED BY <1>1, <2>1
<1>2. CASE list # <<>>
  <2> DEFINE last == list[Len(list)]
             k == CHOOSE k \in DOMAIN list : list[k] = last
  <2>1. Len(list) \in DOMAIN list /\ last \in Announcement
    BY <1>2
  <2>2. last # NoAck
    BY <2>1, AppAssumption DEF Announcement, NoAck
  <2>3. \E j \in DOMAIN list : list[j] = last
    BY <2>1
  <2>4. k \in DOMAIN list /\ list[k] = last
    <3> HIDE DEF last
    <3> QED BY <2>3, Zenon
  <2>5. k = Len(list)
    BY <2>1, <2>4
  <2> HIDE DEF k
  <2>6. Linked(list, last, m) = SubSeq(list, 1, k) \o <<m>>
    <3> HIDE DEF last
    <3> QED BY <2>2, <2>3, Zenon DEF Linked, k
  <2>7. SubSeq(list, 1, k) = list
    BY <2>5
  <2>8. list \o <<m>> = Append(list, m)
    OBVIOUS
  <2> QED BY <1>2, <2>6, <2>7, <2>8
<1> QED BY <1>1, <1>2

(* What is left of a sequence without its first.                           *)
LEMMA TailIs ==
    ASSUME NEW S, NEW q \in Seq(S), q # <<>>
    PROVE  /\ Len(q) \in Nat /\ Len(q) >= 1 /\ DOMAIN q = 1..Len(q)
           /\ Len(Tail(q)) = Len(q) - 1 /\ DOMAIN Tail(q) = 1..(Len(q) - 1)
           /\ \A k \in DOMAIN Tail(q) : k \in Nat /\ k + 1 \in DOMAIN q /\ Tail(q)[k] = q[k + 1]
           /\ Len(q) > 1 => Tail(q) # <<>>
<1>1. Len(q) \in Nat /\ Len(q) >= 1 /\ DOMAIN q = 1..Len(q)
  OBVIOUS
<1>2. Len(Tail(q)) = Len(q) - 1 /\ DOMAIN Tail(q) = 1..(Len(q) - 1)
  BY <1>1
<1>3. \A k \in DOMAIN Tail(q) : k \in Nat /\ k + 1 \in DOMAIN q /\ Tail(q)[k] = q[k + 1]
  BY <1>1, <1>2
<1>4. Len(q) > 1 => Tail(q) # <<>>
  <2>1. Len(q) > 1 => Len(Tail(q)) # 0
    BY <1>1, <1>2
  <2>2. Len(<<>>) = 0
    OBVIOUS
  <2> QED BY <2>1, <2>2, Zenon
<1> QED BY <1>1, <1>2, <1>3, <1>4

(* As long as no two steps on the list overlap, it is what is due.         *)
LEMMA AppNext_Lined ==
    ASSUME AppIInv, AppTypeOK', [AppNext]_appVars
    PROVE  Lined'
<1> SUFFICES ASSUME ~overlapped'
             PROVE  Lined'
  BY DEF Lined
<1>lists. g_AckCmdlist \in Seq(Announcement) /\ due \in Seq(Announcement)
  BY DEF AppIInv, AppTypeOK
<1>adding. adding \in [Producer -> [at : {"out", "link"}, pList : Announcement \cup {NoAck}]]
  BY DEF AppIInv, AppTypeOK
<1>script. appScript \in AppScript /\ appScript.announced \in [Producer -> Nat]
  BY DEF AppIInv, AppTypeOK, AppScript
<1>entry. \A k \in DOMAIN due : due[k] \in Announcement /\ due[k][1] \in Producer /\ due[k][2] \in Nat
  BY <1>lists DEF Announcement
<1>lined. ASSUME ~overlapped
          PROVE  /\ g_AckCmdlist = due
                 /\ \A k \in DOMAIN due : due[k][2] > appScript.announced[due[k][1]]
                 /\ \A k, l \in DOMAIN due : due[k] = due[l] => k = l
                 /\ \A p, o \in Producer : Adding(p) /\ Adding(o) => p = o
                 /\ \A p \in Producer : Adding(p) =>
                       adding[p].pList = IF due = <<>> THEN NoAck ELSE due[Len(due)]
  BY <1>lined DEF AppIInv, Lined
<1>same. ASSUME overlapped' = overlapped, g_AckCmdlist' = g_AckCmdlist, due' = due, adding' = adding,
                appScript'.announced = appScript.announced
         PROVE  Lined'
  BY <1>same DEF AppIInv, Lined, Adding
<1>1. CASE AckTake
  <2>1. /\ ~overlapped /\ g_AckCmdlist # <<>> /\ adding' = adding /\ appScript' = appScript
        /\ Len(g_AckCmdlist) = 1 => \A p \in Producer : ~Adding(p)
        /\ g_AckCmdlist' = Tail(g_AckCmdlist) /\ due' = Tail(due)
    BY <1>1 DEF AckTake
  <2>2. due # <<>> /\ g_AckCmdlist' = due' /\ (Len(due) = 1 => \A p \in Producer : ~Adding(p))
    BY <1>lined, <2>1
  <2>3. /\ Len(due') = Len(due) - 1
        /\ \A k \in DOMAIN due' : k + 1 \in DOMAIN due /\ due'[k] = due[k + 1]
        /\ Len(due) > 1 => due' # <<>> /\ due'[Len(due')] = due[Len(due)]
    <3>1. /\ Len(due) \in Nat /\ Len(due) >= 1
          /\ Len(due') = Len(due) - 1 /\ DOMAIN due' = 1..(Len(due) - 1)
          /\ \A k \in DOMAIN due' : k + 1 \in DOMAIN due /\ due'[k] = due[k + 1]
          /\ Len(due) > 1 => due' # <<>>
      BY <1>lists, <2>1, <2>2, TailIs
    <3>2. Len(due) > 1 => due'[Len(due')] = due[Len(due)]
      <4>1. Len(due) > 1 => Len(due) - 1 \in DOMAIN due'
        BY <3>1
      <4>2. (Len(due) - 1) + 1 = Len(due)
        BY <3>1
      <4> QED BY <3>1, <4>1, <4>2
    <3> QED BY <3>1, <3>2
  <2>4. \A k \in DOMAIN due' : due'[k][2] > appScript'.announced[due'[k][1]]
    BY <1>lined, <2>1, <2>3
  <2>5. \A k, l \in DOMAIN due' : due'[k] = due'[l] => k = l
    <3>1. \A k \in DOMAIN due' : k \in Nat
      BY <1>lists, <2>1, <2>2
    <3>2. \A k, l \in DOMAIN due' : due'[k] = due'[l] => k + 1 = l + 1
      BY <1>lined, <2>1, <2>3
    <3> QED BY <3>1, <3>2
  <2>6. ASSUME NEW p \in Producer, Adding(p)'
        PROVE  adding'[p].pList = IF due' = <<>> THEN NoAck ELSE due'[Len(due')]
    <3>1. Adding(p)
      BY <2>1, <2>6 DEF Adding
    <3>2. Len(due) > 1
      <4> DEFINE n == Len(due)
      <4>1. n \in Nat /\ n >= 1
        BY <1>lists, <2>2, TailIs
      <4>2. n # 1
        BY <2>2, <3>1, Zenon
      <4> HIDE DEF n
      <4>3. n > 1
        BY <4>1, <4>2
      <4> QED BY <4>3, Zenon DEF n
    <3> QED BY <1>lined, <2>1, <2>2, <2>3, <3>1, <3>2
  <2>7. \A p, o \in Producer : Adding(p)' /\ Adding(o)' => p = o
    BY <1>lined, <2>1 DEF Adding
  <2> QED BY <2>2, <2>4, <2>5, <2>6, <2>7 DEF Lined
<1>2. ASSUME NEW p \in Producer, AckLook(p)
      PROVE  Lined'
  <2> DEFINE last == IF g_AckCmdlist = <<>> THEN NoAck ELSE g_AckCmdlist[Len(g_AckCmdlist)]
  <2>1. Looks(p, last)
    BY <1>2, Zenon DEF AckLook
  <2>2. /\ ~overlapped /\ g_AckCmdlist' = g_AckCmdlist /\ due' = due /\ appScript' = appScript
        /\ \A o \in Producer \ {p} : ~Adding(o)
        /\ adding' = [adding EXCEPT ![p] = [at |-> "link", pList |-> last]]
    <3> HIDE DEF last
    <3> QED BY <2>1 DEF Looks
  <2>3. last = IF due = <<>> THEN NoAck ELSE due[Len(due)]
    BY <1>lined, <2>2
  <2> HIDE DEF last
  <2>4. adding'[p].pList = last /\ \A o \in Producer \ {p} : ~Adding(o)'
    BY <1>adding, <2>2 DEF Adding
  <2> QED BY <1>lined, <2>2, <2>3, <2>4 DEF Lined
<1>3. ASSUME NEW p \in Producer, AckLink(p)
      PROVE  Lined'
  <2> DEFINE n == appScript.announced[p]
  <2>0. ~overlapped /\ overlapped' = overlapped /\ Adding(p) /\ n \in Nat /\ n > 0
    BY <1>3, <1>script DEF AckLink, AppIInv, Started
  <2> DEFINE m == <<p, n>>
  <2>1. m \in Announcement /\ m[1] = p /\ m[2] = n
    BY <2>0 DEF Announcement
  <2>2. g_AckCmdlist' = Append(due, m)
    <3>1. g_AckCmdlist' = Linked(g_AckCmdlist, adding[p].pList, m)
      BY <1>3, Zenon DEF AckLink
    <3>2. g_AckCmdlist = due /\ adding[p].pList = IF due = <<>> THEN NoAck ELSE due[Len(due)]
      BY <1>lined, <2>0
    <3> HIDE DEF m
    <3> QED BY <1>lists, <1>lined, <2>0, <2>1, <3>1, <3>2, LinkedAtEnd
  <2>3. due' = Append(due, m)
    BY <1>3, <2>0, Zenon DEF AckLink
  <2>4. /\ appScript' = [appScript EXCEPT !.announced[p] = n - 1]
        /\ adding' = [adding EXCEPT ![p] = [at |-> "out", pList |-> NoAck]]
    BY <1>3 DEF AckLink
  <2>5. /\ appScript'.announced[p] = n - 1
        /\ \A o \in Producer : o # p => appScript'.announced[o] = appScript.announced[o]
    BY <1>script, <2>4 DEF AppScript
  <2>6. /\ Len(due) \in Nat /\ DOMAIN due = 1..Len(due) /\ DOMAIN due' = 1..(Len(due) + 1)
        /\ due'[Len(due) + 1] = m /\ \A k \in DOMAIN due : due'[k] = due[k]
    <3> HIDE DEF m
    <3> QED BY <1>lists, <2>1, <2>3
  <2>7. \A k \in DOMAIN due : /\ due[k][2] > appScript.announced[due[k][1]]
                              /\ due[k] # m
    BY <1>lined, <1>entry, <2>0, <2>1
  <2> HIDE DEF m, n
  <2>8. \A k \in DOMAIN due' : k \in DOMAIN due \/ k = Len(due) + 1
    BY <2>6
  <2>9. \A k \in DOMAIN due' : due'[k][2] > appScript'.announced[due'[k][1]]
    <3>1. ASSUME NEW k \in DOMAIN due
          PROVE  due[k][2] > appScript'.announced[due[k][1]]
      <4>1. appScript'.announced[due[k][1]] <= appScript.announced[due[k][1]]
        BY <1>entry, <1>script, <2>0, <2>5 DEF n
      <4>2. appScript.announced[due[k][1]] \in Nat /\ appScript'.announced[due[k][1]] \in Int
        BY <1>entry, <1>script, <2>0, <2>5
      <4> QED BY <1>entry, <2>7, <4>1, <4>2
    <3>2. m[2] > appScript'.announced[m[1]]
      BY <2>0, <2>1, <2>5
    <3> QED BY <2>6, <2>8, <3>1, <3>2
  <2>10. \A k, l \in DOMAIN due' : due'[k] = due'[l] => k = l
    BY <1>lined, <2>0, <2>6, <2>7, <2>8
  <2>11. \A o \in Producer : ~Adding(o)'
    BY <1>lined, <1>adding, <2>0, <2>4 DEF Adding
  <2> QED BY <2>2, <2>3, <2>9, <2>10, <2>11 DEF Lined
<1>4. ASSUME NEW c \in AppClient, AppAccept(c) \/ AppUnserved(c) \/ AppHangUp(c) \/ AppExit(c) \/ AppWait(c)
             \/ AppHandle(c) \/ AppSend(c) \/ AppEnd(c) \/ AppClose(c) \/ AppForget(c)
      PROVE  Lined'
  BY <1>4, <1>same DEF AppAccept, AppUnserved, AppHangUp, AppExit, AppWait, AppHandle, AppSend, AppEnd,
         AppClose, AppForget, acks
<1>5. ASSUME NEW c \in AppClient, AppRecv(c)
      PROVE  Lined'
  <2> DEFINE d == appThread[c].from
  <2>1. appScript' = [appScript EXCEPT !.requests[d] = Tail(@)]
    BY <1>5 DEF AppRecv
  <2>2. appScript'.announced = appScript.announced
    BY <1>script, <2>1 DEF AppScript
  <2> QED BY <1>5, <1>same, <2>2 DEF AppRecv, acks
<1>6. CASE AliveSkip \/ AliveCount \/ AliveExpire \/ AliveClose \/ AliveForget
  BY <1>6, <1>same DEF AliveSkip, AliveCount, AliveExpire, AliveClose, AliveForget, acks
<1>7. CASE AckPass \/ AckPack \/ AckSend
  BY <1>7, <1>same DEF AckPass, AckPack, AckSend
<1>8. CASE UNCHANGED appVars
  BY <1>8, <1>same DEF appVars
<1> QED
  BY <1>1, <1>2, <1>3, <1>4, <1>5, <1>6, <1>7, <1>8 DEF AppNext, AppClientMsg, AppClientAlive, AckClientPro

-----------------------------------------------------------------------------
(* The theorems.                                                           *)

(* It holds at first.                                                      *)
LEMMA AppInit_IInv ==
    ASSUME AppInit
    PROVE  AppIInv
<1>0. appScript \in AppScript
  BY AppAssumption DEF AppInit
<1>1. g_appclients \in [Index -> AppSlot] /\ \A i \in Index : ~Connected(i)
  BY Fresh DEF AppInit, Connected
<1>2. appThread \in [AppClient -> ThreadState] /\ \A c \in AppClient : appThread[c].at = "none"
  BY Fresh DEF AppInit
<1>3. AppTypeOK
  <2>1. /\ alive \in [at : {"count", "close", "forget"}, i : Index]
        /\ ackThread \in [at : {"wait", "look", "send"}, i : Index, p : Announcement \cup {NoAck}]
    BY AppBasics DEF AppInit
  <2>2. /\ phone \in [AppClient -> {"out", "up", "gone"}] /\ appFd \in [AppFd -> AppClient \cup {"none"}]
        /\ adding \in [Producer -> [at : {"out", "link"}, pList : Announcement \cup {NoAck}]]
    BY DEF AppInit
  <2>3. g_AckCmdlist \in Seq(Announcement) /\ due \in Seq(Announcement)
    BY DEF AppInit
  <2>4. handed \in BOOLEAN /\ overlapped \in BOOLEAN
    BY Zenon DEF AppInit
  <2>5. mixed \subseteq Index
    BY DEF AppInit
  <2> QED BY <1>0, <1>1, <1>2, <2>1, <2>2, <2>3, <2>4, <2>5 DEF AppTypeOK
<1>4. \A p \in Producer : ~Adding(p)
  BY DEF AppInit, Adding
<1>5. Owned
  <2>1. \A i \in Index : ~Closing(i)
    BY <1>2 DEF AppInit, Closing
  <2> QED BY <1>1, <1>2, <2>1 DEF Owned
<1>6. Lined
  BY <1>4 DEF Lined, AppInit
<1> QED BY <1>2, <1>3, <1>4, <1>5, <1>6 DEF AppIInv, Started, Made

(* Every step keeps the invariant.                                         *)
LEMMA AppNext_IInv ==
    ASSUME AppIInv, [AppNext]_appVars
    PROVE  AppIInv'
<1>1. AppTypeOK' /\ Started'
  BY AppNext_Type
<1>2. Owned' /\ Made' /\ Lined'
  BY <1>1, AppNext_Owned, AppNext_Made, AppNext_Lined
<1> QED BY <1>1, <1>2 DEF AppIInv

(* It implies what the runs check.                                         *)
LEMMA AppIInv_Served ==
    ASSUME AppIInv
    PROVE  AppInv /\ AnnouncedInOrder
<1>1. SlotServed
  <2> SUFFICES ASSUME ~handed, NEW i \in Index, Connected(i)
               PROVE  /\ Whose(g_appclients[i].socket) = g_appclients[i].client
                      /\ \A c \in AppClient : appThread[c].at # "none" =>
                            (appThread[c].index = i <=> c = g_appclients[i].client)
                      /\ appThread[g_appclients[i].client].at \notin {"none", "close", "forget"}
    BY DEF SlotServed, Connected
  <2>1. Served(i)
    BY DEF AppIInv, Owned
  <2>2. \A c \in AppClient : appThread[c].at # "none" => g_appclients[appThread[c].index].client = c
    BY DEF AppIInv, Owned
  <2> QED BY <2>1, <2>2 DEF Served, Whose, Dying
<1> QED BY <1>1 DEF AppIInv, AppInv, Lined, AnnouncedInOrder

(* AppServerListen, AppClientMsg, AppClientAlive: a slot in use has its    *)
(* client's own connection and thread, for every number of slots, clients  *)
(* and descriptors and every time-out.                                     *)
THEOREM ClientsServed == AppSpec => []AppInv
<1>1. AppInit => AppIInv
  BY AppInit_IInv
<1>2. AppIInv /\ [AppNext]_appVars => AppIInv'
  BY AppNext_IInv
<1>3. AppIInv => AppInv
  BY AppIInv_Served
<1> QED BY <1>1, <1>2, <1>3, PTL DEF AppSpec

(* cdr_add_ackmsg, AckClientPro: announcements are taken in order, unless  *)
(* two steps on the list overlapped.                                       *)
THEOREM AnnouncementsInOrder == AppSpec => []AnnouncedInOrder
<1>1. AppInit => AppIInv
  BY AppInit_IInv
<1>2. AppIInv /\ [AppNext]_appVars => AppIInv'
  BY AppNext_IInv
<1>3. AppIInv => AnnouncedInOrder
  BY AppIInv_Served
<1> QED BY <1>1, <1>2, <1>3, PTL DEF AppSpec

(* send_ack_data: a reply goes to the client that asked, and is its own.   *)
THEOREM RepliesOwn == AppSpec => ReplyIsOwn
<1> DEFINE Step == ~handed => \A c \in AppClient : AppSend(c) =>
                      /\ Whose(slot(c).socket) \in {c, "none"}
                      /\ slot(c).proSendBuffer = appThread[c].reply \/ appThread[c].index \in mixed
<1>1. AppInit => AppIInv
  BY AppInit_IInv
<1>2. AppIInv /\ [AppNext]_appVars => AppIInv'
  BY AppNext_IInv
<1>3. AppIInv => Step
  <2> SUFFICES ASSUME AppIInv, ~handed, NEW c \in AppClient, AppSend(c)
               PROVE  /\ Whose(slot(c).socket) \in {c, "none"}
                      /\ slot(c).proSendBuffer = appThread[c].reply \/ appThread[c].index \in mixed
    OBVIOUS
  <2>1. PICK i \in Index : appThread[c].index = i /\ appThread[c].at = "send"
    <3>1. appThread \in [AppClient -> ThreadState]
      BY DEF AppIInv, AppTypeOK
    <3> QED BY <3>1, ThreadGet DEF AppSend
  <2>2. g_appclients[i].client = c /\ ((Connected(i) /\ Served(i)) \/ GivenUp(i))
    BY <2>1 DEF AppIInv, Owned
  <2>3. Whose(g_appclients[i].socket) \in {c, "none"}
    BY <2>2 DEF Served, GivenUp, Whose
  <2>4. g_appclients[i].proSendBuffer = appThread[c].reply \/ i \in mixed
    BY <2>1 DEF AppIInv, Made
  <2> QED BY <2>1, <2>3, <2>4 DEF slot
<1>4. AppIInv /\ [AppNext]_appVars => [Step]_appVars
  BY <1>3
<1> QED BY <1>1, <1>2, <1>4, PTL DEF AppSpec, ReplyIsOwn
=============================================================================
