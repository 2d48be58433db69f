---------------------------- MODULE AppService ----------------------------
(***************************************************************************)
(* The server for the phone application (cdr_net/cdr_app_service.c).  A    *)
(* listener fills a free slot of g_appclients for each client and starts a *)
(* thread that reads and answers its requests (AppClientMsg).  Once a      *)
(* second AppClientAlive counts a silent client up, and drops it.  Clips   *)
(* and photos that are finished are announced through a list, which other  *)
(* threads append to and AckClientPro empties, to all who are logged in.   *)
(* Nothing here is locked: a slot is free from the moment its status says  *)
(* so, and whoever gives it up closes its socket only afterwards.          *)
(***************************************************************************)
EXTENDS Integers, Sequences

CONSTANTS
    AppClient,       \* phones, each of which connects once
    MAX_APP_CLIENT,  \* slots
    OVER_TIME_SEC,   \* how many sweeps a silent client survives, and one
    MaxAppFd,        \* bound: descriptors
    Producer,        \* the threads that announce: cutting, recording, taking photos
    AppScripts       \* bound: the clients that come and hang up, the requests each sends, how
                     \* much each producer announces; one is chosen

(* A request, by what parse_app_cmd tells apart: too short, wrong CRC,     *)
(* wrong token or header or no card, a login with the right and with a     *)
(* wrong password, a command with an answer, an order for a clip or a      *)
(* photo (answered, when it is, by an announcement), an unknown command.   *)
Request == {"short", "crc", "refused", "login", "denied", "command", "order", "unknown"}
Reply == {"crc", "refused", "login", "denied", "done"}

AppScript == [comes : SUBSET AppClient, leaves : SUBSET AppClient,
              requests : [AppClient -> Seq(Request)],
              announced : [Producer -> Nat]]

ASSUME AppAssumption ==
    /\ "none" \notin AppClient
    /\ Producer \cap (Reply \cup {"none"}) = {}
    /\ {MAX_APP_CLIENT, OVER_TIME_SEC, MaxAppFd} \subseteq Nat \ {0}
    /\ AppScripts \subseteq AppScript

VARIABLES
    phone,         \* how each client stands
    appFd,         \* whose connection each descriptor is
    g_appclients,  \* the slots
    appThread,     \* AppClientMsg of each client
    alive,         \* AppClientAlive
    ackThread,     \* AckClientPro
    g_AckCmdlist,  \* announcements
    adding,        \* cdr_add_ackmsg of each producer
    appScript,     \* what is still to come of it
    handed,        \* history: a slot, or a socket's number, was given to a client while it was being closed
    mixed,         \* history: the slots in whose proSendBuffer two threads packed at once
    due,           \* history: announcements that were linked and not yet taken, until ...
    overlapped     \* history: ... an append met another, or the taking of the last one

appVars == <<phone, appFd, g_appclients, appThread, alive, ackThread, g_AckCmdlist, adding,
             appScript, handed, mixed, due, overlapped>>

Index == 0..(MAX_APP_CLIENT - 1)
AppFd == 1..MaxAppFd
Packet == Reply \cup Producer \cup {"none"}

(* An announcement: whose, and the how many-eth from last.                 *)
Announcement == Producer \X Nat
NoAck == <<"none", 0>>

AppSlot == [status : {"APPCLIENT_IDLE", "APPCLIENT_CONNECTED"}, socket : AppFd \cup {0},
            client : AppClient \cup {"none"}, loginflag : BOOLEAN,
            iOverTimeCnt : 0..OVER_TIME_SEC, proSendBuffer : Packet]

EmptySlot == [status |-> "APPCLIENT_IDLE", socket |-> 0, client |-> "none", loginflag |-> FALSE,
              iOverTimeCnt |-> 0, proSendBuffer |-> "none"]

ThreadState == [at : {"none", "loop", "recv", "parse", "send", "close", "forget"}, index : Index,
                from : AppClient \cup {"none"}, request : Request, reply : Reply \cup {"none"}]

NoThread == [at |-> "none", index |-> 0, from |-> "none", request |-> "short", reply |-> "none"]

AppInit ==
    /\ phone = [c \in AppClient |-> "out"]
    /\ appFd = [n \in AppFd |-> "none"]
    /\ g_appclients = [i \in Index |-> EmptySlot]
    /\ appThread = [c \in AppClient |-> NoThread]
    /\ alive = [at |-> "count", i |-> 0]
    /\ ackThread = [at |-> "wait", i |-> 0, p |-> NoAck]
    /\ g_AckCmdlist = <<>>
    /\ adding = [p \in Producer |-> [at |-> "out", pList |-> NoAck]]
    /\ appScript \in AppScripts
    /\ handed = FALSE
    /\ mixed = {}
    /\ due = <<>>
    /\ overlapped = FALSE

acks == <<ackThread, g_AckCmdlist, adding, due, overlapped>>

-----------------------------------------------------------------------------
(* AppServerListen                                                         *)

Idle == {i \in Index : g_appclients[i].status = "APPCLIENT_IDLE"}
FirstIdle == CHOOSE i \in Idle : \A j \in Idle : i <= j
AppUnused == {n \in AppFd : appFd[n] = "none"}
NewAppFd == CHOOSE n \in AppUnused : \A m \in AppUnused : n <= m

(* Whoever gave slot i up and has not yet closed its socket and said so.   *)
Closing(i) ==
    \/ alive.i = i /\ alive.at \in {"close", "forget"}
    \/ \E c \in AppClient : appThread[c].index = i /\ appThread[c].at \in {"close", "forget"}

(* What an accept now takes is still being closed: the slot, or the number.*)
TooSoon ==
    \/ Idle # {} /\ Closing(FirstIdle)
    \/ \E i \in Index : Closing(i) /\ g_appclients[i].socket = NewAppFd

Connects(c) ==
    /\ c \in appScript.comes /\ phone[c] = "out" /\ AppUnused # {}
    /\ phone' = [phone EXCEPT ![c] = "up"]
    /\ appFd' = [appFd EXCEPT ![NewAppFd] = c]

AppAccept(c) ==
    /\ Idle # {}
    /\ Connects(c)
    /\ g_appclients' = [g_appclients EXCEPT ![FirstIdle] =
          [EmptySlot EXCEPT !.status = "APPCLIENT_CONNECTED", !.socket = NewAppFd, !.client = c]]
    /\ appThread' = [appThread EXCEPT ![c] = [NoThread EXCEPT !.at = "loop", !.index = FirstIdle]]
    /\ handed' = (handed \/ TooSoon)
    /\ UNCHANGED <<alive, mixed, acks, appScript>>

(* No slot.  bAdd is TRUE since the first client (the slots are free then),*)
(* so the connection is neither served nor closed.                         *)
AppUnserved(c) ==
    /\ Idle = {}
    /\ Connects(c)
    /\ handed' = (handed \/ TooSoon)
    /\ UNCHANGED <<g_appclients, appThread, alive, mixed, acks, appScript>>

AppHangUp(c) ==
    /\ c \in appScript.leaves /\ phone[c] = "up"
    /\ phone' = [phone EXCEPT ![c] = "gone"]
    /\ UNCHANGED <<appFd, g_appclients, appThread, alive, handed, mixed, acks, appScript>>

-----------------------------------------------------------------------------
(* AppClientMsg of client c.  The slot is looked at afresh in every step,  *)
(* whosever it is by then.                                                 *)
slot(c) == g_appclients[appThread[c].index]
To(c, at) == appThread' = [appThread EXCEPT ![c].at = at]

(* Whose connection a number names; recv and send fail when it is nobody's.*)
Whose(n) == IF n = 0 THEN "none" ELSE appFd[n]

AppExit(c) ==
    /\ appThread[c].at = "loop" /\ slot(c).status = "APPCLIENT_IDLE"
    /\ appThread' = [appThread EXCEPT ![c] = NoThread]
    /\ UNCHANGED <<phone, appFd, g_appclients, alive, handed, mixed, acks, appScript>>

(* It blocks in recv, on the connection that the socket names now.         *)
AppWait(c) ==
    /\ appThread[c].at = "loop" /\ slot(c).status # "APPCLIENT_IDLE"
    /\ Whose(slot(c).socket) # "none"
    /\ appThread' = [appThread EXCEPT ![c].at = "recv", ![c].from = Whose(slot(c).socket)]
    /\ UNCHANGED <<phone, appFd, g_appclients, alive, handed, mixed, acks, appScript>>

(* A request: parse_app_cmd up to the command.  A request that is whole    *)
(* empties proSendBuffer; one that is accepted resets the count.           *)
AppRecv(c) ==
    /\ appThread[c].at = "recv" /\ phone[appThread[c].from] = "up"
    /\ LET d == appThread[c].from
           i == appThread[c].index
           q == Head(appScript.requests[d])
       IN /\ appScript.requests[d] # <<>>
          /\ appScript' = [appScript EXCEPT !.requests[d] = Tail(@)]
          /\ appThread' = [appThread EXCEPT ![c].request = q, ![c].from = "none",
                             ![c].at = IF q = "short" THEN "loop" ELSE "parse"]
          /\ g_appclients' = [g_appclients EXCEPT
                ![i].proSendBuffer = IF q \in {"short", "crc"} THEN @ ELSE "none",
                ![i].iOverTimeCnt = IF q \in {"short", "crc", "refused"} THEN @ ELSE 0]
          /\ mixed' = IF q \notin {"short", "crc"} /\ ackThread.at = "send" /\ ackThread.i = i
                      THEN mixed \cup {i} ELSE mixed
    /\ UNCHANGED <<phone, appFd, alive, handed, acks>>

(* The handler, app_cmd_..., and the packing of its answer, where there is *)
(* one: a clip that cannot be cut is refused at once.                      *)
Answers(q) ==
    CASE q = "command" -> {"done"}
      [] q = "order" -> {"none", "refused"}
      [] q = "unknown" -> {"none"}
      [] OTHER -> {q}

Packs(c, r) ==
    LET i == appThread[c].index
    IN /\ appThread' = [appThread EXCEPT ![c].at = "send", ![c].reply = r]
       /\ g_appclients' = [g_appclients EXCEPT ![i].proSendBuffer = r,
             ![i].loginflag = CASE appThread[c].request = "login" -> TRUE
                                [] appThread[c].request = "denied" -> FALSE
                                [] OTHER -> @]
       /\ mixed' = IF ackThread.at = "send" /\ ackThread.i = i THEN mixed \cup {i} ELSE mixed

AppHandle(c) ==
    /\ appThread[c].at = "parse"
    /\ \E r \in Answers(appThread[c].request) :
          IF r = "none" THEN To(c, "loop") /\ UNCHANGED <<g_appclients, mixed>>
          ELSE Packs(c, r)
    /\ UNCHANGED <<phone, appFd, alive, handed, acks, appScript>>

(* send_ack_data: whatever proSendBuffer holds, to whomever the socket     *)
(* names.                                                                  *)
AppSend(c) ==
    /\ appThread[c].at = "send"
    /\ appThread' = [appThread EXCEPT ![c].at = "loop", ![c].reply = "none"]
    /\ UNCHANGED <<phone, appFd, g_appclients, alive, handed, mixed, acks, appScript>>

Ended(c) ==
    \/ appThread[c].at = "recv" /\ phone[appThread[c].from] = "gone"
    \/ /\ appThread[c].at = "loop" /\ slot(c).status # "APPCLIENT_IDLE"
       /\ Whose(slot(c).socket) = "none"

(* A bug AppInv must notice: the slot is not given up.                     *)
AppEndStays(c) ==
    /\ Ended(c)
    /\ appThread' = [appThread EXCEPT ![c].at = "close", ![c].from = "none"]
    /\ UNCHANGED <<phone, appFd, g_appclients, alive, handed, mixed, acks, appScript>>

(* recv fails, or the client hung up: the slot is given up ...             *)
AppEnd(c) ==
    /\ Ended(c)
    /\ g_appclients' = [g_appclients EXCEPT ![appThread[c].index].status = "APPCLIENT_IDLE"]
    /\ appThread' = [appThread EXCEPT ![c].at = "close", ![c].from = "none"]
    /\ UNCHANGED <<phone, appFd, alive, handed, mixed, acks, appScript>>

(* ... then closed, ...                                                    *)
Shut(n) == appFd' = IF n = 0 THEN appFd ELSE [appFd EXCEPT ![n] = "none"]
Forgetting(i) == [g_appclients EXCEPT ![i].socket = 0, ![i].iOverTimeCnt = 0]

AppClose(c) ==
    /\ appThread[c].at = "close"
    /\ Shut(slot(c).socket)
    /\ To(c, "forget")
    /\ UNCHANGED <<phone, g_appclients, alive, handed, mixed, acks, appScript>>

(* ... then forgotten.                                                     *)
AppForget(c) ==
    /\ appThread[c].at = "forget"
    /\ g_appclients' = Forgetting(appThread[c].index)
    /\ appThread' = [appThread EXCEPT ![c] = NoThread]
    /\ UNCHANGED <<phone, appFd, alive, handed, mixed, acks, appScript>>

-----------------------------------------------------------------------------
(* AppClientAlive: one sweep over the slots a second.                      *)
NextIndex(i) == (i + 1) % MAX_APP_CLIENT

AliveSkip ==
    /\ alive.at = "count" /\ g_appclients[alive.i].status = "APPCLIENT_IDLE"
    /\ alive' = [alive EXCEPT !.i = NextIndex(@)]
    /\ UNCHANGED <<phone, appFd, g_appclients, appThread, handed, mixed, acks, appScript>>

AliveCount ==
    /\ alive.at = "count" /\ g_appclients[alive.i].status # "APPCLIENT_IDLE"
    /\ g_appclients[alive.i].iOverTimeCnt + 1 < OVER_TIME_SEC
    /\ g_appclients' = [g_appclients EXCEPT ![alive.i].iOverTimeCnt = @ + 1]
    /\ alive' = [alive EXCEPT !.i = NextIndex(@)]
    /\ UNCHANGED <<phone, appFd, appThread, handed, mixed, acks, appScript>>

(* Silent for too long: the slot is given up, closed and forgotten, and    *)
(* its thread is cancelled.                                                *)
AliveExpire ==
    /\ alive.at = "count" /\ g_appclients[alive.i].status # "APPCLIENT_IDLE"
    /\ g_appclients[alive.i].iOverTimeCnt + 1 >= OVER_TIME_SEC
    /\ g_appclients' = [g_appclients EXCEPT ![alive.i].status = "APPCLIENT_IDLE",
                                            ![alive.i].iOverTimeCnt = OVER_TIME_SEC]
    /\ alive' = [alive EXCEPT !.at = "close"]
    /\ UNCHANGED <<phone, appFd, appThread, handed, mixed, acks, appScript>>

AliveClose ==
    /\ alive.at = "close"
    /\ Shut(g_appclients[alive.i].socket)
    /\ alive' = [alive EXCEPT !.at = "forget"]
    /\ UNCHANGED <<phone, g_appclients, appThread, handed, mixed, acks, appScript>>

(* A bug ReplyIsOwn must notice: the thread is not cancelled.              *)
AliveForgetOnly ==
    /\ alive.at = "forget"
    /\ g_appclients' = Forgetting(alive.i)
    /\ alive' = [at |-> "count", i |-> NextIndex(alive.i)]
    /\ UNCHANGED <<phone, appFd, appThread, handed, mixed, acks, appScript>>

AliveForget ==
    /\ alive.at = "forget"
    /\ g_appclients' = Forgetting(alive.i)
    /\ appThread' = [c \in AppClient |->
          IF c = g_appclients[alive.i].client THEN NoThread ELSE appThread[c]]
    /\ alive' = [at |-> "count", i |-> NextIndex(alive.i)]
    /\ UNCHANGED <<phone, appFd, handed, mixed, acks, appScript>>

-----------------------------------------------------------------------------
(* cdr_add_ackmsg: the end of the list is looked for, then a node is put   *)
(* behind it.  pList is the last node, or NoAck when the list was empty.   *)
slots == <<phone, appFd, g_appclients, appThread, alive, handed, mixed>>

Adding(p) == adding[p].at = "link"

Looks(p, last) ==
    /\ adding[p].at = "out" /\ appScript.announced[p] > 0
    /\ adding' = [adding EXCEPT ![p] = [at |-> "link", pList |-> last]]
    /\ overlapped' = (overlapped \/ \E o \in Producer \ {p} : Adding(o))
    /\ due' = IF overlapped' THEN <<>> ELSE due
    /\ UNCHANGED <<slots, ackThread, g_AckCmdlist, appScript>>

(* A bug AnnouncedInOrder must notice: the list is not walked to its end.  *)
AckLookFirst(p) == Looks(p, IF g_AckCmdlist = <<>> THEN NoAck ELSE Head(g_AckCmdlist))

AckLook(p) ==
    Looks(p, IF g_AckCmdlist = <<>> THEN NoAck ELSE g_AckCmdlist[Len(g_AckCmdlist)])

(* A node that has been taken meanwhile is linked to in vain (it is freed, *)
(* or about to be); one that is not the last any more loses what followed. *)
Linked(list, last, m) ==
    IF last = NoAck THEN <<m>>
    ELSE IF \E k \in DOMAIN list : list[k] = last
         THEN SubSeq(list, 1, CHOOSE k \in DOMAIN list : list[k] = last) \o <<m>>
         ELSE list

AckLink(p) ==
    /\ Adding(p)
    /\ LET m == <<p, appScript.announced[p]>>
       IN /\ g_AckCmdlist' = Linked(g_AckCmdlist, adding[p].pList, m)
          /\ due' = IF overlapped THEN <<>> ELSE Append(due, m)
    /\ adding' = [adding EXCEPT ![p] = [at |-> "out", pList |-> NoAck]]
    /\ appScript' = [appScript EXCEPT !.announced[p] = @ - 1]
    /\ UNCHANGED <<slots, ackThread, overlapped>>

-----------------------------------------------------------------------------
(* AckClientPro: takes the first, and sends it to each slot in turn.       *)
AckTake ==
    /\ ackThread.at = "wait" /\ g_AckCmdlist # <<>>
    /\ ackThread' = [at |-> "look", i |-> 0, p |-> Head(g_AckCmdlist)]
    /\ g_AckCmdlist' = Tail(g_AckCmdlist)
    /\ overlapped' = (overlapped \/ /\ Len(g_AckCmdlist) = 1
                                    /\ \E p \in Producer : Adding(p))
    /\ due' = IF overlapped' THEN <<>> ELSE Tail(due)
    /\ UNCHANGED <<slots, adding, appScript>>

AckOn == ackThread' = IF ackThread.i + 1 = MAX_APP_CLIENT
                      THEN [at |-> "wait", i |-> 0, p |-> NoAck]
                      ELSE [ackThread EXCEPT !.at = "look", !.i = @ + 1]

Listens(i) == g_appclients[i].loginflag /\ g_appclients[i].status # "APPCLIENT_IDLE"

AckPass ==
    /\ ackThread.at = "look" /\ ~Listens(ackThread.i)
    /\ AckOn
    /\ UNCHANGED <<slots, g_AckCmdlist, adding, due, overlapped, appScript>>

AckPack ==
    /\ ackThread.at = "look" /\ Listens(ackThread.i)
    /\ g_appclients' = [g_appclients EXCEPT ![ackThread.i].proSendBuffer = ackThread.p[1]]
    /\ ackThread' = [ackThread EXCEPT !.at = "send"]
    /\ mixed' = IF \E c \in AppClient : appThread[c].at = "send" /\ appThread[c].index = ackThread.i
                THEN mixed \cup {ackThread.i} ELSE mixed
    /\ UNCHANGED <<phone, appFd, appThread, alive, handed, g_AckCmdlist, adding, due, overlapped,
                   appScript>>

AckSend ==
    /\ ackThread.at = "send"
    /\ AckOn
    /\ UNCHANGED <<slots, g_AckCmdlist, adding, due, overlapped, appScript>>

-----------------------------------------------------------------------------
AppClientMsg(c) ==
    \/ AppExit(c) \/ AppWait(c) \/ AppRecv(c) \/ AppHandle(c) \/ AppSend(c)
    \/ AppEnd(c) \/ AppClose(c) \/ AppForget(c)

AppClientAlive == AliveSkip \/ AliveCount \/ AliveExpire \/ AliveClose \/ AliveForget
AckClientPro == AckTake \/ AckPass \/ AckPack \/ AckSend

AppNext ==
    \/ \E c \in AppClient : AppAccept(c) \/ AppUnserved(c) \/ AppHangUp(c) \/ AppClientMsg(c)
    \/ AppClientAlive \/ AckClientPro
    \/ \E p \in Producer : AckLook(p) \/ AckLink(p)

AppSpec == AppInit /\ [][AppNext]_appVars

-----------------------------------------------------------------------------
AppTypeOK ==
    /\ phone \in [AppClient -> {"out", "up", "gone"}]
    /\ appFd \in [AppFd -> AppClient \cup {"none"}]
    /\ g_appclients \in [Index -> AppSlot]
    /\ appThread \in [AppClient -> ThreadState]
    /\ alive \in [at : {"count", "close", "forget"}, i : Index]
    /\ ackThread \in [at : {"wait", "look", "send"}, i : Index, p : Announcement \cup {NoAck}]
    /\ g_AckCmdlist \in Seq(Announcement)
    /\ adding \in [Producer -> [at : {"out", "link"}, pList : Announcement \cup {NoAck}]]
    /\ appScript \in AppScript
    /\ handed \in BOOLEAN /\ overlapped \in BOOLEAN
    /\ mixed \subseteq Index
    /\ due \in Seq(Announcement)

(* AppServerListen, AppClientMsg, AppClientAlive: as long as nothing was   *)
(* given to a client while it was being closed, a slot that is in use has  *)
(* its client's own open connection, and the client's thread, and no other *)
(* thread, works for it.                                                   *)
SlotServed ==
    ~handed => \A i \in Index : g_appclients[i].status = "APPCLIENT_CONNECTED" =>
        /\ Whose(g_appclients[i].socket) = g_appclients[i].client
        /\ \A c \in AppClient : appThread[c].at # "none" =>
              (appThread[c].index = i <=> c = g_appclients[i].client)
        /\ appThread[g_appclients[i].client].at \notin {"none", "close", "forget"}

AppInv == AppTypeOK /\ SlotServed

(* send_ack_data: a reply goes to the client that asked, and is the one    *)
(* that was made for it, unless the slot or its socket was given away too  *)
(* soon or an announcement was packed into the same buffer.                *)
ReplyIsOwn ==
    [][~handed => \A c \in AppClient : AppSend(c) =>
          /\ Whose(slot(c).socket) \in {c, "none"}
          /\ slot(c).proSendBuffer = appThread[c].reply \/ appThread[c].index \in mixed]_appVars

(* cdr_add_ackmsg, AckClientPro: announcements are taken in the order they *)
(* were put in and none is lost, as long as no two were being put in at    *)
(* once and the last was not taken while one was put behind it.            *)
AnnouncedInOrder == ~overlapped => g_AckCmdlist = due
=============================================================================
