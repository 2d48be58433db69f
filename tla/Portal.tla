------------------------------- MODULE Portal -------------------------------
(***************************************************************************)
(* Commands from the platform, which come as bags over the serial line     *)
(* (cdr_uart.c, queue_bag.c, cdr_bubiao_analyze.c, cdr_bubiao.c), and the  *)
(* uploads they start and stop (cdr_ftp_process.c).  Every half second one *)
(* bag is taken from a ring, into a global that points into the ring; a    *)
(* thread of its own sleeps, executes it and puts the answer into another  *)
(* ring, which a third thread empties.  g_esBuBaioProcState says whether a *)
(* command is executed, and is set when the thread has slept.  An upload   *)
(* sets it back in the middle, so that it can be stopped.                  *)
(*                                                                         *)
(* Left out: the check code (nothing is refused for it), the words of an   *)
(* answer, a pthread_create that fails, and what a crash does after a      *)
(* handle was freed twice.  The realtime commands are in RtspPush.         *)
(***************************************************************************)
EXTENDS Integers, Sequences, FiniteSets

CONSTANTS
    MAX_BAG_NUM,    \* slots of either ring
    PortalScripts   \* bound: the commands that come, in order, whether the serial line may bring
                    \* them that fast, how often a thread starts over and how many reports of
                    \* progress there are, all together; one script is chosen

(* A command: "plain" is any that is answered once with what it found,     *)
(* "realtime" is answered with a global result, "query" with several bags, *)
(* "area" is a clip to be cut and then uploaded by the cut thread.  An     *)
(* upload is known by its message, channel and serial number.              *)
Command == [kind : {"plain", "realtime", "query", "upload", "area", "stop"},
            id : {"media", "area"}, chn : Nat, serial : Nat]

PortalScript == [commands : Seq(Command), hurry : BOOLEAN, again : Nat, progress : Nat]

ASSUME PortalAssumption ==
    /\ MAX_BAG_NUM \in Nat /\ MAX_BAG_NUM > 1
    /\ PortalScripts \subseteq PortalScript

VARIABLES
    portal,              \* the script, and what is still to come of it
    came,                \* how many of them the serial line brought
    stRecvBagQueue,      \* the rings
    stRetuBagQueue,
    g_sBBMsgArrBag,      \* the slot the global points to
    g_esBuBaioProcState,
    g_KakaAckBag,        \* its ucResult: "failed" or not
    worker,              \* who executes commands or puts answers
    sending,             \* the thread that empties the ring of answers
    cuts,                \* clips that wait for the cut thread
    g_uploadfileList,
    dealt,               \* history: how often each command was executed or refused
    taken,               \* history: the bags taken
    owed,                \* history: the answers put and not yet taken, in order
    hurried,             \* history: the global was changed while a thread would still read it
    opened,              \* history: the state was set back while another thread was busy
    met,                 \* history: the threads that executed a command while another did
    spoilt               \* history: the rings that were full, or were put into by two at once

commands == portal.commands
Bag == 1..Len(commands)
Entry == 0..(MAX_BAG_NUM - 1)
Cutter == 0
Poll == -1
Worker == Bag \cup {Cutter, Poll}
NextEntry(n) == (n + 1) % MAX_BAG_NUM

bags == <<came, stRecvBagQueue, g_sBBMsgArrBag, taken>>
answers == <<stRetuBagQueue, sending, owed>>
uploads == <<cuts, g_uploadfileList>>
results == <<g_KakaAckBag, dealt, met>>
portalVars == <<portal, bags, g_esBuBaioProcState, worker, answers, uploads, results,
                hurried, opened, spoilt>>

Resting == [at |-> "none", bag |-> 0, out |-> "done", more |-> 0, own |-> "ok", door |-> FALSE]
EmptyRing(empty) == [head |-> 0, tail |-> 0, slot |-> [n \in Entry |-> empty]]

PortalInit ==
    /\ portal \in PortalScripts
    /\ came = 0
    /\ stRecvBagQueue = EmptyRing(0)
    /\ stRetuBagQueue = EmptyRing(<<0, "done">>)
    /\ g_sBBMsgArrBag = 0
    /\ g_esBuBaioProcState = "STATE_USER_IDLE"
    /\ g_KakaAckBag = "ok"
    /\ worker = [w \in Worker |-> Resting]
    /\ sending = [at |-> "wait", entry |-> 0, expected |-> <<0, "done">>]
    /\ cuts = <<>>
    /\ g_uploadfileList = <<>>
    /\ dealt = [b \in Bag |-> 0]
    /\ taken = {}
    /\ owed = <<>>
    /\ hurried = FALSE /\ opened = FALSE
    /\ met = {}
    /\ spoilt = {}

-----------------------------------------------------------------------------
(* BagQueueAddData, BagQueueGetData: the ring is never found full.         *)
Filled(ring) == NextEntry(ring.tail) = ring.head

(* A bug AnswersInOrder must notice: the tail moves before the copy.       *)
StoredBehind(ring, x) == [ring EXCEPT !.slot[NextEntry(ring.tail)] = x]

Stored(ring, x) == [ring EXCEPT !.slot[ring.tail] = x]
Advanced(ring) == [ring EXCEPT !.tail = NextEntry(@)]
Dropped(ring) == [ring EXCEPT !.head = NextEntry(@)]
Count(ring) == (ring.tail - ring.head + MAX_BAG_NUM) % MAX_BAG_NUM
Contents(ring) == [k \in 1..Count(ring) |-> ring.slot[(ring.head + k - 1) % MAX_BAG_NUM]]

(* cdr_uart_cb_pro: a bag is complete.  Only this thread puts here.        *)
UartBag ==
    /\ came < Len(commands)
    /\ came' = came + 1
    /\ stRecvBagQueue' = Advanced(Stored(stRecvBagQueue, came'))
    /\ spoilt' = IF Filled(stRecvBagQueue) THEN spoilt \cup {"recv"} ELSE spoilt
    /\ UNCHANGED <<portal, g_sBBMsgArrBag, taken, g_esBuBaioProcState, worker, answers, uploads,
                   results, hurried, opened>>

(* Whoever points at the global and will read it (again).                  *)
WouldRead(b) == worker[b].at \in {"sleep", "handle", "check"}

(* BuBiaoProtoRecvBagHandle: the global is overwritten whoever reads it ...*)
PollTake ==
    /\ worker[Poll].at = "none" /\ stRecvBagQueue.head # stRecvBagQueue.tail
    /\ portal.hurry \/ ~\E b \in Bag : WouldRead(b)
    /\ LET b == stRecvBagQueue.slot[stRecvBagQueue.head]
       IN /\ g_sBBMsgArrBag' = stRecvBagQueue.head
          /\ stRecvBagQueue' = Dropped(stRecvBagQueue)
          /\ worker' = [worker EXCEPT ![Poll] = [Resting EXCEPT !.at = "decide", !.bag = b]]
          /\ taken' = taken \cup {b}
    /\ hurried' = (hurried \/ \E b \in Bag : WouldRead(b))
    /\ UNCHANGED <<portal, came, g_esBuBaioProcState, answers, uploads, results, opened, spoilt>>

(* ... then a thread is started for it ...                                 *)
PollStart ==
    /\ worker[Poll].at = "decide" /\ g_esBuBaioProcState = "STATE_USER_IDLE"
    /\ worker' = [worker EXCEPT ![Poll] = Resting, ![worker[Poll].bag].at = "sleep"]
    /\ UNCHANGED <<portal, bags, g_esBuBaioProcState, answers, uploads, results, hurried,
                   opened, spoilt>>

(* ... or BuBiaoMsgBusyProcess refuses it.  (The length of that answer     *)
(* starts from whatever was on the stack; its words are not modelled.)     *)
PollBusy ==
    /\ worker[Poll].at = "decide" /\ g_esBuBaioProcState # "STATE_USER_IDLE"
    /\ worker' = [worker EXCEPT ![Poll].at = "put", ![Poll].out = "busy"]
    /\ dealt' = [dealt EXCEPT ![worker[Poll].bag] = @ + 1]
    /\ UNCHANGED <<portal, bags, g_esBuBaioProcState, answers, uploads, g_KakaAckBag, met,
                   hurried, opened, spoilt>>

-----------------------------------------------------------------------------
(* An answer is put in two steps, by any worker.                           *)
Put(w) ==
    /\ worker[w].at = "put"
    /\ stRetuBagQueue' = Stored(stRetuBagQueue, <<worker[w].bag, worker[w].out>>)
    /\ worker' = [worker EXCEPT ![w].at = "tail"]
    /\ spoilt' = IF Filled(stRetuBagQueue) \/ \E v \in Worker \ {w} : worker[v].at = "tail"
                 THEN spoilt \cup {"retu"} ELSE spoilt
    /\ UNCHANGED <<portal, bags, g_esBuBaioProcState, sending, owed, uploads, results, hurried,
                   opened>>

(* What the worker does next depends on what it has put.                   *)
AfterPut(w) ==
    CASE worker[w].out = "busy" -> Resting
      [] worker[w].out = "started" -> [worker[w] EXCEPT !.at = "open"]
      [] worker[w].out = "progress" -> [worker[w] EXCEPT !.at = "perform"]
      [] worker[w].out = "part" /\ worker[w].more > 0 ->
            [worker[w] EXCEPT !.at = "put", !.more = @ - 1]
      [] worker[w].out = "done" /\ w = Cutter -> Resting
      [] OTHER -> [worker[w] EXCEPT !.at = "idle"]

Advance(w) ==
    /\ worker[w].at = "tail"
    /\ stRetuBagQueue' = Advanced(stRetuBagQueue)
    /\ worker' = [worker EXCEPT ![w] = AfterPut(w)]
    /\ owed' = IF "retu" \in spoilt THEN <<>> ELSE Append(owed, <<worker[w].bag, worker[w].out>>)
    /\ UNCHANGED <<portal, bags, g_esBuBaioProcState, sending, uploads, results, hurried, opened,
                   spoilt>>

(* BuBiaoProtoRetuBagHandle: a pointer into the ring, then SendDataTo406.  *)
RetuTake ==
    /\ sending.at = "wait" /\ stRetuBagQueue.head # stRetuBagQueue.tail
    /\ sending' = [at |-> "send", entry |-> stRetuBagQueue.head,
                   expected |-> IF "retu" \in spoilt THEN <<0, "done">> ELSE Head(owed)]
    /\ owed' = IF "retu" \in spoilt THEN <<>> ELSE Tail(owed)
    /\ stRetuBagQueue' = Dropped(stRetuBagQueue)
    /\ UNCHANGED <<portal, bags, g_esBuBaioProcState, worker, uploads, results, hurried, opened,
                   spoilt>>

RetuSend ==
    /\ sending.at = "send"
    /\ sending' = [sending EXCEPT !.at = "wait"]
    /\ UNCHANGED <<portal, bags, g_esBuBaioProcState, worker, stRetuBagQueue, owed, uploads,
                   results, hurried, opened, spoilt>>

-----------------------------------------------------------------------------
(* bubiao_msg_process_thread and BuBiaoMsgProcess of the thread started    *)
(* for bag t                                                               *)

(* Between setting the state and setting it back.                          *)
Middle(t) ==
    /\ worker[t].at \in {"handle", "answer", "put", "tail", "open", "idle"}
    /\ ~worker[t].door
Executing(t) == worker[t].at \in {"handle", "answer"}

(* The sleep is over: the head is read from where the global points now.   *)
Wakes(t) ==
    /\ worker[t].at = "sleep"
    /\ worker' = [worker EXCEPT ![t] = [Resting EXCEPT !.at = "handle",
                                           !.bag = stRecvBagQueue.slot[g_sBBMsgArrBag]]]
    /\ hurried' = (hurried \/ \E o \in Bag \ {t} : worker[o].at = "check")
    /\ LET others == {o \in Bag \ {t} : Executing(o)}
       IN met' = IF others = {} THEN met \ {t} ELSE met \cup others \cup {t}
    /\ UNCHANGED <<portal, bags, answers, uploads, dealt, opened, spoilt>>

(* A bug PortalInv must notice: the state is not set.                      *)
WakeUnmarked(t) == Wakes(t) /\ g_KakaAckBag' = "ok" /\ UNCHANGED g_esBuBaioProcState

(* A bug ResultIsOwn must notice: InitAckBag is not called.                *)
WakeFailed(t) ==
    Wakes(t) /\ g_esBuBaioProcState' = "STATE_USER_BUSY" /\ UNCHANGED g_KakaAckBag

(* The state is set, then InitAckBag.                                      *)
Wake(t) ==
    Wakes(t) /\ g_esBuBaioProcState' = "STATE_USER_BUSY" /\ g_KakaAckBag' = "ok"

(* The handler reads the body from where the global points by then; which  *)
(* handler it is was decided by the head.                                  *)
Kind(t) == commands[worker[t].bag].kind
Body == commands[stRecvBagQueue.slot[g_sBBMsgArrBag]]

Deals(t, kind) ==
    /\ worker[t].at = "handle" /\ Kind(t) = kind
    /\ dealt' = [dealt EXCEPT ![worker[t].bag] = @ + 1]
    /\ UNCHANGED <<portal, bags, g_esBuBaioProcState, answers, met, hurried,
                   opened, spoilt>>

Goes(t, at, out) == worker' = [worker EXCEPT ![t].at = at, ![t].out = out]

HandlePlain(t) ==
    /\ Deals(t, "plain")
    /\ Goes(t, "put", "done")
    /\ UNCHANGED <<g_KakaAckBag, cuts, g_uploadfileList>>

(* A failure is noted in the global result; success is what it starts with.*)
HandleRealtime(t) ==
    /\ Deals(t, "realtime")
    /\ \E r \in {"ok", "failed"} :
          /\ worker' = [worker EXCEPT ![t].at = "answer", ![t].own = r]
          /\ g_KakaAckBag' = IF r = "failed" THEN r ELSE g_KakaAckBag
    /\ UNCHANGED <<cuts, g_uploadfileList>>

(* GetRealTimeMediaMsgBodyArr reads it.                                    *)
RealtimeAnswer(t) ==
    /\ worker[t].at = "answer"
    /\ Goes(t, "put", "done")
    /\ UNCHANGED <<portal, bags, g_esBuBaioProcState, answers, uploads, results, hurried,
                   opened, spoilt>>

(* SearchMediaProcessCore puts the bags; nothing else is answered.         *)
HandleQuery(t) ==
    /\ Deals(t, "query")
    /\ \E n \in {0, 1} : worker' = [worker EXCEPT ![t].at = "put", ![t].out = "part", ![t].more = n]
    /\ UNCHANGED <<g_KakaAckBag, cuts, g_uploadfileList>>

(* cdr_read_mp4_ex takes the order for the cut thread, or refuses it and   *)
(* that is the answer.                                                     *)
HandleArea(t) ==
    /\ Deals(t, "area")
    /\ \/ /\ cuts' = Append(cuts, worker[t].bag)
          /\ Goes(t, "idle", "done")
       \/ /\ cuts' = cuts
          /\ Goes(t, "put", "done")
    /\ UNCHANGED <<g_KakaAckBag, g_uploadfileList>>

(* The work is done: the state is set back, whoever else is busy.          *)
SetIdle(w) ==
    /\ g_esBuBaioProcState' = "STATE_USER_IDLE"
    /\ opened' = (opened \/ \E o \in Bag \ {w} : Middle(o))

(* A bug DealtWithOnce must notice: the state is not set back.             *)
IdlesNot(t) ==
    /\ worker[t].at = "idle"
    /\ UNCHANGED <<g_esBuBaioProcState, opened>>
    /\ worker' = [worker EXCEPT ![t].at = "check"]
    /\ UNCHANGED <<portal, bags, answers, uploads, results, hurried, spoilt>>

Idles(t) ==
    /\ worker[t].at = "idle"
    /\ SetIdle(t)
    /\ worker' = [worker EXCEPT ![t].at = "check"]
    /\ UNCHANGED <<portal, bags, answers, uploads, results, hurried, spoilt>>

(* The thread ends ...                                                     *)
Ends(t) ==
    /\ worker[t].at = "check" /\ g_esBuBaioProcState = "STATE_USER_IDLE"
    /\ worker' = [worker EXCEPT ![t] = Resting]
    /\ UNCHANGED <<portal, bags, g_esBuBaioProcState, answers, uploads, results, hurried,
                   opened, spoilt>>

(* ... or starts over, when it finds the state set by another.             *)
Again(t) ==
    /\ worker[t].at = "check" /\ g_esBuBaioProcState # "STATE_USER_IDLE"
    /\ portal.again > 0
    /\ portal' = [portal EXCEPT !.again = @ - 1]
    /\ worker' = [worker EXCEPT ![t] = [Resting EXCEPT !.at = "sleep"]]
    /\ UNCHANGED <<bags, g_esBuBaioProcState, answers, uploads, results, hurried, opened,
                   spoilt>>

-----------------------------------------------------------------------------
(* cdr_ftp_upload, by a command's thread or by the cut thread.  The item   *)
(* it lists has the message and the serial number of its command; the      *)
(* channel of an area upload is not filled in.                             *)
Item(w) == [by |-> w, id |-> commands[worker[w].bag].id,
            serial |-> commands[worker[w].bag].serial,
            chn |-> IF w = Cutter \/ commands[worker[w].bag].id = "area" THEN 0
                    ELSE commands[worker[w].bag].chn]
uploaditem_eq(a, b) == a.id = b.id /\ a.serial = b.serial /\ a.chn = b.chn
uploaditem_eq_Chnid(a, b) == a.id = b.id /\ a.chn = b.chn

(* The file cannot be opened, or the platform is told.                     *)
HandleUpload(t) ==
    /\ Deals(t, "upload")
    /\ \E o \in {"done", "started"} : Goes(t, "put", o)
    /\ UNCHANGED <<g_KakaAckBag, cuts, g_uploadfileList>>

(* BB_mp4cut_finish                                                        *)
CutFinished ==
    /\ worker[Cutter].at = "none" /\ cuts # <<>>
    /\ cuts' = Tail(cuts)
    /\ \E o \in {"done", "started"} :
          worker' = [worker EXCEPT ![Cutter] =
                        [Resting EXCEPT !.at = "put", !.bag = cuts[1], !.out = o]]
    /\ UNCHANGED <<portal, bags, g_esBuBaioProcState, answers, g_uploadfileList,
                   results, hurried, opened, spoilt>>

UploadOpen(w) ==
    /\ worker[w].at = "open"
    /\ SetIdle(w)
    /\ worker' = [worker EXCEPT ![w].at = "list", ![w].door = TRUE]
    /\ UNCHANGED <<portal, bags, answers, uploads, results, hurried, spoilt>>

UploadList(w) ==
    /\ worker[w].at = "list"
    /\ g_uploadfileList' = <<Item(w)>> \o g_uploadfileList
    /\ worker' = [worker EXCEPT ![w].at = "perform"]
    /\ UNCHANGED <<portal, bags, g_esBuBaioProcState, answers, cuts, results,
                   hurried, opened, spoilt>>

(* xferinfo: a tenth is done.  ucPercentage counts the tenths of all       *)
(* uploads together, and is never reset.                                   *)
UploadProgress(w) ==
    /\ worker[w].at = "perform" /\ portal.progress > 0
    /\ portal' = [portal EXCEPT !.progress = @ - 1]
    /\ Goes(w, "put", "progress")
    /\ UNCHANGED <<bags, g_esBuBaioProcState, answers, cuts, g_uploadfileList, results,
                   hurried, opened, spoilt>>

(* The list without some of its places: the others, in their order.        *)
Without(gone) ==
    LET kept == DOMAIN g_uploadfileList \ gone
    IN \E place \in [1..Cardinality(kept) -> kept] :
          /\ \A j, k \in DOMAIN place : j < k => place[j] < place[k]
          /\ g_uploadfileList' = [k \in DOMAIN place |-> g_uploadfileList[place[k]]]

(* remove_data: the places that compare equal go, that of the item         *)
(* searched for (own, if it is listed still) among them.  The item is freed*)
(* with its place, and whether those behind it compare equal to what was   *)
(* freed is undefined.                                                     *)
Removed(own, equal) ==
    \E gone \in SUBSET equal :
        /\ \A k \in equal : (\E p \in own : k <= p) => k \in gone
        /\ Without(gone)

Items == {g_uploadfileList[k] : k \in DOMAIN g_uploadfileList}
Places(S) == {k \in DOMAIN g_uploadfileList : g_uploadfileList[k] \in S}

(* A bug UploadFindsItself must notice: the item of an upload that failed  *)
(* is left in the list.                                                    *)
UploadEndKeeps(w) ==
    /\ worker[w].at = "perform"
    /\ UNCHANGED g_uploadfileList
    /\ Goes(w, "put", "done")
    /\ UNCHANGED <<portal, bags, g_esBuBaioProcState, answers, cuts, results,
                   hurried, opened, spoilt>>

(* curl_easy_perform is over, one way or the other.                        *)
UploadEnd(w) ==
    /\ worker[w].at = "perform"
    /\ Removed(Places({Item(w)}), Places({x \in Items : uploaditem_eq(x, Item(w))}))
    /\ Goes(w, "put", "done")
    /\ UNCHANGED <<portal, bags, g_esBuBaioProcState, answers, cuts, results,
                   hurried, opened, spoilt>>

(* cdr_stop_ftp_upload_ex_ucChnID: the first that fits is taken from under *)
(* curl_easy_perform; the others that fit may go on unlisted.              *)
Stopped ==
    [id |-> Body.id, chn |-> IF Body.id = "area" THEN 0 ELSE Body.chn]

HandleStop(t) ==
    /\ Deals(t, "stop")
    /\ LET fits == Places({x \in Items : uploaditem_eq_Chnid(x, Stopped)})
       IN IF fits = {} THEN UNCHANGED g_uploadfileList
          ELSE Removed({k \in fits : \A j \in fits : k <= j}, fits)
    /\ Goes(t, "put", "done")
    /\ UNCHANGED <<g_KakaAckBag, cuts>>

-----------------------------------------------------------------------------
Handle(t) == HandlePlain(t) \/ HandleRealtime(t) \/ HandleQuery(t) \/ HandleArea(t)
             \/ HandleUpload(t) \/ HandleStop(t)
Process(t) == Wake(t) \/ Handle(t) \/ RealtimeAnswer(t) \/ Idles(t) \/ Ends(t) \/ Again(t)
Upload(w) == UploadOpen(w) \/ UploadList(w) \/ UploadProgress(w) \/ UploadEnd(w)

PortalNext ==
    \/ UartBag
    \/ PollTake \/ PollStart \/ PollBusy
    \/ RetuTake \/ RetuSend
    \/ CutFinished
    \/ \E w \in Worker : Put(w) \/ Advance(w) \/ Upload(w)
    \/ \E t \in Bag : Process(t)

PortalSpec == PortalInit /\ [][PortalNext]_portalVars

-----------------------------------------------------------------------------
Out == {"started", "progress", "part", "done", "busy"}
Ring(S) == [head : Entry, tail : Entry, slot : [Entry -> S]]

PortalTypeOK ==
    /\ portal \in PortalScript
    /\ came \in 0..Len(commands)
    /\ stRecvBagQueue \in Ring(Bag \cup {0})
    /\ stRetuBagQueue \in Ring((Bag \cup {0}) \X Out)
    /\ g_sBBMsgArrBag \in Entry
    /\ g_esBuBaioProcState \in {"STATE_USER_IDLE", "STATE_USER_BUSY"}
    /\ g_KakaAckBag \in {"ok", "failed"}
    /\ worker \in [Worker -> [at : {"none", "decide", "sleep", "handle", "answer", "put", "tail",
                                    "open", "list", "perform", "idle", "check"},
                              bag : Bag \cup {0}, out : Out, more : {0, 1},
                              own : {"ok", "failed"}, door : BOOLEAN]]
    /\ sending \in [at : {"wait", "send"}, entry : Entry, expected : (Bag \cup {0}) \X Out]
    /\ cuts \in Seq(Bag)
    /\ dealt \in [Bag -> Nat]
    /\ taken \subseteq Bag
    /\ owed \in Seq((Bag \cup {0}) \X Out)
    /\ hurried \in BOOLEAN /\ opened \in BOOLEAN
    /\ met \subseteq Bag
    /\ spoilt \subseteq {"recv", "retu"}

(* g_esBuBaioProcState: while it says busy, a thread has yet to set it     *)
(* back; two are between setting it and setting it back only after a bag   *)
(* was taken before a thread had read the last, or after an upload or an   *)
(* other thread set it back in the middle of a command.                    *)
BusyHeld ==
    /\ g_esBuBaioProcState = "STATE_USER_BUSY" => \E t \in Bag : Middle(t)
    /\ ~hurried /\ ~opened => \A s, t \in Bag : Middle(s) /\ Middle(t) => s = t

PortalInv == PortalTypeOK /\ BusyHeld

(* BuBiaoProtoRecvBagHandle, bubiao_msg_process_thread: every bag that is  *)
(* taken is executed or refused once, and none twice, as long as no bag    *)
(* was taken while a thread had yet to read the global or to look at the   *)
(* state, and the ring was never full.                                     *)
Pending(b) ==
    \/ worker[Poll].at = "decide" /\ worker[Poll].bag = b
    \/ worker[b].at \in {"sleep", "handle"}

DealtWithOnce ==
    ~hurried /\ "recv" \notin spoilt =>
        \A b \in Bag : dealt[b] = IF b \in taken /\ ~Pending(b) THEN 1 ELSE 0

(* BagQueueAddData, BagQueueGetData: answers leave in the order they were  *)
(* put in and none is lost or replaced, as long as the ring was never full *)
(* and no two were being put in at once.                                   *)
AnswersInOrder ==
    "retu" \notin spoilt =>
        /\ Contents(stRetuBagQueue) = owed
        /\ sending.at = "send" => stRetuBagQueue.slot[sending.entry] = sending.expected

(* GetRealTimeMediaMsgBodyArr: a realtime command is answered with its own *)
(* result, unless another was executed meanwhile.                          *)
ResultIsOwn ==
    [][\A t \in Bag : RealtimeAnswer(t) => g_KakaAckBag = worker[t].own \/ t \in met]_portalVars

(* cdr_ftp_upload, cdr_stop_ftp_upload_ex_ucChnID: what is listed is being *)
(* uploaded; and an upload is listed until it ends, unless its channel was *)
(* stopped or its serial number came twice, as long as every command was   *)
(* read by the thread it was started for (as in DealtWithOnce).            *)
Uploading(w) == worker[w].at = "perform" \/ worker[w].out = "progress"
StoppedOnce(x) ==
    \E b \in Bag : /\ commands[b].kind = "stop" /\ dealt[b] > 0
                   /\ commands[b].id = x.id /\ (x.id = "area" \/ commands[b].chn = x.chn)
CameTwice(x) ==
    \/ \E b \in Bag : dealt[b] > 1
    \/ \E b, c \in Bag : b # c /\ dealt[b] > 0 /\ dealt[c] > 0
                         /\ \A k \in {b, c} : commands[k].id = x.id /\ commands[k].serial = x.serial

UploadFindsItself ==
    /\ \A x \in Items : Uploading(x.by) /\ Item(x.by) = x
    /\ ~hurried /\ "recv" \notin spoilt => \A w \in Worker : Uploading(w) =>
          Item(w) \in Items \/ StoppedOnce(Item(w)) \/ CameTwice(Item(w))
=============================================================================
