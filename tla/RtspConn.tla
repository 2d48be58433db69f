------------------------------ MODULE RtspConn ------------------------------
(***************************************************************************)
(* The connections of the RTSP server (librtsp).  One thread accepts       *)
(* clients and fills a free slot of rtsp[]; another waits for its signal,  *)
(* marks a free slot used and starts two threads for it: a reader, which   *)
(* answers requests, and an init thread, which waits on rtspd_lock until   *)
(* PLAY and then opens the sockets for media and starts an RTCP thread.    *)
(* Accepting a client has three steps: the slot is looked for, it is       *)
(* filled, and the signal is given; the callback may run between any two.  *)
(* Every thread that meets a dead connection clears the slot               *)
(* (rtsp_tcp_para_clear): it closes the slot's descriptors and sets        *)
(* is_sending_data to 0.  Only the reader gives the slot back, so the      *)
(* other threads of a client may outlive it and act on the next client's.  *)
(*                                                                         *)
(* The video and the audio descriptor of a transport are one here.  A      *)
(* slot remembers with a descriptor what it was when it was stored, so     *)
(* that a close of something else can be told.                             *)
(***************************************************************************)
EXTENDS Integers, Sequences, FiniteSets

CONSTANTS
    Client,      \* clients, each of which connects once
    MAX_CONN,    \* slots
    MaxFd,       \* bound: descriptors
    MaxPosts,    \* bound: posts of rtspd_lock that are counted
    Scripts      \* bound: the clients that come and that hang up, the requests each sends,
                 \* and how many mishaps there are (malformed requests, sockets that cannot be
                 \* had, frames a client is too slow for, wake-ups without a signal); one is
                 \* chosen

(* A request as far as the slots can tell.  "none" is an empty buffer;     *)
(* "query" is OPTIONS and DESCRIBE, "other" any other word.                *)
Method == {"query", "setup_udp", "setup_tcp", "play", "teardown", "other"}

Script == [comes : SUBSET Client, leaves : SUBSET Client, requests : [Client -> Seq(Method)],
           mishaps : Nat]

ASSUME ConnAssumption ==
    /\ "none" \notin Client
    /\ {MAX_CONN, MaxFd, MaxPosts} \subseteq Nat \ {0}
    /\ Scripts \subseteq Script

(* MaxPosts hides no post an init thread can wait for: a client has one,   *)
(* and so has a wake-up without a signal.                                  *)
ASSUME PostsAssumption ==
    IsFiniteSet(Client) /\ \A t \in Scripts : Cardinality(Client) + t.mishaps <= MaxPosts

VARIABLES
    peer,        \* how each client stands
    owner,       \* what each descriptor is, the kernel's table
    rtsp,        \* the slots
    accept,      \* how far tcp_accept is with which connection and slot
    picked,      \* the slot tcp_accept filled last, until it is taken
    callback,    \* the place of the thread that starts threads (rtsp_callback)
    chn,         \* the slot it took, until both threads are started
    reader,      \* the place of each slot's reader (vd_rtsp_proc)
    init,        \* how many init threads of a slot are where (rtp_rtcp_init)
    rtcp,        \* how many RTCP threads of a slot are where
    clear,       \* who holds rtspd_semop_sending_data to clear which slot, and what it closes next
    script,      \* what is still to come of it
    raced,       \* the two threads that place a client met another thread half way
    interleaved  \* a client's connection carried media

place == <<accept, picked, callback, chn, raced>>
connVars == <<peer, owner, rtsp, place, reader, init, rtcp, clear, script, interleaved>>

Conn == 0..(MAX_CONN - 1)
NoSlot == MAX_CONN
Fd == 1..MaxFd
Transport == {"udp", "tcp"}
Field == {"rtp_fd", "rtcp_fd", "cli_fd"}

(* A descriptor is a client's connection, or a UDP socket towards it.      *)
Socket == {"cli", "rtp", "rtcp"} \X (Client \cup {"none"})
NoRef == [fd |-> 0, sock |-> <<"cli", "none">>]
Ref == [fd : Fd, sock : Socket] \cup {NoRef}

Slot == [conn_status : {0, 1}, cli_fd : Ref, rtp_fd : Ref, rtcp_fd : Ref,
         host : Client \cup {"none"}, rtp_tcp_mode : Transport,
         channel : BOOLEAN, port : BOOLEAN,
         is_sending_data : BOOLEAN, rtspd_status : {"play", "other"},
         rtspd_lock : 0..MaxPosts, in_buffer : Method \cup {"none"}]

NoAccept == [at |-> "idle", ref |-> NoRef, slot |-> 0]
Nobody == [by |-> "nobody", slot |-> 0, next |-> "rtp_fd"]

ConnInit ==
    /\ peer = [c \in Client |-> "out"]
    /\ owner = [n \in Fd |-> <<"closed", "none">>]
    /\ rtsp = [s \in Conn |->
                 [conn_status |-> 0, cli_fd |-> NoRef, rtp_fd |-> NoRef, rtcp_fd |-> NoRef,
                  host |-> "none", rtp_tcp_mode |-> "udp", channel |-> FALSE, port |-> FALSE,
                  is_sending_data |-> FALSE, rtspd_status |-> "other", rtspd_lock |-> 0,
                  in_buffer |-> "none"]]
    /\ accept = NoAccept /\ picked = NoSlot
    /\ callback = "loop" /\ chn = 0
    /\ reader = [s \in Conn |-> "none"]
    /\ init = [s \in Conn |-> [wait |-> 0, send |-> 0, rtcp |-> 0]]
    /\ rtcp = [s \in Conn |-> [k \in Transport |-> [loop |-> 0, send |-> 0]]]
    /\ clear = Nobody
    /\ script \in Scripts
    /\ raced = FALSE
    /\ interleaved = FALSE

-----------------------------------------------------------------------------
(* The kernel: descriptors are handed out lowest first.                    *)
Unused == {n \in Fd : owner[n][1] = "closed"}
NewFd == CHOOSE n \in Unused : \A m \in Unused : n <= m

(* The other end of what a number names by now can still be written to.    *)
Reaches(r) ==
    /\ r.fd # 0
    /\ owner[r.fd][1] # "closed"
    /\ owner[r.fd][2] # "none"
    /\ peer[owner[r.fd][2]] \in {"up", "fin"}

Post(n) == IF n < MaxPosts THEN n + 1 ELSE n

FreeSlots == {s \in Conn : rtsp[s].conn_status = 0}
FirstFree == CHOOSE s \in FreeSlots : \A t \in FreeSlots : s <= t
IsFirstFree(s) == s \in FreeSlots /\ \A t \in FreeSlots : s <= t

(* The clients: they connect, they hang up, and the network takes note.    *)
HangUp(c) ==
    /\ c \in script.leaves /\ peer[c] = "up"
    /\ peer' = [peer EXCEPT ![c] = "fin"]
    /\ UNCHANGED <<owner, rtsp, place, reader, init, rtcp, clear, script, interleaved>>

Reset(c) ==
    /\ peer[c] = "fin"
    /\ peer' = [peer EXCEPT ![c] = "reset"]
    /\ UNCHANGED <<owner, rtsp, place, reader, init, rtcp, clear, script, interleaved>>

-----------------------------------------------------------------------------
(* tcp_accept.  The slot is looked for without a lock and is not marked,   *)
(* and nobody remembers the signal when the callback does not wait.        *)
AcceptRefused(c) ==
    /\ accept.at = "idle"
    /\ c \in script.comes /\ peer[c] = "out" /\ FreeSlots = {} /\ Unused # {}
    /\ peer' = [peer EXCEPT ![c] = "up"]
    /\ UNCHANGED <<owner, rtsp, place, reader, init, rtcp, clear, script, interleaved>>

(* accept and get_free_conn_status.                                        *)
AcceptLook(c) ==
    /\ accept.at = "idle"
    /\ c \in script.comes /\ peer[c] = "out" /\ FreeSlots # {} /\ Unused # {}
    /\ peer' = [peer EXCEPT ![c] = "up"]
    /\ owner' = [owner EXCEPT ![NewFd] = <<"cli", c>>]
    /\ accept' = [at |-> "fill", ref |-> [fd |-> NewFd, sock |-> <<"cli", c>>], slot |-> FirstFree]
    /\ UNCHANGED <<rtsp, picked, callback, chn, raced, reader, init, rtcp, clear,
                   script, interleaved>>

(* The slot is filled, whatever became of it since.                        *)
AcceptFill ==
    /\ accept.at = "fill"
    /\ rtsp' = [rtsp EXCEPT
          ![accept.slot].cli_fd = accept.ref, ![accept.slot].host = accept.ref.sock[2],
          ![accept.slot].channel = FALSE, ![accept.slot].port = FALSE,
          ![accept.slot].rtspd_lock = 0, ![accept.slot].in_buffer = "none"]
    /\ accept' = [at |-> "signal", ref |-> NoRef, slot |-> accept.slot]
    /\ picked' = accept.slot
    /\ raced' = (raced \/ picked # NoSlot \/ ~IsFirstFree(accept.slot))
    /\ UNCHANGED <<peer, owner, callback, chn, reader, init, rtcp, clear, script, interleaved>>

(* pthread_cond_signal: it wakes the callback if that waits, even if the   *)
(* slot has been taken already.                                            *)
AcceptSignal ==
    /\ accept.at = "signal"
    /\ accept' = NoAccept
    /\ callback' = IF callback # "wait" THEN callback
                   ELSE IF picked = NoSlot THEN "stirred" ELSE "woken"
    /\ raced' = (raced \/ (picked # NoSlot /\ callback \in {"loop", "spawn"}))
    /\ UNCHANGED <<peer, owner, rtsp, picked, chn, reader, init, rtcp, clear, script, interleaved>>

-----------------------------------------------------------------------------
(* Something fails that need not.                                          *)
Mishap == script.mishaps > 0 /\ script' = [script EXCEPT !.mishaps = @ - 1]

(* rtsp_callback: pthread_cond_wait without a condition to look at again,  *)
(* which may also return without a signal.                                 *)
CallbackWait ==
    /\ callback = "loop"
    /\ callback' = "wait"
    /\ UNCHANGED <<peer, owner, rtsp, accept, picked, chn, raced, reader, init, rtcp, clear,
                   script, interleaved>>

CallbackStir ==
    /\ callback = "wait" /\ Mishap
    /\ callback' = "stirred"
    /\ UNCHANGED <<peer, owner, rtsp, accept, picked, chn, raced, reader, init, rtcp, clear,
                   interleaved>>

(* A bug ServedUnlessRaced must notice: the slot is not marked used.       *)
TakeUnmarked ==
    /\ callback \in {"woken", "stirred"} /\ FreeSlots # {}
    /\ reader' = [reader EXCEPT ![FirstFree] = "read"]
    /\ callback' = "spawn" /\ chn' = FirstFree /\ picked' = NoSlot
    /\ UNCHANGED <<peer, owner, rtsp, accept, raced, init, rtcp, clear, script, interleaved>>

(* rtspd_freechn takes the first free slot; rtsp_proc starts its reader.   *)
CallbackTake ==
    /\ callback \in {"woken", "stirred"} /\ FreeSlots # {}
    /\ rtsp' = [rtsp EXCEPT ![FirstFree].conn_status = 1]
    /\ reader' = [reader EXCEPT ![FirstFree] = "read"]
    /\ callback' = "spawn" /\ chn' = FirstFree /\ picked' = NoSlot
    /\ UNCHANGED <<peer, owner, accept, raced, init, rtcp, clear, script, interleaved>>

(* There is none: rtsp_proc and rtp_rtcp_proc use -1 as an index, and      *)
(* nothing can be said of what the program does then.                      *)
CallbackWild ==
    /\ callback \in {"woken", "stirred"} /\ FreeSlots = {}
    /\ callback' = "wild"
    /\ UNCHANGED <<peer, owner, rtsp, accept, picked, chn, raced, reader, init, rtcp, clear,
                   script, interleaved>>

(* rtp_rtcp_proc starts the init thread.                                   *)
CallbackSpawn ==
    /\ callback = "spawn"
    /\ init' = [init EXCEPT ![chn].wait = @ + 1]
    /\ callback' = "loop" /\ chn' = 0
    /\ UNCHANGED <<peer, owner, rtsp, accept, picked, raced, reader, rtcp, clear,
                   script, interleaved>>

-----------------------------------------------------------------------------
(* rtsp_tcp_para_clear of slot s, by one thread at a time.  The channels   *)
(* and the transport are reset first.                                      *)
Begin(s, who) ==
    /\ clear = Nobody
    /\ clear' = [by |-> who, slot |-> s, next |-> "rtp_fd"]

Clearing(s) == [rtsp EXCEPT ![s].channel = FALSE, ![s].rtp_tcp_mode = "udp"]

(* close, when the slot has a descriptor; closing a number that is not     *)
(* open changes nothing.                                                   *)
Closed(r) == IF r.fd = 0 THEN owner ELSE [owner EXCEPT ![r.fd] = <<"closed", "none">>]

(* A bug OwnClose must notice: the number stays after close.               *)
CloseKeeps ==
    /\ clear.by # "nobody" /\ clear.next # "cli_fd"
    /\ owner' = Closed(rtsp[clear.slot][clear.next])
    /\ rtsp' = rtsp
    /\ clear' = [clear EXCEPT !.next = IF @ = "rtp_fd" THEN "rtcp_fd" ELSE "cli_fd"]
    /\ UNCHANGED <<peer, place, reader, init, rtcp, script, interleaved>>

(* rtp_free, rtcp_free.                                                    *)
CloseMedia ==
    /\ clear.by # "nobody" /\ clear.next # "cli_fd"
    /\ owner' = Closed(rtsp[clear.slot][clear.next])
    /\ rtsp' = [rtsp EXCEPT ![clear.slot][clear.next] = NoRef]
    /\ clear' = [clear EXCEPT !.next = IF @ = "rtp_fd" THEN "rtcp_fd" ELSE "cli_fd"]
    /\ UNCHANGED <<peer, place, reader, init, rtcp, script, interleaved>>

(* rtsp_clifree, is_sending_data and the semaphore.  The reader then posts *)
(* rtspd_lock, unless it quits for TEARDOWN, and gives the slot back.      *)
(* Freed when a later slot is filled and not yet taken, the slot will be   *)
(* taken in its place.  (Its buffer is read again only after an accept  *)
(* has cleared it.)                                                        *)
CloseClient ==
    /\ clear.by # "nobody" /\ clear.next = "cli_fd"
    /\ clear' = Nobody
    /\ LET s == clear.slot
           leaves == clear.by = "reader"
           old == rtsp[s]
       IN /\ owner' = Closed(old.cli_fd)
          /\ rtsp' = [rtsp EXCEPT
                ![s].cli_fd = NoRef, ![s].is_sending_data = FALSE,
                ![s].rtspd_lock = IF reader[s] = "leave" THEN Post(old.rtspd_lock)
                                  ELSE old.rtspd_lock,
                ![s].conn_status = IF leaves THEN 0 ELSE old.conn_status,
                ![s].in_buffer = IF leaves THEN "none" ELSE old.in_buffer]
          /\ reader' = IF leaves THEN [reader EXCEPT ![s] = "none"] ELSE reader
          /\ raced' = (raced \/ (leaves /\ picked # NoSlot /\ s < picked))
          /\ rtcp' = IF clear.by \in Transport
                     THEN [rtcp EXCEPT ![s][clear.by].loop = @ + 1] ELSE rtcp
    /\ UNCHANGED <<peer, accept, picked, callback, chn, init, script, interleaved>>

-----------------------------------------------------------------------------
(* vd_rtsp_proc: tcp_read                                                  *)

(* A request came.                                                         *)
Read(s) ==
    /\ reader[s] = "read" /\ Reaches(rtsp[s].cli_fd)
    /\ LET c == owner[rtsp[s].cli_fd.fd][2]
       IN /\ peer[c] = "up" /\ script.requests[c] # <<>>
          /\ script' = [script EXCEPT !.requests[c] = Tail(@)]
          /\ rtsp' = [rtsp EXCEPT ![s].in_buffer = Head(script.requests[c])]
    /\ reader' = [reader EXCEPT ![s] = "match"]
    /\ UNCHANGED <<peer, owner, place, init, rtcp, clear, interleaved>>

(* The client hung up: zero bytes, which is no error, and the buffer still *)
(* holds the request before.                                               *)
ReadEnd(s) ==
    /\ reader[s] = "read" /\ rtsp[s].cli_fd.fd # 0
    /\ owner[rtsp[s].cli_fd.fd][1] = "cli"
    /\ peer[owner[rtsp[s].cli_fd.fd][2]] \in {"fin", "reset"}
    /\ reader' = [reader EXCEPT ![s] = "match"]
    /\ UNCHANGED <<peer, owner, rtsp, place, init, rtcp, clear, script, interleaved>>

(* A bug ConnInv must notice: the slot is given back before it is cleared. *)
GiveUpEarly(s, how) ==
    /\ Begin(s, "reader")
    /\ rtsp' = [Clearing(s) EXCEPT ![s].rtspd_status = "other", ![s].conn_status = 0]
    /\ reader' = [reader EXCEPT ![s] = how]
    /\ UNCHANGED <<peer, owner, place, init, rtcp, interleaved>>

(* The reader gives up: rtspd_status, and it begins to clear the slot.     *)
GiveUp(s, how) ==
    /\ Begin(s, "reader")
    /\ rtsp' = [Clearing(s) EXCEPT ![s].rtspd_status = "other"]
    /\ reader' = [reader EXCEPT ![s] = how]
    /\ UNCHANGED <<peer, owner, place, init, rtcp, interleaved>>

(* A bug OnlyTeardownStrands must notice: a read error does not post.      *)
ReadErrorSilent(s) ==
    /\ reader[s] = "read" /\ ~Reaches(rtsp[s].cli_fd)
    /\ UNCHANGED script
    /\ GiveUp(s, "quit")

ReadError(s) ==
    /\ reader[s] = "read" /\ ~Reaches(rtsp[s].cli_fd)
    /\ UNCHANGED script
    /\ GiveUp(s, "leave")

-----------------------------------------------------------------------------
(* vd_rtsp_proc: rtsp_cmd_match                                            *)

(* What an answered request leaves in the slot.                            *)
Answered(r) ==
    CASE r.in_buffer = "setup_udp" -> [r EXCEPT !.rtp_tcp_mode = "udp", !.port = TRUE,
                                                !.rtspd_status = "other"]
      [] r.in_buffer = "setup_tcp" -> [r EXCEPT !.rtp_tcp_mode = "tcp", !.channel = TRUE,
                                                !.rtspd_status = "other"]
      [] r.in_buffer = "play" -> [r EXCEPT !.rtspd_status = "play", !.rtspd_lock = Post(@),
                                           !.conn_status = 1]
      [] OTHER -> [r EXCEPT !.rtspd_status = "other"]

Answer(s) ==
    /\ reader[s] = "match"
    /\ rtsp[s].in_buffer \in {"query", "setup_udp", "setup_tcp", "play"}
    /\ Reaches(rtsp[s].cli_fd)
    /\ rtsp' = [rtsp EXCEPT ![s] = Answered(@)]
    /\ reader' = [reader EXCEPT ![s] = "read"]
    /\ UNCHANGED <<peer, owner, place, init, rtcp, clear, script, interleaved>>

(* The request is malformed or the reply cannot be sent.                   *)
AnswerFails(s) ==
    /\ reader[s] = "match"
    /\ rtsp[s].in_buffer \in {"query", "setup_udp", "setup_tcp", "play"}
    /\ Mishap \/ (~Reaches(rtsp[s].cli_fd) /\ UNCHANGED script)
    /\ GiveUp(s, "leave")

(* TEARDOWN, answered or not: the init thread is not told.                 *)
Teardown(s) ==
    /\ reader[s] = "match" /\ rtsp[s].in_buffer = "teardown"
    /\ UNCHANGED script
    /\ GiveUp(s, "quit")

(* Any other word is passed over while media is sent.                      *)
PassOver(s) ==
    /\ reader[s] = "match" /\ rtsp[s].in_buffer \in {"none", "other"}
    /\ rtsp[s].is_sending_data
    /\ reader' = [reader EXCEPT ![s] = "read"]
    /\ UNCHANGED <<peer, owner, rtsp, place, init, rtcp, clear, script, interleaved>>

NoMatch(s) ==
    /\ reader[s] = "match" /\ rtsp[s].in_buffer \in {"none", "other"}
    /\ ~rtsp[s].is_sending_data
    /\ UNCHANGED script
    /\ GiveUp(s, "leave")

-----------------------------------------------------------------------------
(* rtp_rtcp_init: rtp_init, then rtcp_init                                 *)

(* sem_wait(rtspd_lock).  A thread that an earlier client of the slot left *)
(* here may be woken as well as this client's own (tcp_accept initialises  *)
(* the semaphore again under it).                                          *)
Woken(s) == init[s].wait > 0 /\ rtsp[s].rtspd_lock > 0

(* Not for PLAY: the thread ends.                                          *)
InitEnd(s) ==
    /\ Woken(s) /\ rtsp[s].rtspd_status # "play"
    /\ rtsp' = [rtsp EXCEPT ![s].rtspd_lock = @ - 1]
    /\ init' = [init EXCEPT ![s].wait = @ - 1]
    /\ UNCHANGED <<peer, owner, place, reader, rtcp, clear, script, interleaved>>

(* Over TCP the media goes through the client's connection.                *)
InitTcp(s) ==
    /\ Woken(s) /\ rtsp[s].rtspd_status = "play" /\ rtsp[s].rtp_tcp_mode = "tcp"
    /\ rtsp' = [rtsp EXCEPT ![s].rtspd_lock = @ - 1, ![s].rtp_fd = rtsp[s].cli_fd]
    /\ init' = [init EXCEPT ![s].wait = @ - 1, ![s].send = @ + 1]
    /\ interleaved' = TRUE
    /\ UNCHANGED <<peer, owner, place, reader, rtcp, clear, script>>

InitUdp(s) ==
    /\ Woken(s) /\ rtsp[s].rtspd_status = "play" /\ rtsp[s].rtp_tcp_mode = "udp"
    /\ Unused # {}
    /\ owner' = [owner EXCEPT ![NewFd] = <<"rtp", rtsp[s].host>>]
    /\ rtsp' = [rtsp EXCEPT ![s].rtspd_lock = @ - 1,
                  ![s].rtp_fd = [fd |-> NewFd, sock |-> <<"rtp", rtsp[s].host>>]]
    /\ init' = [init EXCEPT ![s].wait = @ - 1, ![s].send = @ + 1]
    /\ UNCHANGED <<peer, place, reader, rtcp, clear, script, interleaved>>

(* create_vrtp_socket fails: no socket, or one that cannot be bound.       *)
InitUdpFails(s) ==
    /\ Woken(s) /\ rtsp[s].rtspd_status = "play" /\ rtsp[s].rtp_tcp_mode = "udp"
    /\ Mishap
    /\ Begin(s, "init")
    /\ \/ /\ UNCHANGED owner
          /\ rtsp' = [Clearing(s) EXCEPT ![s].rtspd_lock = @ - 1, ![s].rtp_fd = NoRef]
       \/ /\ Unused # {}
          /\ owner' = [owner EXCEPT ![NewFd] = <<"rtp", rtsp[s].host>>]
          /\ rtsp' = [Clearing(s) EXCEPT ![s].rtspd_lock = @ - 1,
                        ![s].rtp_fd = [fd |-> NewFd, sock |-> <<"rtp", rtsp[s].host>>]]
    /\ init' = [init EXCEPT ![s].wait = @ - 1]
    /\ UNCHANGED <<peer, place, reader, rtcp, interleaved>>

(* rtcp_init: is_sending_data, whatever became of the client meanwhile.    *)
InitSending(s) ==
    /\ init[s].send > 0 /\ clear = Nobody
    /\ rtsp' = [rtsp EXCEPT ![s].is_sending_data = TRUE]
    /\ init' = [init EXCEPT ![s].send = @ - 1, ![s].rtcp = @ + 1]
    /\ UNCHANGED <<peer, owner, place, reader, rtcp, clear, script, interleaved>>

InitRtcpTcp(s) ==
    /\ init[s].rtcp > 0 /\ rtsp[s].rtp_tcp_mode = "tcp"
    /\ rtsp' = [rtsp EXCEPT ![s].rtcp_fd = rtsp[s].cli_fd]
    /\ interleaved' = TRUE
    /\ init' = [init EXCEPT ![s].rtcp = @ - 1]
    /\ rtcp' = [rtcp EXCEPT ![s].tcp.loop = @ + 1]
    /\ UNCHANGED <<peer, owner, place, reader, clear, script>>

InitRtcpUdp(s) ==
    /\ init[s].rtcp > 0 /\ rtsp[s].rtp_tcp_mode = "udp"
    /\ Unused # {}
    /\ owner' = [owner EXCEPT ![NewFd] = <<"rtcp", rtsp[s].host>>]
    /\ rtsp' = [rtsp EXCEPT ![s].rtcp_fd = [fd |-> NewFd, sock |-> <<"rtcp", rtsp[s].host>>]]
    /\ init' = [init EXCEPT ![s].rtcp = @ - 1]
    /\ rtcp' = [rtcp EXCEPT ![s].udp.loop = @ + 1]
    /\ UNCHANGED <<peer, place, reader, clear, script, interleaved>>

(* create_vrtcp_socket fails: what it opened is closed at once (rtcp_free),*)
(* and the slot goes on sending without an RTCP thread.                    *)
InitRtcpFails(s) ==
    /\ init[s].rtcp > 0 /\ rtsp[s].rtp_tcp_mode = "udp"
    /\ Mishap
    /\ rtsp' = [rtsp EXCEPT ![s].rtcp_fd = NoRef]
    /\ init' = [init EXCEPT ![s].rtcp = @ - 1]
    /\ UNCHANGED <<peer, owner, place, reader, rtcp, clear, interleaved>>

-----------------------------------------------------------------------------
(* vd_rtcp_send and vd_rtcp_tcp_send of slot s: is_sending_data is looked  *)
(* at, five seconds pass, a report is sent.                                *)
RtcpLook(s, k) ==
    /\ rtcp[s][k].loop > 0 /\ rtsp[s].is_sending_data
    /\ rtcp' = [rtcp EXCEPT ![s][k].loop = @ - 1, ![s][k].send = @ + 1]
    /\ UNCHANGED <<peer, owner, rtsp, place, reader, init, clear, script, interleaved>>

RtcpEnd(s, k) ==
    /\ rtcp[s][k].loop > 0 /\ ~rtsp[s].is_sending_data
    /\ rtcp' = [rtcp EXCEPT ![s][k].loop = @ - 1]
    /\ UNCHANGED <<peer, owner, rtsp, place, reader, init, clear, script, interleaved>>

(* A report goes out, or there is nowhere to send it to.                   *)
HasReport(s, k) == IF k = "tcp" THEN rtsp[s].channel ELSE rtsp[s].port

RtcpSent(s, k) ==
    /\ rtcp[s][k].send > 0
    /\ HasReport(s, k) => Reaches(rtsp[s].rtcp_fd)
    /\ rtcp' = [rtcp EXCEPT ![s][k].loop = @ + 1, ![s][k].send = @ - 1]
    /\ UNCHANGED <<peer, owner, rtsp, place, reader, init, clear, script, interleaved>>

(* It cannot be sent: the slot is cleared, whosever it is by now.          *)
RtcpFails(s, k) ==
    /\ rtcp[s][k].send > 0 /\ HasReport(s, k) /\ ~Reaches(rtsp[s].rtcp_fd)
    /\ Begin(s, k)
    /\ rtsp' = Clearing(s)
    /\ rtcp' = [rtcp EXCEPT ![s][k].send = @ - 1]
    /\ UNCHANGED <<peer, owner, place, reader, init, script, interleaved>>

(* rtp_tcp_write, udp_write: a frame for the slot cannot be sent, or a     *)
(* client is too slow for too long.                                        *)
FrameFails(s) ==
    /\ rtsp[s].is_sending_data
    /\ Mishap \/ (~Reaches(rtsp[s].rtp_fd) /\ UNCHANGED script)
    /\ Begin(s, "media")
    /\ rtsp' = Clearing(s)
    /\ UNCHANGED <<peer, owner, place, reader, init, rtcp, interleaved>>

-----------------------------------------------------------------------------
ReaderStep(s) ==
    \/ Read(s) \/ ReadEnd(s) \/ ReadError(s)
    \/ Answer(s) \/ AnswerFails(s) \/ Teardown(s) \/ PassOver(s) \/ NoMatch(s)

InitStep(s) ==
    \/ InitEnd(s) \/ InitTcp(s) \/ InitUdp(s) \/ InitUdpFails(s)
    \/ InitSending(s) \/ InitRtcpTcp(s) \/ InitRtcpUdp(s) \/ InitRtcpFails(s)

RtcpStep(s, k) == RtcpLook(s, k) \/ RtcpEnd(s, k) \/ RtcpSent(s, k) \/ RtcpFails(s, k)

ClearStep == CloseMedia \/ CloseClient

AcceptStep ==
    \/ \E c \in Client : AcceptRefused(c) \/ AcceptLook(c)
    \/ AcceptFill \/ AcceptSignal

CallbackStep == CallbackWait \/ CallbackStir \/ CallbackTake \/ CallbackWild \/ CallbackSpawn

ConnNext ==
    /\ callback # "wild"
    /\ \/ \E c \in Client : HangUp(c) \/ Reset(c)
       \/ AcceptStep \/ CallbackStep \/ ClearStep
       \/ \E s \in Conn : ReaderStep(s) \/ InitStep(s) \/ FrameFails(s)
       \/ \E s \in Conn, k \in Transport : RtcpStep(s, k)

ConnSpec == ConnInit /\ [][ConnNext]_connVars

-----------------------------------------------------------------------------
TypeOK ==
    /\ peer \in [Client -> {"out", "up", "fin", "reset"}]
    /\ owner \in [Fd -> Socket \cup {<<"closed", "none">>}]
    /\ rtsp \in [Conn -> Slot]
    /\ accept \in [at : {"idle", "fill", "signal"}, ref : Ref, slot : Conn]
    /\ picked \in Conn \cup {NoSlot}
    /\ callback \in {"loop", "wait", "woken", "stirred", "spawn", "wild"} /\ chn \in Conn
    /\ reader \in [Conn -> {"none", "read", "match", "leave", "quit"}]
    /\ init \in [Conn -> [wait : Nat, send : Nat, rtcp : Nat]]
    /\ rtcp \in [Conn -> [Transport -> [loop : Nat, send : Nat]]]
    /\ clear \in [by : {"nobody", "reader", "init", "media"} \cup Transport, slot : Conn, next : Field]
    /\ script \in Script
    /\ raced \in BOOLEAN
    /\ interleaved \in BOOLEAN

(* A slot is marked used exactly while its reader runs, and a reader that  *)
(* leaves is the thread that clears its slot.                              *)
SlotHeld ==
    /\ \A s \in Conn : rtsp[s].conn_status = 1 <=> reader[s] # "none"
    /\ \A s \in Conn : reader[s] \in {"leave", "quit"} => clear.by = "reader" /\ clear.slot = s
    /\ clear.by = "reader" => reader[clear.slot] \in {"leave", "quit"}

ConnInv == TypeOK /\ SlotHeld

(* tcp_accept, rtspd_freechn: every connection that is open is one that is *)
(* being accepted, or belongs to a slot whose reader runs or which the     *)
(* callback will take next; and a callback that was woken for a client     *)
(* finds its slot free.  So it is, wake-ups without a signal included, as  *)
(* long as no slot is filled that is not the first free one or while an    *)
(* earlier client waits for its own, no signal is given while the callback *)
(* is busy, and no slot before the filled one is given back.               *)
ServedUnlessRaced ==
    ~raced =>
        /\ callback = "woken" => picked # NoSlot
        /\ picked # NoSlot =>
            /\ IsFirstFree(picked)
            /\ callback \in {"woken", "stirred"} \/ (accept.at = "signal" /\ accept.slot = picked)
        /\ \A n \in Fd : owner[n][1] = "cli" =>
            \/ accept.at = "fill" /\ accept.ref.fd = n
            \/ \E s \in Conn : /\ rtsp[s].cli_fd = [fd |-> n, sock |-> owner[n]]
                               /\ reader[s] # "none" \/ s = picked

(* rtsp_tcp_para_clear: what is closed is what the slot was given, until a *)
(* client's connection carries its media too, and is closed more than once.*)
OwnClose ==
    [][\A n \in Fd :
         clear.by # "nobody" /\ owner[n][1] # "closed" /\ owner'[n][1] = "closed"
         => LET r == rtsp[clear.slot][clear.next]
            IN r.fd = n /\ (r.sock = owner[n] \/ interleaved)]_connVars

(* How many init threads of a slot wait for a post that is neither there   *)
(* nor will be made by a reader that leaves.                               *)
Waiting(s) == init[s].wait + (IF callback = "spawn" /\ chn = s THEN 1 ELSE 0)
Posts(s) == rtsp[s].rtspd_lock + (IF reader[s] \in {"none", "quit"} THEN 0 ELSE 1)
Stranded(s) == Waiting(s) > Posts(s)

(* rtspd_lock: an init thread is left to wait for ever only by TEARDOWN,   *)
(* or by a client that is given the slot before the thread ran.            *)
OnlyTeardownStrands ==
    [][\A s \in Conn : Stranded(s)' /\ Waiting(s)' - Posts(s)' > Waiting(s) - Posts(s) =>
         \/ reader'[s] = "quit" /\ rtsp[s].in_buffer = "teardown"
         \/ accept.at = "fill" /\ accept'.at # "fill" /\ accept.slot = s]_connVars
=============================================================================
