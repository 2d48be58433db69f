--------------------------- MODULE RtspConnProofs ---------------------------
(***************************************************************************)
(* The RTSP server's slots, for every number of clients, slots and         *)
(* descriptors and every script.  SlotHeld and ServedUnlessRaced are       *)
(* inductive together; OwnClose needs Own: as long as no client's          *)
(* connection carried media, a descriptor a slot remembers is still what   *)
(* it was when the slot got it, and no other slot or field remembers it.   *)
(* Accepting says the same of the connection that is being accepted.       *)
(* OnlyTeardownStrands needs FewWait: a thread that waits for a post was   *)
(* started for a client that came or a wake-up without a signal, so the    *)
(* count of posts never saturates below the threads that wait for one.     *)
(***************************************************************************)
EXTENDS RtspConn, TLAPS, WellFoundedInduction, FiniteSetTheorems

Own ==
    ~interleaved =>
        /\ \A s \in Conn, f \in Field :
              rtsp[s][f].fd # 0 => owner[rtsp[s][f].fd] = rtsp[s][f].sock
        /\ \A s, t \in Conn, f, g \in Field :
              rtsp[s][f].fd # 0 /\ rtsp[s][f].fd = rtsp[t][g].fd => s = t /\ f = g
        /\ accept.at = "fill" =>
              /\ owner[accept.ref.fd] = accept.ref.sock
              /\ \A s \in Conn, f \in Field : rtsp[s][f].fd # accept.ref.fd

Accepting ==
    accept.at = "fill" =>
        /\ accept.ref.fd \in Fd
        /\ accept.ref = [fd |-> accept.ref.fd, sock |-> accept.ref.sock]
        /\ owner[accept.ref.fd][1] = "cli" => owner[accept.ref.fd] = accept.ref.sock

ConnIInv == TypeOK /\ SlotHeld /\ Own /\ Accepting /\ ServedUnlessRaced

-----------------------------------------------------------------------------
(* Least elements.                                                         *)

(* A set of numbers that is not empty has a least one.                     *)
LEMMA LeastNumber ==
    ASSUME NEW T, T \subseteq Nat, T # {}
    PROVE  \E x \in T : \A y \in T : x <= y
<1>1. PICK x \in T : \A y \in T : <<y, x>> \notin OpToRel(<, Nat)
  BY NatLessThanWellFounded, WFMin, Zenon
<1>2. \A y \in T : ~(y < x)
  BY <1>1, Zenon DEF OpToRel
<1> QED BY <1>2

(* get_free_conn_status finds the first free slot when there is one.       *)
LEMMA FirstFreeIs ==
    ASSUME FreeSlots # {}
    PROVE  FirstFree \in FreeSlots /\ FirstFree \in Conn /\ \A t \in FreeSlots : FirstFree <= t
<1>1. FreeSlots \subseteq Nat
  BY ConnAssumption DEF FreeSlots, Conn
<1>2. \E s \in FreeSlots : \A t \in FreeSlots : s <= t
  BY <1>1, LeastNumber
<1>3. FirstFree \in FreeSlots /\ \A t \in FreeSlots : FirstFree <= t
  BY <1>2, Zenon DEF FirstFree
<1> QED BY <1>3 DEF FreeSlots

(* It is the only slot of which that is true.                              *)
LEMMA FirstFreeOnly ==
    ASSUME NEW s \in FreeSlots, \A t \in FreeSlots : s <= t
    PROVE  FirstFree = s
<1>1. FirstFree \in FreeSlots /\ FirstFree <= s
  BY FirstFreeIs
<1>2. s <= FirstFree
  BY <1>1
<1>3. s \in Nat /\ FirstFree \in Nat
  BY <1>1, ConnAssumption DEF FreeSlots, Conn
<1> QED BY <1>1, <1>2, <1>3

(* The kernel's new descriptor was not in use.                             *)
LEMMA NewFdIs ==
    ASSUME Unused # {}
    PROVE  NewFd \in Fd /\ owner[NewFd][1] = "closed"
<1>1. Unused \subseteq Nat
  BY ConnAssumption DEF Unused, Fd
<1>2. \E n \in Unused : \A m \in Unused : n <= m
  BY <1>1, LeastNumber
<1>3. NewFd \in Unused
  BY <1>2, Zenon DEF NewFd
<1> QED BY <1>3 DEF Unused

-----------------------------------------------------------------------------
(* What a descriptor and a slot may be.                                    *)

LEMMA Refs ==
    /\ NoRef \in Ref /\ NoRef.fd = 0
    /\ \A r \in Ref : r.fd \in Fd \cup {0} /\ (r.fd # 0 => r.fd \in Fd /\ r.sock \in Socket)
    /\ \A n \in Fd, k \in Socket : [fd |-> n, sock |-> k] \in Ref
    /\ \A k \in Socket : k[1] # "closed" /\ k # <<"closed", "none">>
    /\ \A k \in {"cli", "rtp", "rtcp"}, c \in Client \cup {"none"} :
          <<k, c>> \in Socket /\ <<k, c>>[1] = k
    /\ <<"closed", "none">>[1] = "closed"
BY ConnAssumption DEF Ref, NoRef, Socket, Fd

LEMMA ConnBasics ==
    /\ 0 \in Conn
    /\ \A s \in Conn : s \in Nat
    /\ \A n \in 0..MaxPosts : Post(n) \in 0..MaxPosts
BY ConnAssumption DEF Conn, Post

(* What the fields of a slot are, and that it is a slot still when one is  *)
(* set.                                                                    *)
LEMMA SlotGet ==
    ASSUME NEW R \in [Conn -> Slot], NEW s \in Conn
    PROVE  /\ R[s].cli_fd \in Ref /\ R[s].rtp_fd \in Ref /\ R[s].rtcp_fd \in Ref
           /\ R[s].host \in Client \cup {"none"} /\ R[s].rtspd_lock \in 0..MaxPosts
           /\ R[s].conn_status \in {0, 1} /\ R[s].in_buffer \in Method \cup {"none"}
BY DEF Slot

LEMMA SlotPut ==
    ASSUME NEW R \in [Conn -> Slot], NEW s \in Conn
    PROVE  /\ \A x \in {0, 1} : [R EXCEPT ![s].conn_status = x] \in [Conn -> Slot]
           /\ \A x \in Ref : [R EXCEPT ![s].cli_fd = x] \in [Conn -> Slot]
           /\ \A x \in Ref : [R EXCEPT ![s].rtp_fd = x] \in [Conn -> Slot]
           /\ \A x \in Ref : [R EXCEPT ![s].rtcp_fd = x] \in [Conn -> Slot]
           /\ \A x \in Client \cup {"none"} : [R EXCEPT ![s].host = x] \in [Conn -> Slot]
           /\ \A x \in Transport : [R EXCEPT ![s].rtp_tcp_mode = x] \in [Conn -> Slot]
           /\ \A x \in BOOLEAN : [R EXCEPT ![s].channel = x] \in [Conn -> Slot]
           /\ \A x \in BOOLEAN : [R EXCEPT ![s].port = x] \in [Conn -> Slot]
           /\ \A x \in BOOLEAN : [R EXCEPT ![s].is_sending_data = x] \in [Conn -> Slot]
           /\ \A x \in {"play", "other"} : [R EXCEPT ![s].rtspd_status = x] \in [Conn -> Slot]
           /\ \A x \in 0..MaxPosts : [R EXCEPT ![s].rtspd_lock = x] \in [Conn -> Slot]
           /\ \A x \in Method \cup {"none"} : [R EXCEPT ![s].in_buffer = x] \in [Conn -> Slot]
BY DEF Slot

(* What a slot keeps when one of its fields is set.                        *)
Kept(R, Q) ==
    \A t \in Conn : /\ Q[t].conn_status = R[t].conn_status
                    /\ Q[t].cli_fd = R[t].cli_fd /\ Q[t].rtp_fd = R[t].rtp_fd
                    /\ Q[t].rtcp_fd = R[t].rtcp_fd

LEMMA SlotKeeps ==
    ASSUME NEW R \in [Conn -> Slot], NEW s \in Conn, NEW x
    PROVE  /\ Kept(R, [R EXCEPT ![s].host = x])
           /\ Kept(R, [R EXCEPT ![s].rtp_tcp_mode = x])
           /\ Kept(R, [R EXCEPT ![s].channel = x])
           /\ Kept(R, [R EXCEPT ![s].port = x])
           /\ Kept(R, [R EXCEPT ![s].is_sending_data = x])
           /\ Kept(R, [R EXCEPT ![s].rtspd_status = x])
           /\ Kept(R, [R EXCEPT ![s].rtspd_lock = x])
           /\ Kept(R, [R EXCEPT ![s].in_buffer = x])
BY DEF Slot, Kept

LEMMA ClearingIs ==
    ASSUME NEW s \in Conn, rtsp \in [Conn -> Slot]
    PROVE  /\ Clearing(s) \in [Conn -> Slot] /\ Kept(rtsp, Clearing(s))
           /\ Clearing(s)[s].rtspd_lock = rtsp[s].rtspd_lock
<1> DEFINE Q == [rtsp EXCEPT ![s].channel = FALSE]
<1>1. Q \in [Conn -> Slot] /\ Kept(rtsp, Q) /\ Q[s].rtspd_lock = rtsp[s].rtspd_lock
  <2>1. Q[s].rtspd_lock = rtsp[s].rtspd_lock
    BY DEF Slot
  <2> QED BY <2>1, SlotPut, SlotKeeps
<1>2. Clearing(s) = [Q EXCEPT ![s].rtp_tcp_mode = "udp"]
  BY DEF Clearing
<1> HIDE DEF Q
<1>3. Clearing(s) \in [Conn -> Slot] /\ Kept(Q, Clearing(s))
  <2>1. "udp" \in Transport
    BY DEF Transport
  <2>2. [Q EXCEPT ![s].rtp_tcp_mode = "udp"] \in [Conn -> Slot]
    BY <1>1, <2>1, SlotPut
  <2>3. Kept(Q, [Q EXCEPT ![s].rtp_tcp_mode = "udp"])
    BY <1>1, SlotKeeps
  <2> QED BY <1>2, <2>2, <2>3
<1>4. Clearing(s)[s].rtspd_lock = Q[s].rtspd_lock
  BY <1>1, <1>2 DEF Slot
<1> QED BY <1>1, <1>3, <1>4 DEF Kept

LEMMA AnsweredPut ==
    ASSUME NEW R \in [Conn -> Slot], NEW s \in Conn
    PROVE  [R EXCEPT ![s] = Answered(@)] \in [Conn -> Slot]
<1> DEFINE r == R[s]
<1>1. r \in Slot
  OBVIOUS
<1>2. Post(r.rtspd_lock) \in 0..MaxPosts
  BY SlotGet, ConnBasics
<1>3. Answered(r) \in Slot
  <2> HIDE DEF r
  <2>1. CASE r.in_buffer = "setup_udp"
    BY <1>1, <2>1 DEF Answered, Slot, Transport
  <2>2. CASE r.in_buffer = "setup_tcp"
    BY <1>1, <2>2 DEF Answered, Slot, Transport
  <2>3. CASE r.in_buffer = "play"
    BY <1>1, <1>2, <2>3 DEF Answered, Slot
  <2>4. CASE r.in_buffer \notin {"setup_udp", "setup_tcp", "play"}
    BY <1>1, <2>4 DEF Answered, Slot
  <2> QED BY <2>1, <2>2, <2>3, <2>4
<1> QED BY <1>3

-----------------------------------------------------------------------------
(* Type correctness of every step.                                         *)

LEMMA ConnNext_TypeOK ==
    ASSUME TypeOK, [ConnNext]_connVars
    PROVE  TypeOK'
<1>peer. peer \in [Client -> {"out", "up", "fin", "reset"}]
  BY DEF TypeOK
<1>owner. owner \in [Fd -> Socket \cup {<<"closed", "none">>}]
  BY DEF TypeOK
<1>rtsp. rtsp \in [Conn -> Slot]
  BY DEF TypeOK
<1>reader. reader \in [Conn -> {"none", "read", "match", "leave", "quit"}]
  BY DEF TypeOK
<1>init. init \in [Conn -> [wait : Nat, send : Nat, rtcp : Nat]]
  BY DEF TypeOK
<1>rtcp. rtcp \in [Conn -> [Transport -> [loop : Nat, send : Nat]]]
  BY DEF TypeOK
<1>clear. clear \in [by : {"nobody", "reader", "init", "media"} \cup Transport, slot : Conn, next : Field]
  BY DEF TypeOK
<1>script. script \in Script
  BY DEF TypeOK
<1>accept. accept \in [at : {"idle", "fill", "signal"}, ref : Ref, slot : Conn]
  BY DEF TypeOK
<1>1. ASSUME NEW c \in Client, HangUp(c)
      PROVE  TypeOK'
  <2>1. peer' \in [Client -> {"out", "up", "fin", "reset"}]
    BY <1>peer, <1>1 DEF HangUp
  <2> QED BY <1>1, <2>1 DEF TypeOK, HangUp, place
<1>2. ASSUME NEW c \in Client, Reset(c)
      PROVE  TypeOK'
  <2>1. peer' \in [Client -> {"out", "up", "fin", "reset"}]
    BY <1>peer, <1>2 DEF Reset
  <2> QED BY <1>2, <2>1 DEF TypeOK, Reset, place
<1>3. ASSUME NEW c \in Client, AcceptRefused(c)
      PROVE  TypeOK'
  <2>1. peer' \in [Client -> {"out", "up", "fin", "reset"}]
    BY <1>peer, <1>3 DEF AcceptRefused
  <2> QED BY <1>3, <2>1 DEF TypeOK, AcceptRefused, place
<1>4. ASSUME NEW c \in Client, AcceptLook(c)
      PROVE  TypeOK'
  <2>1. peer' \in [Client -> {"out", "up", "fin", "reset"}]
    BY <1>peer, <1>4 DEF AcceptLook
  <2>2. NewFd \in Fd /\ <<"cli", c>> \in Socket
    BY <1>4, NewFdIs, Refs DEF AcceptLook
  <2>3. owner' \in [Fd -> Socket \cup {<<"closed", "none">>}]
    BY <1>owner, <2>2, <1>4 DEF AcceptLook
  <2>4. accept' \in [at : {"idle", "fill", "signal"}, ref : Ref, slot : Conn]
    <3>1. FirstFree \in Conn /\ [fd |-> NewFd, sock |-> <<"cli", c>>] \in Ref
      BY <1>4, <2>2, FirstFreeIs, Refs DEF AcceptLook
    <3> QED BY <1>4, <3>1 DEF AcceptLook
  <2> QED BY <1>4, <2>1, <2>3, <2>4 DEF TypeOK, AcceptLook
<1>4a. CASE AcceptFill
  <2>1. accept.slot \in Conn /\ accept.ref \in Ref /\ accept.ref.sock[2] \in Client \cup {"none"}
    <3>1. accept.slot \in Conn /\ accept.ref \in Ref
      BY <1>accept
    <3>2. \A r \in Ref : r.sock[2] \in Client \cup {"none"}
      BY DEF Ref, NoRef, Socket
    <3> QED BY <3>1, <3>2
  <2>2. rtsp' \in [Conn -> Slot]
    <3> DEFINE f == accept.slot
               c == accept.ref.sock[2]
               R == [rtsp EXCEPT ![f].cli_fd = accept.ref, ![f].host = c, ![f].channel = FALSE]
    <3>1. rtsp' = [R EXCEPT ![f].port = FALSE, ![f].rtspd_lock = 0, ![f].in_buffer = "none"]
      BY <1>4a DEF AcceptFill
    <3>2. R \in [Conn -> Slot]
      <4> DEFINE Q == [rtsp EXCEPT ![f].cli_fd = accept.ref]
      <4>1. Q \in [Conn -> Slot]
        BY <1>rtsp, <2>1, SlotPut
      <4> DEFINE H == [Q EXCEPT ![f].host = c]
      <4>2. H \in [Conn -> Slot]
        <5> HIDE DEF Q
        <5> QED BY <2>1, <4>1, SlotPut
      <4>3. R = [H EXCEPT ![f].channel = FALSE]
        OBVIOUS
      <4> HIDE DEF H
      <4> QED BY <2>1, <4>2, <4>3, SlotPut
    <3> HIDE DEF R
    <3>3. 0 \in 0..MaxPosts
      BY ConnAssumption
    <3> DEFINE P == [R EXCEPT ![f].port = FALSE, ![f].rtspd_lock = 0]
    <3>4. P \in [Conn -> Slot]
      BY <2>1, <3>2, <3>3, SlotPut
    <3>5. rtsp' = [P EXCEPT ![f].in_buffer = "none"]
      BY <3>1
    <3> HIDE DEF P
    <3> QED BY <2>1, <3>4, <3>5, SlotPut
  <2>3. accept' \in [at : {"idle", "fill", "signal"}, ref : Ref, slot : Conn]
    BY <1>4a, <2>1, Refs DEF AcceptFill
  <2>4. picked' \in Conn \cup {NoSlot} /\ raced' \in BOOLEAN
    BY <1>4a, <2>1 DEF AcceptFill
  <2> QED BY <1>4a, <2>2, <2>3, <2>4 DEF TypeOK, AcceptFill
<1>4b. CASE AcceptSignal
  <2>1. accept' \in [at : {"idle", "fill", "signal"}, ref : Ref, slot : Conn]
    BY <1>4b, Refs, ConnBasics DEF AcceptSignal, NoAccept
  <2>2. callback' \in {"loop", "wait", "woken", "stirred", "spawn", "wild"} /\ raced' \in BOOLEAN
    BY <1>4b DEF AcceptSignal, TypeOK
  <2> QED BY <1>4b, <2>1, <2>2 DEF TypeOK, AcceptSignal
<1>5. CASE CallbackWait
  <2>1. callback' \in {"loop", "wait", "woken", "stirred", "spawn", "wild"}
    BY <1>5 DEF CallbackWait
  <2> QED BY <1>5, <2>1 DEF TypeOK, CallbackWait
<1>5a. CASE CallbackStir
  <2>1. callback' \in {"loop", "wait", "woken", "stirred", "spawn", "wild"}
    BY <1>5a DEF CallbackStir
  <2>2. script' \in Script
    BY <1>script, <1>5a DEF CallbackStir, Mishap, Script
  <2> QED BY <1>5a, <2>1, <2>2 DEF TypeOK, CallbackStir
<1>5b. CASE CallbackWild
  <2>1. callback' \in {"loop", "wait", "woken", "stirred", "spawn", "wild"}
    BY <1>5b DEF CallbackWild
  <2> QED BY <1>5b, <2>1 DEF TypeOK, CallbackWild
<1>6. CASE CallbackTake
  <2>1. rtsp' \in [Conn -> Slot]
    <3>1. rtsp' = [rtsp EXCEPT ![FirstFree].conn_status = 1]
      BY <1>6 DEF CallbackTake
    <3>2. FirstFree \in Conn
      BY FirstFreeIs, <1>6 DEF CallbackTake
    <3> QED BY <1>rtsp, <3>1, <3>2, SlotPut
  <2>2. /\ picked' \in Conn \cup {NoSlot} /\ chn' \in Conn
        /\ callback' \in {"loop", "wait", "woken", "stirred", "spawn", "wild"}
    BY <1>6, FirstFreeIs DEF CallbackTake
  <2>3. reader' \in [Conn -> {"none", "read", "match", "leave", "quit"}]
    BY <1>reader, <1>6, FirstFreeIs DEF CallbackTake
  <2> QED BY <1>6, <2>1, <2>2, <2>3 DEF TypeOK, CallbackTake
<1>7. CASE CallbackSpawn
  <2>1. callback' \in {"loop", "wait", "woken", "stirred", "spawn", "wild"} /\ chn' \in Conn
    BY <1>7, ConnBasics DEF CallbackSpawn
  <2>2. init' \in [Conn -> [wait : Nat, send : Nat, rtcp : Nat]]
    <3>1. init' = [init EXCEPT ![chn].wait = @ + 1]
      BY <1>7 DEF CallbackSpawn
    <3>2. chn \in Conn
      BY DEF TypeOK
    <3> QED BY <1>init, <3>1, <3>2
  <2> QED BY <1>7, <2>1, <2>2 DEF TypeOK, CallbackSpawn, place
<1>8. CASE CloseMedia
  <2>1. owner' \in [Fd -> Socket \cup {<<"closed", "none">>}]
    BY <1>owner, <1>8 DEF CloseMedia, Closed
  <2>2. rtsp' \in [Conn -> Slot]
    <3>1. clear.slot \in Conn /\ clear.next \in {"rtp_fd", "rtcp_fd"}
      BY <1>clear, <1>8 DEF CloseMedia, Field
    <3>2. CASE clear.next = "rtp_fd"
      <4>1. rtsp' = [rtsp EXCEPT ![clear.slot].rtp_fd = NoRef]
        BY <3>2, <1>8 DEF CloseMedia
      <4> QED BY <1>rtsp, <3>1, <4>1, SlotPut, Refs
    <3>3. CASE clear.next = "rtcp_fd"
      <4>1. rtsp' = [rtsp EXCEPT ![clear.slot].rtcp_fd = NoRef]
        BY <3>3, <1>8 DEF CloseMedia
      <4> QED BY <1>rtsp, <3>1, <4>1, SlotPut, Refs
    <3> QED BY <3>1, <3>2, <3>3
  <2>3. clear' \in [by : {"nobody", "reader", "init", "media"} \cup Transport, slot : Conn, next : Field]
    BY <1>clear, <1>8 DEF CloseMedia, Closed, Begin, Field, Transport
  <2> QED BY <1>8, <2>1, <2>2, <2>3 DEF TypeOK, CloseMedia, Closed, place
<1>9. CASE CloseClient
  <2>1. owner' \in [Fd -> Socket \cup {<<"closed", "none">>}]
    BY <1>owner, <1>9 DEF CloseClient, Closed
  <2>2. rtsp' \in [Conn -> Slot]
    <3> DEFINE s == clear.slot
               leaves == clear.by = "reader"
               lock == IF reader[s] = "leave" THEN Post(rtsp[s].rtspd_lock) ELSE rtsp[s].rtspd_lock
               status == IF leaves THEN 0 ELSE rtsp[s].conn_status
               request == IF leaves THEN "none" ELSE rtsp[s].in_buffer
    <3>1. s \in Conn
      BY <1>clear
    <3>2. rtsp' = [rtsp EXCEPT
                ![s].cli_fd = NoRef, ![s].is_sending_data = FALSE,
                ![s].rtspd_lock = lock, ![s].conn_status = status, ![s].in_buffer = request]
      BY <1>9, Zenon DEF CloseClient
    <3> HIDE DEF s, leaves
    <3>3. /\ lock \in 0..MaxPosts
          /\ status \in {0, 1}
          /\ request \in Method \cup {"none"}
      BY <1>rtsp, <3>1, SlotGet, ConnBasics
    <3> HIDE DEF lock, status, request
    <3> DEFINE Q == [rtsp EXCEPT ![s].cli_fd = NoRef, ![s].is_sending_data = FALSE]
               P == [Q EXCEPT ![s].rtspd_lock = lock]
    <3>4. Q \in [Conn -> Slot]
      BY <1>rtsp, <3>1, SlotPut, Refs
    <3>5. rtsp' = [P EXCEPT ![s].conn_status = status, ![s].in_buffer = request]
      BY <3>2
    <3> HIDE DEF Q
    <3>6. P \in [Conn -> Slot]
      BY <3>1, <3>3, <3>4, SlotPut
    <3> HIDE DEF P
    <3> QED BY <3>1, <3>3, <3>5, <3>6, SlotPut
  <2>3. reader' \in [Conn -> {"none", "read", "match", "leave", "quit"}]
    BY <1>reader, <1>9 DEF CloseClient, Closed
  <2>4. rtcp' \in [Conn -> [Transport -> [loop : Nat, send : Nat]]]
    <3>1. CASE clear.by \in Transport
      <4>1. rtcp' = [rtcp EXCEPT ![clear.slot][clear.by].loop = @ + 1]
        BY <3>1, <1>9, Zenon DEF CloseClient
      <4>2. clear.slot \in Conn
        BY <1>clear
      <4> QED BY <1>rtcp, <3>1, <4>1, <4>2
    <3>2. CASE clear.by \notin Transport
      BY <1>rtcp, <3>2, <1>9 DEF CloseClient
    <3> QED BY <3>1, <3>2
  <2>5. clear' \in [by : {"nobody", "reader", "init", "media"} \cup Transport, slot : Conn, next : Field]
    BY <1>9, ConnBasics DEF CloseClient, Nobody, Field
  <2>6. raced' \in BOOLEAN
    BY <1>9 DEF CloseClient, Closed, TypeOK
  <2> QED BY <1>9, <2>1, <2>2, <2>3, <2>4, <2>5, <2>6 DEF TypeOK, CloseClient, Closed, place
<1>10. ASSUME NEW s \in Conn, Read(s)
      PROVE  TypeOK'
  <2>req. /\ script.requests[owner[rtsp[s].cli_fd.fd][2]] \in Seq(Method)
          /\ script.requests[owner[rtsp[s].cli_fd.fd][2]] # <<>>
          /\ Head(script.requests[owner[rtsp[s].cli_fd.fd][2]]) \in Method
          /\ Tail(script.requests[owner[rtsp[s].cli_fd.fd][2]]) \in Seq(Method)
    <3> DEFINE q == script.requests[owner[rtsp[s].cli_fd.fd][2]]
    <3>1. owner[rtsp[s].cli_fd.fd][2] \in Client
      <4>1. rtsp[s].cli_fd.fd \in Fd /\ owner[rtsp[s].cli_fd.fd][1] # "closed" /\ owner[rtsp[s].cli_fd.fd][2] # "none"
        BY <1>10, <1>rtsp, SlotGet, Refs DEF Read, Reaches
      <4>2. owner[rtsp[s].cli_fd.fd] \in Socket
        BY <1>owner, <4>1, Refs
      <4> QED BY <4>1, <4>2 DEF Socket
    <3>2. q \in Seq(Method) /\ q # <<>>
      <4>1. script.requests \in [Client -> Seq(Method)]
        BY <1>script DEF Script
      <4>2. q # <<>>
        BY <1>10 DEF Read
      <4> QED BY <3>1, <4>1, <4>2
    <3> HIDE DEF q
    <3>3. Head(q) \in Method /\ Tail(q) \in Seq(Method)
      BY <3>2
    <3> QED BY <3>2, <3>3 DEF q
  <2>1. rtsp' \in [Conn -> Slot]
    <3>1. rtsp' = [rtsp EXCEPT ![s].in_buffer = Head(script.requests[owner[rtsp[s].cli_fd.fd][2]])]
      BY <1>10 DEF Read
    <3>2. Head(script.requests[owner[rtsp[s].cli_fd.fd][2]]) \in Method
      BY <2>req
    <3> QED BY <1>rtsp, <3>1, <3>2, SlotPut
  <2>2. reader' \in [Conn -> {"none", "read", "match", "leave", "quit"}]
    BY <1>reader, <1>10 DEF Read
  <2>3. script' \in Script
    <3>1. script' = [script EXCEPT !.requests[owner[rtsp[s].cli_fd.fd][2]] = Tail(@)]
      BY <1>10 DEF Read
    <3> DEFINE c == owner[rtsp[s].cli_fd.fd][2]
               q == Tail(script.requests[c])
    <3>2. q \in Seq(Method)
      BY <2>req
    <3>3. script' = [script EXCEPT !.requests = [script.requests EXCEPT ![c] = q]]
      BY <3>1
    <3> HIDE DEF q, c
    <3>4. script.requests \in [Client -> Seq(Method)]
      BY <1>script DEF Script
    <3>5. [script.requests EXCEPT ![c] = q] \in [Client -> Seq(Method)]
      BY <3>2, <3>4
    <3> QED BY <1>script, <3>3, <3>5 DEF Script
  <2> QED BY <1>10, <2>1, <2>2, <2>3 DEF TypeOK, Read, place
<1>11. ASSUME NEW s \in Conn, ReadEnd(s)
      PROVE  TypeOK'
  <2>1. reader' \in [Conn -> {"none", "read", "match", "leave", "quit"}]
    BY <1>reader, <1>11 DEF ReadEnd
  <2> QED BY <1>11, <2>1 DEF TypeOK, ReadEnd, place
<1>12. ASSUME NEW s \in Conn, ReadError(s)
      PROVE  TypeOK'
  <2>1. rtsp' \in [Conn -> Slot]
    <3>1. rtsp' = [Clearing(s) EXCEPT ![s].rtspd_status = "other"]
      BY <1>12 DEF ReadError, GiveUp
    <3> QED BY <1>rtsp, <3>1, SlotPut DEF Clearing, Transport
  <2>2. reader' \in [Conn -> {"none", "read", "match", "leave", "quit"}]
    BY <1>reader, <1>12 DEF ReadError, GiveUp
  <2>3. clear' \in [by : {"nobody", "reader", "init", "media"} \cup Transport, slot : Conn, next : Field]
    BY <1>clear, <1>12 DEF ReadError, GiveUp, Begin, Field, Transport
  <2> QED BY <1>12, <2>1, <2>2, <2>3 DEF TypeOK, ReadError, GiveUp, place
<1>13. ASSUME NEW s \in Conn, Answer(s)
      PROVE  TypeOK'
  <2>1. rtsp' \in [Conn -> Slot]
    <3>1. rtsp' = [rtsp EXCEPT ![s] = Answered(@)]
      BY <1>13 DEF Answer
    <3> QED BY <1>rtsp, <3>1, SlotPut, AnsweredPut
  <2>2. reader' \in [Conn -> {"none", "read", "match", "leave", "quit"}]
    BY <1>reader, <1>13 DEF Answer
  <2> QED BY <1>13, <2>1, <2>2 DEF TypeOK, Answer, place
<1>14. ASSUME NEW s \in Conn, AnswerFails(s)
      PROVE  TypeOK'
  <2>1. rtsp' \in [Conn -> Slot]
    <3>1. rtsp' = [Clearing(s) EXCEPT ![s].rtspd_status = "other"]
      BY <1>14 DEF AnswerFails, GiveUp
    <3> QED BY <1>rtsp, <3>1, SlotPut DEF Clearing, Transport
  <2>2. reader' \in [Conn -> {"none", "read", "match", "leave", "quit"}]
    BY <1>reader, <1>14 DEF AnswerFails, GiveUp
  <2>3. clear' \in [by : {"nobody", "reader", "init", "media"} \cup Transport, slot : Conn, next : Field]
    BY <1>clear, <1>14 DEF AnswerFails, GiveUp, Begin, Field, Transport
  <2>4. script' \in Script
    <3>1. CASE Mishap
      BY <1>script, <3>1 DEF Mishap, Script
    <3> QED BY <1>script, <3>1, <1>14 DEF AnswerFails
  <2> QED BY <1>14, <2>1, <2>2, <2>3, <2>4 DEF TypeOK, AnswerFails, GiveUp, place
<1>15. ASSUME NEW s \in Conn, Teardown(s)
      PROVE  TypeOK'
  <2>1. rtsp' \in [Conn -> Slot]
    <3>1. rtsp' = [Clearing(s) EXCEPT ![s].rtspd_status = "other"]
      BY <1>15 DEF Teardown, GiveUp
    <3> QED BY <1>rtsp, <3>1, SlotPut DEF Clearing, Transport
  <2>2. reader' \in [Conn -> {"none", "read", "match", "leave", "quit"}]
    BY <1>reader, <1>15 DEF Teardown, GiveUp
  <2>3. clear' \in [by : {"nobody", "reader", "init", "media"} \cup Transport, slot : Conn, next : Field]
    BY <1>clear, <1>15 DEF Teardown, GiveUp, Begin, Field, Transport
  <2> QED BY <1>15, <2>1, <2>2, <2>3 DEF TypeOK, Teardown, GiveUp, place
<1>16. ASSUME NEW s \in Conn, PassOver(s)
      PROVE  TypeOK'
  <2>1. reader' \in [Conn -> {"none", "read", "match", "leave", "quit"}]
    BY <1>reader, <1>16 DEF PassOver
  <2> QED BY <1>16, <2>1 DEF TypeOK, PassOver, place
<1>17. ASSUME NEW s \in Conn, NoMatch(s)
      PROVE  TypeOK'
  <2>1. rtsp' \in [Conn -> Slot]
    <3>1. rtsp' = [Clearing(s) EXCEPT ![s].rtspd_status = "other"]
      BY <1>17 DEF NoMatch, GiveUp
    <3> QED BY <1>rtsp, <3>1, SlotPut DEF Clearing, Transport
  <2>2. reader' \in [Conn -> {"none", "read", "match", "leave", "quit"}]
    BY <1>reader, <1>17 DEF NoMatch, GiveUp
  <2>3. clear' \in [by : {"nobody", "reader", "init", "media"} \cup Transport, slot : Conn, next : Field]
    BY <1>clear, <1>17 DEF NoMatch, GiveUp, Begin, Field, Transport
  <2> QED BY <1>17, <2>1, <2>2, <2>3 DEF TypeOK, NoMatch, GiveUp, place
<1>18. ASSUME NEW s \in Conn, InitEnd(s)
      PROVE  TypeOK'
  <2>1. rtsp' \in [Conn -> Slot]
    <3>1. rtsp' = [rtsp EXCEPT ![s].rtspd_lock = @ - 1]
      BY <1>18 DEF InitEnd, Woken
    <3>2. rtsp[s].rtspd_lock > 0
      BY <1>18 DEF InitEnd, Woken
    <3>3. rtsp[s].rtspd_lock - 1 \in 0..MaxPosts
      BY <1>rtsp, <3>2, SlotGet, ConnAssumption
    <3> QED BY <1>rtsp, <3>1, <3>2, <3>3, SlotPut
  <2>2. init' \in [Conn -> [wait : Nat, send : Nat, rtcp : Nat]]
    <3>1. init' = [init EXCEPT ![s].wait = @ - 1]
      BY <1>18 DEF InitEnd, Woken
    <3>2. init[s].wait > 0
      BY <1>18 DEF InitEnd, Woken
    <3> QED BY <1>init, <3>1, <3>2
  <2> QED BY <1>18, <2>1, <2>2 DEF TypeOK, InitEnd, Woken, place
<1>19. ASSUME NEW s \in Conn, InitTcp(s)
      PROVE  TypeOK'
  <2>1. rtsp' \in [Conn -> Slot]
    <3>1. rtsp' = [rtsp EXCEPT ![s].rtspd_lock = @ - 1, ![s].rtp_fd = rtsp[s].cli_fd]
      BY <1>19 DEF InitTcp, Woken
    <3>2. rtsp[s].rtspd_lock > 0
      BY <1>19 DEF InitTcp, Woken
    <3>3. rtsp[s].rtspd_lock - 1 \in 0..MaxPosts
      BY <1>rtsp, <3>2, SlotGet, ConnAssumption
    <3> QED BY <1>rtsp, <3>1, <3>2, <3>3, SlotPut, SlotGet
  <2>2. init' \in [Conn -> [wait : Nat, send : Nat, rtcp : Nat]]
    <3>1. init' = [init EXCEPT ![s].wait = @ - 1, ![s].send = @ + 1]
      BY <1>19 DEF InitTcp, Woken
    <3>2. init[s].wait > 0
      BY <1>19 DEF InitTcp, Woken
    <3> QED BY <1>init, <3>1, <3>2
  <2>3. interleaved' \in BOOLEAN
    BY <1>19 DEF InitTcp, Woken
  <2> QED BY <1>19, <2>1, <2>2, <2>3 DEF TypeOK, InitTcp, Woken, place
<1>20. ASSUME NEW s \in Conn, InitUdp(s)
      PROVE  TypeOK'
  <2>1. owner' \in [Fd -> Socket \cup {<<"closed", "none">>}]
    <3>1. NewFd \in Fd /\ <<"rtp", rtsp[s].host>> \in Socket
      BY <1>rtsp, <1>20, SlotGet, NewFdIs, Refs DEF InitUdp
    <3> QED BY <1>owner, <3>1, <1>20 DEF InitUdp
  <2>2. rtsp' \in [Conn -> Slot]
    <3>1. rtsp' = [rtsp EXCEPT ![s].rtspd_lock = @ - 1, ![s].rtp_fd = [fd |-> NewFd, sock |-> <<"rtp", rtsp[s].host>>]]
      BY <1>20 DEF InitUdp, Woken
    <3>2. rtsp[s].rtspd_lock > 0
      BY <1>20 DEF InitUdp, Woken
    <3>3. rtsp[s].rtspd_lock - 1 \in 0..MaxPosts
      BY <1>rtsp, <3>2, SlotGet, ConnAssumption
    <3>4. [fd |-> NewFd, sock |-> <<"rtp", rtsp[s].host>>] \in Ref
      BY <1>rtsp, SlotGet, Refs, NewFdIs, <1>20 DEF InitUdp, Woken
    <3> QED BY <1>rtsp, <3>1, <3>2, <3>3, <3>4, SlotPut
  <2>3. init' \in [Conn -> [wait : Nat, send : Nat, rtcp : Nat]]
    <3>1. init' = [init EXCEPT ![s].wait = @ - 1, ![s].send = @ + 1]
      BY <1>20 DEF InitUdp, Woken
    <3>2. init[s].wait > 0
      BY <1>20 DEF InitUdp, Woken
    <3> QED BY <1>init, <3>1, <3>2
  <2> QED BY <1>20, <2>1, <2>2, <2>3 DEF TypeOK, InitUdp, Woken, place
<1>21. ASSUME NEW s \in Conn, InitUdpFails(s)
      PROVE  TypeOK'
  <2>1. owner' \in [Fd -> Socket \cup {<<"closed", "none">>}]
    <3>1. Unused # {} => NewFd \in Fd /\ <<"rtp", rtsp[s].host>> \in Socket
      BY <1>rtsp, SlotGet, NewFdIs, Refs
    <3> QED BY <1>owner, <3>1, <1>21 DEF InitUdpFails
  <2>2. rtsp' \in [Conn -> Slot]
    <3>1. rtsp[s].rtspd_lock > 0
      BY <1>21 DEF InitUdpFails, Woken
    <3>2. rtsp[s].rtspd_lock - 1 \in 0..MaxPosts
      BY <1>rtsp, <3>1, SlotGet, ConnAssumption
    <3> DEFINE R == Clearing(s)
    <3>5. R \in [Conn -> Slot] /\ R[s].rtspd_lock = rtsp[s].rtspd_lock
      BY <1>rtsp, ClearingIs
    <3> HIDE DEF R
    <3>3. CASE rtsp' = [R EXCEPT ![s].rtspd_lock = @ - 1, ![s].rtp_fd = NoRef]
      <4> DEFINE Q == [R EXCEPT ![s].rtspd_lock = @ - 1]
      <4>1. Q \in [Conn -> Slot]
        BY <3>2, <3>5, SlotPut
      <4>2. rtsp' = [Q EXCEPT ![s].rtp_fd = NoRef]
        BY <3>3
      <4> HIDE DEF Q
      <4> QED BY <4>1, <4>2, SlotPut, Refs
    <3>4. CASE /\ Unused # {}
               /\ rtsp' = [R EXCEPT ![s].rtspd_lock = @ - 1,
                             ![s].rtp_fd = [fd |-> NewFd, sock |-> <<"rtp", rtsp[s].host>>]]
      <4>1. [fd |-> NewFd, sock |-> <<"rtp", rtsp[s].host>>] \in Ref
        BY <1>rtsp, SlotGet, Refs, NewFdIs, <3>4
      <4> DEFINE Q == [R EXCEPT ![s].rtspd_lock = @ - 1]
      <4>2. Q \in [Conn -> Slot]
        BY <3>2, <3>5, SlotPut
      <4>3. rtsp' = [Q EXCEPT ![s].rtp_fd = [fd |-> NewFd, sock |-> <<"rtp", rtsp[s].host>>]]
        BY <3>4
      <4> HIDE DEF Q
      <4> QED BY <4>1, <4>2, <4>3, SlotPut
    <3> QED BY <1>21, <3>3, <3>4 DEF InitUdpFails, R
  <2>3. init' \in [Conn -> [wait : Nat, send : Nat, rtcp : Nat]]
    <3>1. init' = [init EXCEPT ![s].wait = @ - 1]
      BY <1>21 DEF InitUdpFails, Woken
    <3>2. init[s].wait > 0
      BY <1>21 DEF InitUdpFails, Woken
    <3> QED BY <1>init, <3>1, <3>2
  <2>4. clear' \in [by : {"nobody", "reader", "init", "media"} \cup Transport, slot : Conn, next : Field]
    BY <1>clear, <1>21 DEF InitUdpFails, Woken, Begin, Field, Transport
  <2>5. script' \in Script
    <3>1. CASE Mishap
      BY <1>script, <3>1 DEF Mishap, Script
    <3> QED BY <1>script, <3>1, <1>21 DEF InitUdpFails
  <2> QED BY <1>21, <2>1, <2>2, <2>3, <2>4, <2>5 DEF TypeOK, InitUdpFails, Woken, place
<1>22. ASSUME NEW s \in Conn, InitSending(s)
      PROVE  TypeOK'
  <2>1. rtsp' \in [Conn -> Slot]
    <3>1. rtsp' = [rtsp EXCEPT ![s].is_sending_data = TRUE]
      BY <1>22 DEF InitSending
    <3> QED BY <1>rtsp, <3>1, SlotPut
  <2>2. init' \in [Conn -> [wait : Nat, send : Nat, rtcp : Nat]]
    <3>1. init' = [init EXCEPT ![s].send = @ - 1, ![s].rtcp = @ + 1]
      BY <1>22 DEF InitSending
    <3>2. init[s].send > 0
      BY <1>22 DEF InitSending
    <3> QED BY <1>init, <3>1, <3>2
  <2> QED BY <1>22, <2>1, <2>2 DEF TypeOK, InitSending, place
<1>23. ASSUME NEW s \in Conn, InitRtcpTcp(s)
      PROVE  TypeOK'
  <2>1. rtsp' \in [Conn -> Slot]
    <3>1. rtsp' = [rtsp EXCEPT ![s].rtcp_fd = rtsp[s].cli_fd]
      BY <1>23 DEF InitRtcpTcp
    <3> QED BY <1>rtsp, <3>1, SlotPut, SlotGet
  <2>2. init' \in [Conn -> [wait : Nat, send : Nat, rtcp : Nat]]
    <3>1. init' = [init EXCEPT ![s].rtcp = @ - 1]
      BY <1>23 DEF InitRtcpTcp
    <3>2. init[s].rtcp > 0
      BY <1>23 DEF InitRtcpTcp
    <3> QED BY <1>init, <3>1, <3>2
  <2>3. rtcp' \in [Conn -> [Transport -> [loop : Nat, send : Nat]]]
    <3>1. rtcp' = [rtcp EXCEPT ![s].tcp.loop = @ + 1]
      BY <1>23 DEF InitRtcpTcp
    <3> QED BY <1>rtcp, <3>1 DEF Transport
  <2>4. interleaved' \in BOOLEAN
    BY <1>23 DEF InitRtcpTcp
  <2> QED BY <1>23, <2>1, <2>2, <2>3, <2>4 DEF TypeOK, InitRtcpTcp, place
<1>24. ASSUME NEW s \in Conn, InitRtcpUdp(s)
      PROVE  TypeOK'
  <2>1. owner' \in [Fd -> Socket \cup {<<"closed", "none">>}]
    <3>1. NewFd \in Fd /\ <<"rtcp", rtsp[s].host>> \in Socket
      BY <1>rtsp, <1>24, SlotGet, NewFdIs, Refs DEF InitRtcpUdp
    <3> QED BY <1>owner, <3>1, <1>24 DEF InitRtcpUdp
  <2>2. rtsp' \in [Conn -> Slot]
    <3>1. rtsp' = [rtsp EXCEPT ![s].rtcp_fd = [fd |-> NewFd, sock |-> <<"rtcp", rtsp[s].host>>]]
      BY <1>24 DEF InitRtcpUdp
    <3>2. [fd |-> NewFd, sock |-> <<"rtcp", rtsp[s].host>>] \in Ref
      BY <1>rtsp, SlotGet, Refs, NewFdIs, <1>24 DEF InitRtcpUdp
    <3> QED BY <1>rtsp, <3>1, <3>2, SlotPut
  <2>3. init' \in [Conn -> [wait : Nat, send : Nat, rtcp : Nat]]
    <3>1. init' = [init EXCEPT ![s].rtcp = @ - 1]
      BY <1>24 DEF InitRtcpUdp
    <3>2. init[s].rtcp > 0
      BY <1>24 DEF InitRtcpUdp
    <3> QED BY <1>init, <3>1, <3>2
  <2>4. rtcp' \in [Conn -> [Transport -> [loop : Nat, send : Nat]]]
    <3>1. rtcp' = [rtcp EXCEPT ![s].udp.loop = @ + 1]
      BY <1>24 DEF InitRtcpUdp
    <3> QED BY <1>rtcp, <3>1 DEF Transport
  <2> QED BY <1>24, <2>1, <2>2, <2>3, <2>4 DEF TypeOK, InitRtcpUdp, place
<1>25. ASSUME NEW s \in Conn, InitRtcpFails(s)
      PROVE  TypeOK'
  <2>1. rtsp' \in [Conn -> Slot]
    <3>1. rtsp' = [rtsp EXCEPT ![s].rtcp_fd = NoRef]
      BY <1>25 DEF InitRtcpFails
    <3> QED BY <1>rtsp, <3>1, SlotPut, Refs
  <2>2. init' \in [Conn -> [wait : Nat, send : Nat, rtcp : Nat]]
    <3>1. init' = [init EXCEPT ![s].rtcp = @ - 1]
      BY <1>25 DEF InitRtcpFails
    <3>2. init[s].rtcp > 0
      BY <1>25 DEF InitRtcpFails
    <3> QED BY <1>init, <3>1, <3>2
  <2>3. script' \in Script
    <3>1. CASE Mishap
      BY <1>script, <3>1 DEF Mishap, Script
    <3> QED BY <1>script, <3>1, <1>25 DEF InitRtcpFails
  <2> QED BY <1>25, <2>1, <2>2, <2>3 DEF TypeOK, InitRtcpFails, place
<1>26. ASSUME NEW s \in Conn, FrameFails(s)
      PROVE  TypeOK'
  <2>1. rtsp' \in [Conn -> Slot]
    <3>1. rtsp' = Clearing(s)
      BY <1>26 DEF FrameFails
    <3> QED BY <1>rtsp, <3>1, SlotPut DEF Clearing, Transport
  <2>2. clear' \in [by : {"nobody", "reader", "init", "media"} \cup Transport, slot : Conn, next : Field]
    BY <1>clear, <1>26 DEF FrameFails, Begin, Field, Transport
  <2>3. script' \in Script
    <3>1. CASE Mishap
      BY <1>script, <3>1 DEF Mishap, Script
    <3> QED BY <1>script, <3>1, <1>26 DEF FrameFails
  <2> QED BY <1>26, <2>1, <2>2, <2>3 DEF TypeOK, FrameFails, place
<1>27. ASSUME NEW s \in Conn, NEW k \in Transport, RtcpLook(s, k)
      PROVE  TypeOK'
  <2>1. rtcp' \in [Conn -> [Transport -> [loop : Nat, send : Nat]]]
    <3>1. rtcp' = [rtcp EXCEPT ![s][k].loop = @ - 1, ![s][k].send = @ + 1]
      BY <1>27 DEF RtcpLook
    <3>2. rtcp[s][k].loop > 0
      BY <1>27 DEF RtcpLook
    <3> QED BY <1>rtcp, <3>1, <3>2
  <2> QED BY <1>27, <2>1 DEF TypeOK, RtcpLook, place
<1>28. ASSUME NEW s \in Conn, NEW k \in Transport, RtcpEnd(s, k)
      PROVE  TypeOK'
  <2>1. rtcp' \in [Conn -> [Transport -> [loop : Nat, send : Nat]]]
    <3>1. rtcp' = [rtcp EXCEPT ![s][k].loop = @ - 1]
      BY <1>28 DEF RtcpEnd
    <3>2. rtcp[s][k].loop > 0
      BY <1>28 DEF RtcpEnd
    <3> QED BY <1>rtcp, <3>1, <3>2
  <2> QED BY <1>28, <2>1 DEF TypeOK, RtcpEnd, place
<1>29. ASSUME NEW s \in Conn, NEW k \in Transport, RtcpSent(s, k)
      PROVE  TypeOK'
  <2>1. rtcp' \in [Conn -> [Transport -> [loop : Nat, send : Nat]]]
    <3>1. rtcp' = [rtcp EXCEPT ![s][k].loop = @ + 1, ![s][k].send = @ - 1]
      BY <1>29 DEF RtcpSent
    <3>2. rtcp[s][k].send > 0
      BY <1>29 DEF RtcpSent
    <3> QED BY <1>rtcp, <3>1, <3>2
  <2> QED BY <1>29, <2>1 DEF TypeOK, RtcpSent, place
<1>30. ASSUME NEW s \in Conn, NEW k \in Transport, RtcpFails(s, k)
      PROVE  TypeOK'
  <2>1. rtsp' \in [Conn -> Slot]
    <3>1. rtsp' = Clearing(s)
      BY <1>30 DEF RtcpFails
    <3> QED BY <1>rtsp, <3>1, SlotPut DEF Clearing, Transport
  <2>2. rtcp' \in [Conn -> [Transport -> [loop : Nat, send : Nat]]]
    <3>1. rtcp' = [rtcp EXCEPT ![s][k].send = @ - 1]
      BY <1>30 DEF RtcpFails
    <3>2. rtcp[s][k].send > 0
      BY <1>30 DEF RtcpFails
    <3> QED BY <1>rtcp, <3>1, <3>2
  <2>3. clear' \in [by : {"nobody", "reader", "init", "media"} \cup Transport, slot : Conn, next : Field]
    BY <1>clear, <1>30 DEF RtcpFails, Begin, Field, Transport
  <2> QED BY <1>30, <2>1, <2>2, <2>3 DEF TypeOK, RtcpFails, place
<1>31. CASE UNCHANGED connVars
  BY <1>31 DEF TypeOK, connVars, place
<1> QED
  BY <1>1, <1>2, <1>3, <1>4, <1>4a, <1>4b, <1>5, <1>5a, <1>5b, <1>6, <1>7, <1>8, <1>9, <1>10, <1>11, <1>12, <1>13, <1>14, <1>15, <1>16, <1>17, <1>18, <1>19, <1>20, <1>21, <1>22, <1>23, <1>24, <1>25, <1>26, <1>27, <1>28, <1>29, <1>30, <1>31
  DEF ConnNext, AcceptStep, CallbackStep, ClearStep, ReaderStep, InitStep, RtcpStep

-----------------------------------------------------------------------------
(* What a slot remembers of descriptors.                                   *)

(* Only field f of slot s is set, to x; fields that are no descriptors may *)
(* change, the status excepted.                                            *)
OnlyFd(R, Q, s, f, x) ==
    /\ Q[s][f] = x
    /\ \A t \in Conn : Q[t].conn_status = R[t].conn_status
    /\ \A t \in Conn, g \in Field : (t = s /\ g = f) \/ Q[t][g] = R[t][g]

LEMMA FdPut ==
    ASSUME NEW R \in [Conn -> Slot], NEW s \in Conn, NEW x
    PROVE  /\ OnlyFd(R, [R EXCEPT ![s].rtp_fd = x], s, "rtp_fd", x)
           /\ OnlyFd(R, [R EXCEPT ![s].rtcp_fd = x], s, "rtcp_fd", x)
           /\ OnlyFd(R, [R EXCEPT ![s].cli_fd = x], s, "cli_fd", x)
BY DEF Slot, OnlyFd, Field

LEMMA OnlyAfterKept ==
    ASSUME NEW R, NEW P, NEW Q, NEW s \in Conn, NEW f \in Field, NEW x,
           Kept(R, P), OnlyFd(P, Q, s, f, x)
    PROVE  OnlyFd(R, Q, s, f, x)
BY DEF Kept, OnlyFd, Field

LEMMA KeptAfterOnly ==
    ASSUME NEW R, NEW P, NEW Q, NEW s \in Conn, NEW f \in Field, NEW x,
           OnlyFd(R, P, s, f, x), Kept(P, Q)
    PROVE  OnlyFd(R, Q, s, f, x)
BY DEF Kept, OnlyFd, Field

LEMMA OwnKept ==
    ASSUME Own, Kept(rtsp, rtsp'), owner' = owner, interleaved' = interleaved, accept' = accept
    PROVE  Own'
<1>1. \A s \in Conn, f \in Field : rtsp'[s][f] = rtsp[s][f]
  BY DEF Kept, Field
<1> QED BY <1>1 DEF Own

(* A descriptor that was not in use is given to one field.                 *)
LEMMA OwnGiven ==
    ASSUME TypeOK, Own, NEW s \in Conn, NEW f \in Field, NEW n \in Fd, NEW k \in Socket,
           OnlyFd(rtsp, rtsp', s, f, [fd |-> n, sock |-> k]),
           owner[n][1] = "closed", owner' = [owner EXCEPT ![n] = k], interleaved' = interleaved,
           Accepting, accept' = accept
    PROVE  Own'
<1>1. \A t \in Conn, g \in Field : rtsp[t][g] \in Ref
  BY SlotGet DEF TypeOK, Field
<1>2. SUFFICES ASSUME ~interleaved
               PROVE  /\ \A t \in Conn, g \in Field :
                            rtsp'[t][g].fd # 0 => owner'[rtsp'[t][g].fd] = rtsp'[t][g].sock
                      /\ \A t, u \in Conn, g, h \in Field :
                            rtsp'[t][g].fd # 0 /\ rtsp'[t][g].fd = rtsp'[u][h].fd => t = u /\ g = h
                      /\ accept.at = "fill" =>
                            /\ owner'[accept.ref.fd] = accept.ref.sock
                            /\ \A t \in Conn, g \in Field : rtsp'[t][g].fd # accept.ref.fd
  BY DEF Own
<1>3. \A t \in Conn, g \in Field :
          rtsp[t][g].fd # 0 => owner[rtsp[t][g].fd] = rtsp[t][g].sock /\ rtsp[t][g].fd # n
  <2> SUFFICES ASSUME NEW t \in Conn, NEW g \in Field, rtsp[t][g].fd # 0
               PROVE  owner[rtsp[t][g].fd] = rtsp[t][g].sock /\ rtsp[t][g].fd # n
    OBVIOUS
  <2>1. rtsp[t][g].sock \in Socket
    BY <1>1, Refs
  <2>2. owner[rtsp[t][g].fd] = rtsp[t][g].sock
    BY <1>2 DEF Own
  <2> QED BY <2>1, <2>2, Refs
<1>4. \A t \in Conn, g \in Field :
          \/ t = s /\ g = f /\ rtsp'[t][g].fd = n /\ rtsp'[t][g].sock = k
          \/ ~(t = s /\ g = f) /\ rtsp'[t][g] = rtsp[t][g]
  BY DEF OnlyFd
<1>5. n # 0 /\ owner'[n] = k /\ \A m \in Fd : m # n => owner'[m] = owner[m]
  BY ConnAssumption DEF TypeOK, Fd
<1>6. \A t \in Conn, g \in Field :
          rtsp'[t][g].fd # 0 => owner'[rtsp'[t][g].fd] = rtsp'[t][g].sock
  BY <1>1, <1>3, <1>4, <1>5, Refs
<1>7. \A t, u \in Conn, g, h \in Field :
          rtsp'[t][g].fd # 0 /\ rtsp'[t][g].fd = rtsp'[u][h].fd => t = u /\ g = h
  <2> SUFFICES ASSUME NEW t \in Conn, NEW u \in Conn, NEW g \in Field, NEW h \in Field,
                      rtsp'[t][g].fd # 0, rtsp'[t][g].fd = rtsp'[u][h].fd
               PROVE  t = u /\ g = h
    OBVIOUS
  <2>1. CASE t = s /\ g = f
    BY <1>3, <1>4, <1>5, <2>1
  <2>2. CASE u = s /\ h = f
    BY <1>3, <1>4, <1>5, <2>2
  <2>3. CASE ~(t = s /\ g = f) /\ ~(u = s /\ h = f)
    <3>1. rtsp[t][g].fd # 0 /\ rtsp[t][g].fd = rtsp[u][h].fd
      BY <1>4, <2>3
    <3> QED BY <1>2, <3>1 DEF Own
  <2> QED BY <2>1, <2>2, <2>3
<1>8. ASSUME accept.at = "fill"
      PROVE  /\ owner'[accept.ref.fd] = accept.ref.sock
             /\ \A t \in Conn, g \in Field : rtsp'[t][g].fd # accept.ref.fd
  <2>1. /\ accept.ref.fd \in Fd /\ owner[accept.ref.fd] = accept.ref.sock
        /\ \A t \in Conn, g \in Field : rtsp[t][g].fd # accept.ref.fd
    BY <1>2, <1>8 DEF Own, Accepting
  <2>2. accept.ref.sock[1] # "closed"
    <3>1. accept.ref \in Ref
      BY DEF TypeOK
    <3>2. accept.ref.fd # 0
      BY <2>1, ConnAssumption DEF Fd
    <3> QED BY <3>1, <3>2, Refs
  <2>3. accept.ref.fd # n
    BY <2>1, <2>2
  <2> QED BY <1>4, <1>5, <2>1, <2>3
<1> QED BY <1>6, <1>7, <1>8

(* A field forgets its descriptor, and it is closed or left open.          *)
LEMMA OwnForgotten ==
    ASSUME TypeOK, Own, NEW s \in Conn, NEW f \in Field,
           OnlyFd(rtsp, rtsp', s, f, NoRef),
           owner' = owner \/ owner' = Closed(rtsp[s][f]), interleaved' = interleaved,
           Accepting, accept' = accept
    PROVE  Own'
<1>1. \A t \in Conn, g \in Field : rtsp[t][g] \in Ref
  BY SlotGet DEF TypeOK, Field
<1>2. SUFFICES ASSUME ~interleaved
               PROVE  /\ \A t \in Conn, g \in Field :
                            rtsp'[t][g].fd # 0 => owner'[rtsp'[t][g].fd] = rtsp'[t][g].sock
                      /\ \A t, u \in Conn, g, h \in Field :
                            rtsp'[t][g].fd # 0 /\ rtsp'[t][g].fd = rtsp'[u][h].fd => t = u /\ g = h
                      /\ accept.at = "fill" =>
                            /\ owner'[accept.ref.fd] = accept.ref.sock
                            /\ \A t \in Conn, g \in Field : rtsp'[t][g].fd # accept.ref.fd
  BY DEF Own
<1>3. \A t \in Conn, g \in Field :
          rtsp'[t][g].fd # 0 => ~(t = s /\ g = f) /\ rtsp'[t][g] = rtsp[t][g]
  BY Refs DEF OnlyFd
<1>4. \A m \in Fd : m # rtsp[s][f].fd => owner'[m] = owner[m]
  BY DEF TypeOK, Closed
<1>5. ASSUME NEW t \in Conn, NEW g \in Field, rtsp'[t][g].fd # 0
      PROVE  owner'[rtsp'[t][g].fd] = rtsp'[t][g].sock
  <2>1. rtsp'[t][g] = rtsp[t][g] /\ ~(t = s /\ g = f)
    BY <1>3, <1>5
  <2>2. rtsp[t][g].fd # rtsp[s][f].fd /\ owner[rtsp[t][g].fd] = rtsp[t][g].sock
    BY <1>2, <1>5, <2>1 DEF Own
  <2>3. rtsp[t][g].fd \in Fd
    BY <1>1, <1>5, <2>1, Refs
  <2> QED BY <1>4, <2>1, <2>2, <2>3
<1>6. ASSUME NEW t \in Conn, NEW u \in Conn, NEW g \in Field, NEW h \in Field,
             rtsp'[t][g].fd # 0, rtsp'[t][g].fd = rtsp'[u][h].fd
      PROVE  t = u /\ g = h
  <2>1. rtsp'[t][g] = rtsp[t][g] /\ rtsp'[u][h] = rtsp[u][h]
    BY <1>3, <1>6
  <2> QED BY <1>2, <1>6, <2>1 DEF Own
<1>7. ASSUME accept.at = "fill"
      PROVE  /\ owner'[accept.ref.fd] = accept.ref.sock
             /\ \A t \in Conn, g \in Field : rtsp'[t][g].fd # accept.ref.fd
  <2>1. /\ accept.ref.fd \in Fd /\ owner[accept.ref.fd] = accept.ref.sock
        /\ \A t \in Conn, g \in Field : rtsp[t][g].fd # accept.ref.fd
    BY <1>2, <1>7 DEF Own, Accepting
  <2>2. owner'[accept.ref.fd] = owner[accept.ref.fd]
    BY <1>4, <2>1
  <2>3. accept.ref.fd # 0
    BY <2>1, ConnAssumption DEF Fd
  <2> QED BY <1>3, <2>1, <2>2, <2>3
<1> QED BY <1>5, <1>6, <1>7

-----------------------------------------------------------------------------
(* Steps that neither place a client nor give a slot back.                 *)
LEMMA ServedStep ==
    ASSUME TypeOK, SlotHeld, Accepting, ServedUnlessRaced,
           \A t \in Conn : rtsp'[t].conn_status = rtsp[t].conn_status /\ rtsp'[t].cli_fd = rtsp[t].cli_fd,
           \A n \in Fd : owner'[n][1] = "cli" => owner'[n] = owner[n],
           raced' = raced, picked' = picked, accept' = accept,
           callback' = "woken" => callback = "woken",
           callback \in {"woken", "stirred"} => callback' \in {"woken", "stirred"},
           \A t \in Conn : reader'[t] # "none" <=> reader[t] # "none"
    PROVE  /\ ServedUnlessRaced'
           /\ \A t \in Conn : rtsp'[t].conn_status = 1 <=> reader'[t] # "none"
           /\ Accepting'
<1>1. FreeSlots' = FreeSlots
  BY DEF FreeSlots
<1>2. ServedUnlessRaced'
  <2> SUFFICES ASSUME ~raced
               PROVE  ServedUnlessRaced'
    BY DEF ServedUnlessRaced
  <2>1. callback' = "woken" => picked' # NoSlot
    BY DEF ServedUnlessRaced
  <2>2. picked' # NoSlot =>
          /\ picked' \in FreeSlots' /\ \A t \in FreeSlots' : picked' <= t
          /\ \/ callback' \in {"woken", "stirred"}
             \/ accept'.at = "signal" /\ accept'.slot = picked'
    BY <1>1 DEF ServedUnlessRaced, IsFirstFree
  <2>3. ASSUME NEW n \in Fd, owner'[n][1] = "cli"
        PROVE  \/ accept'.at = "fill" /\ accept'.ref.fd = n
               \/ \E s \in Conn : /\ rtsp'[s].cli_fd = [fd |-> n, sock |-> owner'[n]]
                                  /\ reader'[s] # "none" \/ s = picked'
    <3>1. owner'[n] = owner[n]
      BY <2>3
    <3>2. \/ accept.at = "fill" /\ accept.ref.fd = n
          \/ \E s \in Conn : /\ rtsp[s].cli_fd = [fd |-> n, sock |-> owner[n]]
                             /\ reader[s] # "none" \/ s = picked
      BY <2>3, <3>1 DEF ServedUnlessRaced
    <3> QED BY <3>1, <3>2
  <2> QED BY <2>1, <2>2, <2>3 DEF ServedUnlessRaced, IsFirstFree
<1>3. \A t \in Conn : rtsp'[t].conn_status = 1 <=> reader'[t] # "none"
  BY DEF SlotHeld
<1>4. Accepting'
  BY DEF Accepting
<1> QED BY <1>2, <1>3, <1>4

-----------------------------------------------------------------------------
LEMMA ConnInit_IInv == ConnInit => ConnIInv
<1> SUFFICES ASSUME ConnInit
             PROVE  ConnIInv
  OBVIOUS
<1>1. TypeOK
  <2>1. \A s \in Conn : rtsp[s] \in Slot
    BY ConnAssumption, Refs DEF ConnInit, Slot, Transport
  <2>2. rtsp \in [Conn -> Slot]
    BY <2>1 DEF ConnInit
  <2>3. script \in Script
    BY ConnAssumption DEF ConnInit
  <2>4. /\ accept \in [at : {"idle", "fill", "signal"}, ref : Ref, slot : Conn]
        /\ picked \in Conn \cup {NoSlot} /\ chn \in Conn
    BY ConnBasics, Refs DEF ConnInit, NoAccept
  <2>5. owner \in [Fd -> Socket \cup {<<"closed", "none">>}]
    BY DEF ConnInit
  <2>6. clear \in [by : {"nobody", "reader", "init", "media"} \cup Transport, slot : Conn, next : Field]
    BY ConnBasics DEF ConnInit, Nobody, Field
  <2>7. /\ init \in [Conn -> [wait : Nat, send : Nat, rtcp : Nat]]
        /\ rtcp \in [Conn -> [Transport -> [loop : Nat, send : Nat]]]
    BY DEF ConnInit
  <2> QED BY <2>2, <2>3, <2>4, <2>5, <2>6, <2>7 DEF ConnInit, TypeOK
<1>2. SlotHeld
  BY DEF ConnInit, SlotHeld, Nobody
<1>3. Own
  BY Refs DEF ConnInit, Own, NoAccept, Field
<1>4. ServedUnlessRaced
  BY Refs, ConnAssumption DEF ConnInit, ServedUnlessRaced, NoSlot
<1>5. Accepting
  BY DEF ConnInit, Accepting, NoAccept
<1> QED BY <1>1, <1>2, <1>3, <1>4, <1>5 DEF ConnIInv

LEMMA ConnNext_IInv == ConnIInv /\ [ConnNext]_connVars => ConnIInv'
<1> SUFFICES ASSUME ConnIInv, [ConnNext]_connVars
             PROVE  ConnIInv'
  OBVIOUS
<1>0. TypeOK /\ SlotHeld /\ Own /\ Accepting /\ ServedUnlessRaced /\ TypeOK'
  BY ConnNext_TypeOK DEF ConnIInv
<1>rtsp. rtsp \in [Conn -> Slot]
  BY <1>0 DEF TypeOK
<1>reader. reader \in [Conn -> {"none", "read", "match", "leave", "quit"}] /\ clear.slot \in Conn
  BY <1>0 DEF TypeOK
<1>callback. callback \in {"loop", "wait", "woken", "stirred", "spawn", "wild"}
  BY <1>0 DEF TypeOK
<1>1. ASSUME NEW c \in Client, HangUp(c)
      PROVE  ConnIInv'
  <2>1. Kept(rtsp, rtsp')
    BY <1>1 DEF HangUp, Kept
  <2>2. /\ owner' = owner /\ interleaved' = interleaved /\ raced' = raced /\ picked' = picked
        /\ callback' = callback /\ accept' = accept
        /\ \A t \in Conn : reader'[t] # "none" <=> reader[t] # "none"
    BY <1>reader, <1>1 DEF HangUp, place
  <2>3. /\ \A t \in Conn : reader'[t] \in {"leave", "quit"} => clear'.by = "reader" /\ clear'.slot = t
        /\ clear'.by = "reader" => reader'[clear'.slot] \in {"leave", "quit"}
    BY <1>0, <1>reader, <1>1 DEF HangUp, SlotHeld
  <2>4. /\ ServedUnlessRaced'
        /\ \A t \in Conn : rtsp'[t].conn_status = 1 <=> reader'[t] # "none"
        /\ Accepting'
    BY <1>0, <2>1, <2>2, ServedStep DEF Kept
  <2>5. Own'
    BY <1>0, <2>1, <2>2, OwnKept
  <2> QED BY <1>0, <2>3, <2>4, <2>5 DEF ConnIInv, SlotHeld
<1>2. ASSUME NEW c \in Client, Reset(c)
      PROVE  ConnIInv'
  <2>1. Kept(rtsp, rtsp')
    BY <1>2 DEF Reset, Kept
  <2>2. /\ owner' = owner /\ interleaved' = interleaved /\ raced' = raced /\ picked' = picked
        /\ callback' = callback /\ accept' = accept
        /\ \A t \in Conn : reader'[t] # "none" <=> reader[t] # "none"
    BY <1>reader, <1>2 DEF Reset, place
  <2>3. /\ \A t \in Conn : reader'[t] \in {"leave", "quit"} => clear'.by = "reader" /\ clear'.slot = t
        /\ clear'.by = "reader" => reader'[clear'.slot] \in {"leave", "quit"}
    BY <1>0, <1>reader, <1>2 DEF Reset, SlotHeld
  <2>4. /\ ServedUnlessRaced'
        /\ \A t \in Conn : rtsp'[t].conn_status = 1 <=> reader'[t] # "none"
        /\ Accepting'
    BY <1>0, <2>1, <2>2, ServedStep DEF Kept
  <2>5. Own'
    BY <1>0, <2>1, <2>2, OwnKept
  <2> QED BY <1>0, <2>3, <2>4, <2>5 DEF ConnIInv, SlotHeld
<1>3. ASSUME NEW c \in Client, AcceptRefused(c)
      PROVE  ConnIInv'
  <2>1. Kept(rtsp, rtsp')
    BY <1>3 DEF AcceptRefused, Kept
  <2>2. /\ owner' = owner /\ interleaved' = interleaved /\ raced' = raced /\ picked' = picked
        /\ callback' = callback /\ accept' = accept
        /\ \A t \in Conn : reader'[t] # "none" <=> reader[t] # "none"
    BY <1>reader, <1>3 DEF AcceptRefused, place
  <2>3. /\ \A t \in Conn : reader'[t] \in {"leave", "quit"} => clear'.by = "reader" /\ clear'.slot = t
        /\ clear'.by = "reader" => reader'[clear'.slot] \in {"leave", "quit"}
    BY <1>0, <1>reader, <1>3 DEF AcceptRefused, SlotHeld
  <2>4. /\ ServedUnlessRaced'
        /\ \A t \in Conn : rtsp'[t].conn_status = 1 <=> reader'[t] # "none"
        /\ Accepting'
    BY <1>0, <2>1, <2>2, ServedStep DEF Kept
  <2>5. Own'
    BY <1>0, <2>1, <2>2, OwnKept
  <2> QED BY <1>0, <2>3, <2>4, <2>5 DEF ConnIInv, SlotHeld
<1>4. ASSUME NEW c \in Client, AcceptLook(c)
      PROVE  ConnIInv'
  <2>1. NewFd \in Fd /\ owner[NewFd][1] = "closed" /\ <<"cli", c>> \in Socket
    BY <1>4, NewFdIs, Refs DEF AcceptLook
  <2>2. /\ owner' = [owner EXCEPT ![NewFd] = <<"cli", c>>]
        /\ accept.at = "idle" /\ accept'.at = "fill"
        /\ accept'.ref = [fd |-> NewFd, sock |-> <<"cli", c>>]
        /\ rtsp' = rtsp /\ reader' = reader /\ clear' = clear
        /\ picked' = picked /\ callback' = callback
        /\ raced' = raced /\ interleaved' = interleaved
    BY <1>4 DEF AcceptLook
  <2>3. /\ owner'[NewFd] = <<"cli", c>>
        /\ \A m \in Fd : m # NewFd => owner'[m] = owner[m]
    BY <1>0, <2>1, <2>2 DEF TypeOK
  <2>4. Accepting'
    BY <2>1, <2>2, <2>3 DEF Accepting
  <2>5. Own'
    <3> SUFFICES ASSUME ~interleaved
                 PROVE  Own'
      BY <2>2 DEF Own
    <3>1. \A t \in Conn, g \in Field :
              rtsp[t][g].fd # 0 => /\ rtsp[t][g].fd \in Fd /\ rtsp[t][g].sock \in Socket
                                   /\ owner[rtsp[t][g].fd] = rtsp[t][g].sock
      <4>1. \A t \in Conn, g \in Field : rtsp[t][g] \in Ref
        BY <1>rtsp, SlotGet DEF Field
      <4> QED BY <1>0, <4>1, Refs DEF Own
    <3>2. \A t \in Conn, g \in Field : rtsp[t][g].fd # NewFd
      <4>1. NewFd # 0
        BY <2>1, ConnAssumption DEF Fd
      <4> QED BY <2>1, <3>1, <4>1, Refs
    <3>3. \A t \in Conn, g \in Field :
              rtsp'[t][g].fd # 0 => owner'[rtsp'[t][g].fd] = rtsp'[t][g].sock
      BY <2>2, <2>3, <3>1, <3>2
    <3>4. \A t, u \in Conn, g, h \in Field :
              rtsp'[t][g].fd # 0 /\ rtsp'[t][g].fd = rtsp'[u][h].fd => t = u /\ g = h
      BY <1>0, <2>2 DEF Own
    <3>5. /\ owner'[accept'.ref.fd] = accept'.ref.sock
          /\ \A t \in Conn, g \in Field : rtsp'[t][g].fd # accept'.ref.fd
      BY <2>2, <2>3, <3>2
    <3> QED BY <3>3, <3>4, <3>5 DEF Own
  <2>6. SlotHeld'
    BY <1>0, <2>2 DEF SlotHeld
  <2>7. ServedUnlessRaced'
    <3> SUFFICES ASSUME ~raced
                 PROVE  ServedUnlessRaced'
      BY <2>2 DEF ServedUnlessRaced
    <3>1. callback' = "woken" => picked' # NoSlot
      BY <1>0, <2>2 DEF ServedUnlessRaced
    <3>2. picked' # NoSlot =>
            /\ picked' \in FreeSlots' /\ \A t \in FreeSlots' : picked' <= t
            /\ callback' \in {"woken", "stirred"}
      BY <1>0, <2>2 DEF ServedUnlessRaced, IsFirstFree, FreeSlots
    <3>3. ASSUME NEW n \in Fd, owner'[n][1] = "cli"
          PROVE  \/ accept'.at = "fill" /\ accept'.ref.fd = n
                 \/ \E s \in Conn : /\ rtsp'[s].cli_fd = [fd |-> n, sock |-> owner'[n]]
                                    /\ reader'[s] # "none" \/ s = picked'
      <4>1. CASE n = NewFd
        BY <2>2, <4>1
      <4>2. CASE n # NewFd
        <5>1. owner'[n] = owner[n]
          BY <2>3, <4>2
        <5>2. PICK s \in Conn : /\ rtsp[s].cli_fd = [fd |-> n, sock |-> owner[n]]
                                /\ reader[s] # "none" \/ s = picked
          BY <1>0, <2>2, <3>3, <5>1 DEF ServedUnlessRaced
        <5> QED BY <2>2, <5>1, <5>2
      <4> QED BY <4>1, <4>2
    <3> QED BY <3>1, <3>2, <3>3 DEF ServedUnlessRaced, IsFirstFree
  <2> QED BY <1>0, <2>4, <2>5, <2>6, <2>7 DEF ConnIInv
<1>4a. CASE AcceptFill
  <2> DEFINE f == accept.slot
             r == accept.ref
  <2>1. f \in Conn /\ r \in Ref /\ accept.at = "fill"
    BY <1>0, <1>4a DEF TypeOK, AcceptFill
  <2>2. /\ owner' = owner /\ interleaved' = interleaved /\ reader' = reader /\ clear' = clear
        /\ callback' = callback /\ picked' = f
        /\ raced' = (raced \/ picked # NoSlot \/ ~IsFirstFree(f))
        /\ accept'.at = "signal" /\ accept'.slot = f
    BY <1>4a DEF AcceptFill
  <2>3. r.sock[2] \in Client \cup {"none"}
    <3>1. \A x \in Ref : x.sock[2] \in Client \cup {"none"}
      BY DEF Ref, NoRef, Socket
    <3> QED BY <2>1, <3>1
  <2>4. OnlyFd(rtsp, rtsp', f, "cli_fd", r)
    <3> DEFINE c == r.sock[2]
               Q == [rtsp EXCEPT ![f].cli_fd = r]
               P == [Q EXCEPT ![f].host = c, ![f].channel = FALSE]
    <3>1. rtsp' = [P EXCEPT ![f].port = FALSE, ![f].rtspd_lock = 0, ![f].in_buffer = "none"]
      BY <1>4a DEF AcceptFill
    <3>2. OnlyFd(rtsp, Q, f, "cli_fd", r) /\ Q \in [Conn -> Slot]
      BY <1>rtsp, <2>1, FdPut, SlotPut
    <3>2a. c \in Client \cup {"none"} /\ f \in Conn
      BY <2>1, <2>3
    <3> HIDE DEF Q, f, r, c
    <3>3. P \in [Conn -> Slot] /\ Kept(Q, P)
      <4>1. [Q EXCEPT ![f].host = c] \in [Conn -> Slot] /\ Kept(Q, [Q EXCEPT ![f].host = c])
        BY <3>2, <3>2a, SlotPut, SlotKeeps
      <4>2. P \in [Conn -> Slot] /\ Kept([Q EXCEPT ![f].host = c], P)
        BY <3>2a, <4>1, SlotPut, SlotKeeps
      <4> QED BY <4>1, <4>2 DEF Kept
    <3> HIDE DEF P
    <3>4. Kept(P, rtsp')
      <4>1. [P EXCEPT ![f].port = FALSE] \in [Conn -> Slot] /\ Kept(P, [P EXCEPT ![f].port = FALSE])
        BY <3>2a, <3>3, SlotPut, SlotKeeps
      <4>2. 0 \in 0..MaxPosts
        BY ConnAssumption
      <4> DEFINE O == [P EXCEPT ![f].port = FALSE, ![f].rtspd_lock = 0]
      <4>3. O \in [Conn -> Slot] /\ Kept([P EXCEPT ![f].port = FALSE], O)
        BY <3>2a, <4>1, <4>2, SlotPut, SlotKeeps
      <4>4. rtsp' = [O EXCEPT ![f].in_buffer = "none"]
        BY <3>1
      <4> HIDE DEF O
      <4>5. Kept(O, rtsp')
        BY <3>2a, <4>3, <4>4, SlotKeeps
      <4> QED BY <4>1, <4>3, <4>5 DEF Kept
    <3>5. Kept(Q, rtsp')
      BY <3>3, <3>4 DEF Kept
    <3> QED BY <3>2, <3>2a, <3>5, KeptAfterOnly DEF Field
  <2>5. Accepting'
    BY <2>2 DEF Accepting
  <2>6. Own'
    <3> SUFFICES ASSUME ~interleaved
                 PROVE  Own'
      BY <2>2 DEF Own
    <3>1. owner[r.fd] = r.sock /\ \A t \in Conn, g \in Field : rtsp[t][g].fd # r.fd
      BY <1>0, <2>1 DEF Own
    <3>2. \A t \in Conn, g \in Field :
              \/ t = f /\ g = "cli_fd" /\ rtsp'[t][g] = r
              \/ ~(t = f /\ g = "cli_fd") /\ rtsp'[t][g] = rtsp[t][g]
      BY <2>4 DEF OnlyFd
    <3> HIDE DEF f, r
    <3>3. \A t \in Conn, g \in Field :
              rtsp'[t][g].fd # 0 => owner'[rtsp'[t][g].fd] = rtsp'[t][g].sock
      BY <1>0, <2>2, <3>1, <3>2 DEF Own
    <3>4. ASSUME NEW t \in Conn, NEW u \in Conn, NEW g \in Field, NEW h \in Field,
                 rtsp'[t][g].fd # 0, rtsp'[t][g].fd = rtsp'[u][h].fd
          PROVE  t = u /\ g = h
      <4>1. CASE rtsp'[t][g] = rtsp[t][g] /\ rtsp'[u][h] = rtsp[u][h]
        BY <1>0, <3>4, <4>1 DEF Own
      <4> QED BY <3>1, <3>2, <3>4, <4>1
    <3> QED BY <2>2, <3>3, <3>4 DEF Own
  <2>7. /\ FreeSlots' = FreeSlots
        /\ \A t \in Conn : rtsp'[t].conn_status = rtsp[t].conn_status
    BY <2>4 DEF OnlyFd, FreeSlots
  <2>8. SlotHeld'
    BY <1>0, <2>2, <2>7 DEF SlotHeld
  <2>9. ServedUnlessRaced'
    <3> SUFFICES ASSUME ~raced'
                 PROVE  ServedUnlessRaced'
      BY DEF ServedUnlessRaced
    <3>1. ~raced /\ picked = NoSlot /\ f \in FreeSlots /\ \A t \in FreeSlots : f <= t
      BY <2>2 DEF IsFirstFree
    <3>2. f # NoSlot
      BY <2>1, ConnAssumption DEF Conn, NoSlot
    <3>3. reader[f] = "none"
      BY <1>0, <2>1, <3>1 DEF SlotHeld, FreeSlots
    <3>4. ASSUME NEW n \in Fd, owner'[n][1] = "cli"
          PROVE  \E s \in Conn : /\ rtsp'[s].cli_fd = [fd |-> n, sock |-> owner'[n]]
                                 /\ reader'[s] # "none" \/ s = picked'
      <4>1. CASE n = r.fd
        <5>1. r = [fd |-> n, sock |-> owner[n]]
          BY <1>0, <2>1, <2>2, <3>4, <4>1 DEF Accepting
        <5>2. rtsp'[f].cli_fd = r
          BY <2>4 DEF OnlyFd
        <5> QED BY <2>1, <2>2, <5>1, <5>2
      <4>2. CASE n # r.fd
        <5>1. PICK s \in Conn : /\ rtsp[s].cli_fd = [fd |-> n, sock |-> owner[n]]
                                /\ reader[s] # "none" \/ s = picked
          BY <1>0, <2>2, <3>1, <3>4, <4>2 DEF ServedUnlessRaced
        <5>2. s # f
          BY <2>1, <3>1, <3>2, <3>3, <5>1
        <5>3. rtsp'[s].cli_fd = rtsp[s].cli_fd
          BY <2>4, <5>2 DEF OnlyFd, Field
        <5>4. reader[s] # "none"
          BY <3>1, <5>1, ConnAssumption DEF Conn, NoSlot
        <5> QED BY <2>2, <5>1, <5>3, <5>4
      <4> QED BY <4>1, <4>2
    <3>5. callback' = "woken" => picked' # NoSlot
      BY <2>2, <3>2
    <3>6. picked' \in FreeSlots' /\ \A t \in FreeSlots' : picked' <= t
      BY <2>2, <2>7, <3>1
    <3>7. accept'.at = "signal" /\ accept'.slot = picked'
      BY <2>2
    <3> QED BY <3>4, <3>5, <3>6, <3>7 DEF ServedUnlessRaced, IsFirstFree
  <2> QED BY <1>0, <2>5, <2>6, <2>8, <2>9 DEF ConnIInv
<1>4b. ASSUME AcceptSignal, callback # "wild"
      PROVE  ConnIInv'
  <2>1. /\ owner' = owner /\ interleaved' = interleaved /\ reader' = reader /\ clear' = clear
        /\ rtsp' = rtsp /\ picked' = picked
        /\ callback' = (IF callback # "wait" THEN callback
                        ELSE IF picked = NoSlot THEN "stirred" ELSE "woken")
        /\ raced' = (raced \/ (picked # NoSlot /\ callback \in {"loop", "spawn"}))
        /\ accept.at = "signal" /\ accept'.at = "idle"
    BY <1>4b DEF AcceptSignal, NoAccept
  <2>2. Accepting' /\ Own' /\ SlotHeld'
    BY <1>0, <2>1 DEF Accepting, Own, SlotHeld
  <2>3. ServedUnlessRaced'
    <3> SUFFICES ASSUME ~raced'
                 PROVE  ServedUnlessRaced'
      BY DEF ServedUnlessRaced
    <3>1. ~raced /\ (picked # NoSlot => callback \notin {"loop", "spawn"})
      BY <2>1
    <3>2. callback' = "woken" => picked' # NoSlot
      BY <1>0, <2>1, <3>1 DEF ServedUnlessRaced
    <3>3. picked' # NoSlot =>
            picked' \in FreeSlots' /\ \A t \in FreeSlots' : picked' <= t
      BY <1>0, <2>1, <3>1 DEF ServedUnlessRaced, IsFirstFree, FreeSlots
    <3>4. picked' # NoSlot => callback' \in {"woken", "stirred"}
      BY <1>callback, <1>4b, <2>1, <3>1
    <3>5. ASSUME NEW n \in Fd, owner'[n][1] = "cli"
          PROVE  \E s \in Conn : /\ rtsp'[s].cli_fd = [fd |-> n, sock |-> owner'[n]]
                                 /\ reader'[s] # "none" \/ s = picked'
      BY <1>0, <2>1, <3>1, <3>5 DEF ServedUnlessRaced
    <3> QED BY <3>2, <3>3, <3>4, <3>5 DEF ServedUnlessRaced, IsFirstFree
  <2> QED BY <1>0, <2>2, <2>3 DEF ConnIInv
<1>5. CASE CallbackWait
  <2>1. Kept(rtsp, rtsp')
    BY <1>5 DEF CallbackWait, Kept
  <2>2. /\ owner' = owner /\ interleaved' = interleaved /\ raced' = raced /\ picked' = picked
        /\ accept' = accept /\ reader' = reader /\ clear' = clear
        /\ callback = "loop" /\ callback' = "wait"
    BY <1>5 DEF CallbackWait
  <2>3. /\ ServedUnlessRaced'
        /\ \A t \in Conn : rtsp'[t].conn_status = 1 <=> reader'[t] # "none"
        /\ Accepting'
    BY <1>0, <2>1, <2>2, ServedStep DEF Kept
  <2>4. Own'
    BY <1>0, <2>1, <2>2, OwnKept
  <2> QED BY <1>0, <2>2, <2>3, <2>4 DEF ConnIInv, SlotHeld
<1>5a. CASE CallbackStir
  <2>1. Kept(rtsp, rtsp')
    BY <1>5a DEF CallbackStir, Kept
  <2>2. /\ owner' = owner /\ interleaved' = interleaved /\ raced' = raced /\ picked' = picked
        /\ accept' = accept /\ reader' = reader /\ clear' = clear
        /\ callback = "wait" /\ callback' = "stirred"
    BY <1>5a DEF CallbackStir
  <2>3. /\ ServedUnlessRaced'
        /\ \A t \in Conn : rtsp'[t].conn_status = 1 <=> reader'[t] # "none"
        /\ Accepting'
    BY <1>0, <2>1, <2>2, ServedStep DEF Kept
  <2>4. Own'
    BY <1>0, <2>1, <2>2, OwnKept
  <2> QED BY <1>0, <2>2, <2>3, <2>4 DEF ConnIInv, SlotHeld
<1>5b. CASE CallbackWild
  <2>1. /\ owner' = owner /\ interleaved' = interleaved /\ raced' = raced /\ picked' = picked
        /\ accept' = accept /\ reader' = reader /\ clear' = clear /\ rtsp' = rtsp
        /\ callback' = "wild" /\ FreeSlots = {}
    BY <1>5b DEF CallbackWild
  <2>2. Accepting' /\ Own' /\ SlotHeld'
    BY <1>0, <2>1 DEF Accepting, Own, SlotHeld
  <2>3. ServedUnlessRaced'
    <3>1. ~raced => picked = NoSlot
      BY <1>0, <2>1 DEF ServedUnlessRaced, IsFirstFree
    <3> QED BY <1>0, <2>1, <3>1 DEF ServedUnlessRaced
  <2> QED BY <1>0, <2>2, <2>3 DEF ConnIInv
<1>6. CASE CallbackTake
  <2>1. FirstFree \in FreeSlots /\ FirstFree \in Conn /\ (\A t \in FreeSlots : FirstFree <= t)
    BY <1>6, FirstFreeIs DEF CallbackTake
  <2> DEFINE f == FirstFree
  <2>2. /\ rtsp' = [rtsp EXCEPT ![f].conn_status = 1] /\ reader' = [reader EXCEPT ![f] = "read"]
        /\ callback' = "spawn" /\ owner' = owner /\ interleaved' = interleaved
        /\ clear' = clear /\ raced' = raced /\ accept' = accept /\ picked' = NoSlot
    BY <1>6 DEF CallbackTake
  <2> HIDE DEF f
  <2>3. /\ \A t \in Conn, g \in Field : rtsp'[t][g] = rtsp[t][g]
        /\ \A t \in Conn : rtsp'[t].conn_status = IF t = f THEN 1 ELSE rtsp[t].conn_status
    BY <1>rtsp, <2>1, <2>2 DEF Slot, Field, f
  <2>4. Own'
    BY <1>0, <2>2, <2>3 DEF Own
  <2>5. reader[f] = "none" /\ \A t \in Conn : reader'[t] = IF t = f THEN "read" ELSE reader[t]
    BY <1>0, <1>reader, <2>1, <2>2 DEF SlotHeld, FreeSlots, f
  <2>6. SlotHeld'
    <3>1. clear.by = "reader" => clear.slot # f
      BY <1>0, <2>5 DEF SlotHeld
    <3> QED BY <1>0, <1>reader, <2>2, <2>3, <2>5, <3>1 DEF SlotHeld
  <2>7. ServedUnlessRaced'
    <3> SUFFICES ASSUME ~raced, NEW m \in Fd, owner'[m][1] = "cli"
                 PROVE  \/ accept'.at = "fill" /\ accept'.ref.fd = m
                        \/ \E s \in Conn : /\ rtsp'[s].cli_fd = [fd |-> m, sock |-> owner'[m]]
                                           /\ reader'[s] # "none"
      BY <2>2 DEF ServedUnlessRaced
    <3>1. CASE accept.at = "fill" /\ accept.ref.fd = m
      BY <2>2, <3>1
    <3>2. ASSUME NEW s \in Conn, rtsp[s].cli_fd = [fd |-> m, sock |-> owner[m]],
                 reader[s] # "none" \/ s = picked
          PROVE  rtsp'[s].cli_fd = [fd |-> m, sock |-> owner'[m]] /\ reader'[s] # "none"
      <4>1. picked # NoSlot => picked = f
        <5>1. picked # NoSlot => picked \in FreeSlots /\ \A t \in FreeSlots : picked <= t
          BY <1>0 DEF ServedUnlessRaced, IsFirstFree
        <5> QED BY <5>1, FirstFreeOnly DEF f
      <4>2. s # NoSlot
        BY ConnAssumption DEF Conn, NoSlot
      <4>3. reader'[s] # "none"
        BY <2>5, <3>2, <4>1, <4>2
      <4>4. rtsp'[s].cli_fd = rtsp[s].cli_fd
        BY <2>3 DEF Field
      <4> QED BY <2>2, <3>2, <4>3, <4>4
    <3> QED BY <1>0, <2>2, <3>1, <3>2 DEF ServedUnlessRaced
  <2>8. Accepting'
    BY <1>0, <2>2 DEF Accepting
  <2> QED BY <1>0, <2>4, <2>6, <2>7, <2>8 DEF ConnIInv
<1>7. CASE CallbackSpawn
  <2>1. Kept(rtsp, rtsp')
    BY <1>7 DEF CallbackSpawn, Kept
  <2>2. /\ owner' = owner /\ interleaved' = interleaved /\ raced' = raced /\ picked' = picked
        /\ callback = "spawn" /\ callback' = "loop" /\ accept' = accept
        /\ \A t \in Conn : reader'[t] # "none" <=> reader[t] # "none"
    BY <1>reader, <1>7 DEF CallbackSpawn, place
  <2>3. /\ \A t \in Conn : reader'[t] \in {"leave", "quit"} => clear'.by = "reader" /\ clear'.slot = t
        /\ clear'.by = "reader" => reader'[clear'.slot] \in {"leave", "quit"}
    BY <1>0, <1>reader, <1>7 DEF CallbackSpawn, SlotHeld
  <2>4. /\ ServedUnlessRaced'
        /\ \A t \in Conn : rtsp'[t].conn_status = 1 <=> reader'[t] # "none"
        /\ Accepting'
    BY <1>0, <2>1, <2>2, ServedStep DEF Kept
  <2>5. Own'
    BY <1>0, <2>1, <2>2, OwnKept
  <2> QED BY <1>0, <2>3, <2>4, <2>5 DEF ConnIInv, SlotHeld
<1>8. CASE CloseMedia
  <2>1. clear.slot \in Conn /\ clear.next \in {"rtp_fd", "rtcp_fd"} /\ clear.next \in Field
    BY <1>0, <1>8 DEF TypeOK, CloseMedia, Field
  <2>2. OnlyFd(rtsp, rtsp', clear.slot, clear.next, NoRef)
    <3>1. CASE clear.next = "rtp_fd"
      <4>1. rtsp' = [rtsp EXCEPT ![clear.slot].rtp_fd = NoRef]
        BY <3>1, <1>8 DEF CloseMedia
      <4> QED BY <1>rtsp, <2>1, <3>1, <4>1, FdPut
    <3>2. CASE clear.next = "rtcp_fd"
      <4>1. rtsp' = [rtsp EXCEPT ![clear.slot].rtcp_fd = NoRef]
        BY <3>2, <1>8 DEF CloseMedia
      <4> QED BY <1>rtsp, <2>1, <3>2, <4>1, FdPut
    <3> QED BY <2>1, <3>1, <3>2
  <2>3. owner' = Closed(rtsp[clear.slot][clear.next]) /\ interleaved' = interleaved
        /\ accept' = accept
    BY <1>8 DEF CloseMedia, place
  <2>4. Own'
    BY <1>0, <2>1, <2>2, <2>3, OwnForgotten
  <2>5. /\ \A t \in Conn : rtsp'[t].conn_status = rtsp[t].conn_status /\ rtsp'[t].cli_fd = rtsp[t].cli_fd
        /\ \A m \in Fd : owner'[m][1] = "cli" => owner'[m] = owner[m]
    <3>1. \A t \in Conn : rtsp'[t].conn_status = rtsp[t].conn_status /\ rtsp'[t].cli_fd = rtsp[t].cli_fd
      BY <2>1, <2>2 DEF OnlyFd, Field
    <3>2. \A m \in Fd : owner'[m] = owner[m] \/ owner'[m] = <<"closed", "none">>
      BY <1>0, <2>3 DEF Closed, TypeOK
    <3>3. <<"closed", "none">>[1] # "cli"
      BY Refs
    <3> QED BY <3>1, <3>2, <3>3
  <2>6. /\ raced' = raced /\ picked' = picked /\ callback' = callback /\ reader' = reader
        /\ accept' = accept
        /\ clear'.by = clear.by /\ clear'.slot = clear.slot
    BY <1>0, <1>8 DEF CloseMedia, place, TypeOK
  <2>7. ServedUnlessRaced' /\ (\A t \in Conn : rtsp'[t].conn_status = 1 <=> reader'[t] # "none")
        /\ Accepting'
    BY <1>0, <2>5, <2>6, ServedStep
  <2> QED BY <1>0, <2>4, <2>6, <2>7 DEF ConnIInv, SlotHeld
<1>9. CASE CloseClient
  <2> DEFINE s == clear.slot
             leaves == clear.by = "reader"
             lock == IF reader[s] = "leave" THEN Post(rtsp[s].rtspd_lock) ELSE rtsp[s].rtspd_lock
             status == IF leaves THEN 0 ELSE rtsp[s].conn_status
             request == IF leaves THEN "none" ELSE rtsp[s].in_buffer
  <2>1. s \in Conn /\ clear.by # "nobody"
    BY <1>reader, <1>9 DEF CloseClient
  <2>2. /\ rtsp' = [rtsp EXCEPT
                ![s].cli_fd = NoRef, ![s].is_sending_data = FALSE,
                ![s].rtspd_lock = lock, ![s].conn_status = status, ![s].in_buffer = request]
        /\ owner' = Closed(rtsp[s].cli_fd) /\ clear' = Nobody
        /\ reader' = (IF leaves THEN [reader EXCEPT ![s] = "none"] ELSE reader)
        /\ raced' = (raced \/ (leaves /\ picked # NoSlot /\ s < picked))
        /\ picked' = picked /\ callback' = callback /\ interleaved' = interleaved
        /\ accept' = accept
    BY <1>9, Zenon DEF CloseClient
  <2> HIDE DEF s, leaves
  <2>3. /\ rtsp[s].cli_fd \in Ref /\ rtsp[s].conn_status \in {0, 1}
        /\ lock \in 0..MaxPosts /\ status \in {0, 1}
    BY <1>rtsp, <2>1, SlotGet, ConnBasics
  <2>4. /\ \A t \in Conn, g \in Field : rtsp'[t][g] = IF t = s /\ g = "cli_fd" THEN NoRef ELSE rtsp[t][g]
        /\ \A t \in Conn : rtsp'[t].conn_status = IF t = s /\ leaves THEN 0 ELSE rtsp[t].conn_status
    <3> DEFINE P == [rtsp EXCEPT ![s].cli_fd = NoRef]
               Q == [P EXCEPT ![s].is_sending_data = FALSE, ![s].rtspd_lock = lock]
               O == [Q EXCEPT ![s].conn_status = status]
    <3>1. P \in [Conn -> Slot] /\ OnlyFd(rtsp, P, s, "cli_fd", NoRef)
      BY <1>rtsp, <2>1, FdPut, SlotPut, Refs
    <3>2. rtsp' = [O EXCEPT ![s].in_buffer = request]
      <4> HIDE DEF lock, status, request
      <4> QED BY <2>2
    <3> HIDE DEF P
    <3>3. Q \in [Conn -> Slot] /\ Kept(P, Q)
      <4> DEFINE N == [P EXCEPT ![s].is_sending_data = FALSE]
      <4>1. N \in [Conn -> Slot] /\ Kept(P, N)
        BY <2>1, <3>1, SlotPut, SlotKeeps
      <4>2. Q = [N EXCEPT ![s].rtspd_lock = lock]
        OBVIOUS
      <4> HIDE DEF N, Q
      <4>3. lock \in 0..MaxPosts
        BY <2>3
      <4>4. Q \in [Conn -> Slot]
        BY <2>1, <4>1, <4>2, <4>3, SlotPut
      <4>5. Kept(N, Q)
        BY <2>1, <4>1, <4>2, SlotKeeps
      <4> QED BY <4>1, <4>4, <4>5 DEF Kept
    <3> HIDE DEF Q
    <3>4. /\ O \in [Conn -> Slot]
          /\ \A t \in Conn, g \in Field : O[t][g] = Q[t][g]
          /\ \A t \in Conn : O[t].conn_status = IF t = s THEN status ELSE Q[t].conn_status
      <4> HIDE DEF status
      <4>2. O \in [Conn -> Slot]
        BY <2>1, <2>3, <3>3, SlotPut
      <4>3. \A t \in Conn, g \in Field : O[t][g] = Q[t][g]
        BY <2>1, <3>3 DEF Slot, Field
      <4>4. \A t \in Conn : O[t].conn_status = IF t = s THEN status ELSE Q[t].conn_status
        BY <2>1, <3>3 DEF Slot
      <4> QED BY <4>2, <4>3, <4>4
    <3> HIDE DEF O
    <3>5. Kept(O, rtsp')
      BY <2>1, <3>2, <3>4, SlotKeeps
    <3>6. \A t \in Conn, g \in Field : rtsp'[t][g] = P[t][g]
      BY <3>3, <3>4, <3>5 DEF Kept, Field
    <3>7. \A t \in Conn : rtsp'[t].conn_status = IF t = s THEN status ELSE P[t].conn_status
      BY <3>3, <3>4, <3>5 DEF Kept
    <3>8. \A t \in Conn, g \in Field : P[t][g] = IF t = s /\ g = "cli_fd" THEN NoRef ELSE rtsp[t][g]
      BY <3>1 DEF OnlyFd
    <3>9. \A t \in Conn : P[t].conn_status = rtsp[t].conn_status
      BY <3>1 DEF OnlyFd
    <3> QED BY <3>6, <3>7, <3>8, <3>9
  <2>5. Own'
    <3> SUFFICES ASSUME ~interleaved
                 PROVE  Own'
      BY <2>2 DEF Own
    <3>1. \A t \in Conn, g \in Field : rtsp[t][g] \in Ref
      BY <1>rtsp, SlotGet DEF Field
    <3>2. \A m \in Fd : m # rtsp[s].cli_fd.fd => owner'[m] = owner[m]
      BY <1>0, <2>2 DEF TypeOK, Closed
    <3>3. \A t \in Conn, g \in Field :
              rtsp'[t][g].fd # 0 => ~(t = s /\ g = "cli_fd") /\ rtsp'[t][g] = rtsp[t][g]
      BY <2>4, Refs
    <3>4. ASSUME NEW t \in Conn, NEW g \in Field, rtsp'[t][g].fd # 0
          PROVE  owner'[rtsp'[t][g].fd] = rtsp'[t][g].sock
      <4>1. rtsp'[t][g] = rtsp[t][g] /\ ~(t = s /\ g = "cli_fd")
        BY <3>3, <3>4
      <4>2. rtsp[t][g].fd # rtsp[s].cli_fd.fd /\ owner[rtsp[t][g].fd] = rtsp[t][g].sock
        BY <1>0, <2>1, <3>4, <4>1 DEF Own, Field
      <4>3. rtsp[t][g].fd \in Fd
        BY <3>1, <3>4, <4>1, Refs
      <4> QED BY <3>2, <4>1, <4>2, <4>3
    <3>5. ASSUME NEW t \in Conn, NEW u \in Conn, NEW g \in Field, NEW h \in Field,
                 rtsp'[t][g].fd # 0, rtsp'[t][g].fd = rtsp'[u][h].fd
          PROVE  t = u /\ g = h
      <4>1. rtsp'[t][g] = rtsp[t][g] /\ rtsp'[u][h] = rtsp[u][h]
        BY <3>3, <3>5
      <4> QED BY <1>0, <3>5, <4>1 DEF Own
    <3>6. ASSUME accept.at = "fill"
          PROVE  /\ owner'[accept.ref.fd] = accept.ref.sock
                 /\ \A t \in Conn, g \in Field : rtsp'[t][g].fd # accept.ref.fd
      <4>1. /\ accept.ref.fd \in Fd /\ owner[accept.ref.fd] = accept.ref.sock
            /\ \A t \in Conn, g \in Field : rtsp[t][g].fd # accept.ref.fd
        BY <1>0, <3>6 DEF Own, Accepting
      <4>2. owner'[accept.ref.fd] = owner[accept.ref.fd] /\ accept.ref.fd # 0
        BY <2>1, <3>2, <4>1, ConnAssumption DEF Field, Fd
      <4> QED BY <3>3, <4>1, <4>2
    <3>7. accept' = accept
      BY <2>2
    <3> QED BY <3>4, <3>5, <3>6, <3>7 DEF Own
  <2>6. /\ \A t \in Conn : reader'[t] = IF t = s /\ leaves THEN "none" ELSE reader[t]
        /\ leaves => reader[s] \in {"leave", "quit"} /\ rtsp[s].conn_status = 1
    BY <1>0, <1>reader, <2>1, <2>2 DEF SlotHeld, s, leaves
  <2>7. SlotHeld'
    <3>1. \A t \in Conn : rtsp'[t].conn_status = 1 <=> reader'[t] # "none"
      BY <1>0, <2>4, <2>6 DEF SlotHeld
    <3>2. \A t \in Conn : reader'[t] \notin {"leave", "quit"}
      BY <1>0, <2>6 DEF SlotHeld, s, leaves
    <3>3. clear'.by # "reader"
      BY <2>2 DEF Nobody
    <3> QED BY <3>1, <3>2, <3>3 DEF SlotHeld
  <2>8. \A m \in Fd : owner'[m][1] = "cli" => owner'[m] = owner[m] /\ m # rtsp[s].cli_fd.fd
    <3> SUFFICES ASSUME NEW m \in Fd, owner'[m][1] = "cli"
                 PROVE  owner'[m] = owner[m] /\ m # rtsp[s].cli_fd.fd
      OBVIOUS
    <3>1. rtsp[s].cli_fd.fd # 0 =>
              owner' = [owner EXCEPT ![rtsp[s].cli_fd.fd] = <<"closed", "none">>]
      BY <2>2 DEF Closed
    <3>2. rtsp[s].cli_fd.fd = 0 => owner' = owner
      BY <2>2 DEF Closed
    <3>3. m # 0 /\ <<"closed", "none">>[1] # "cli"
      BY ConnAssumption, Refs DEF Fd
    <3>4. m # rtsp[s].cli_fd.fd
      <4>1. owner \in [Fd -> Socket \cup {<<"closed", "none">>}]
        BY <1>0 DEF TypeOK
      <4> QED BY <3>1, <3>3, <4>1
    <3> QED BY <1>0, <3>1, <3>2, <3>4 DEF TypeOK
  <2>9. Accepting'
    BY <1>0, <2>2, <2>8 DEF Accepting
  <2>10. ServedUnlessRaced'
    <3> SUFFICES ASSUME ~raced'
                 PROVE  ServedUnlessRaced'
      BY DEF ServedUnlessRaced
    <3>1. ~raced /\ (leaves /\ picked # NoSlot => ~(s < picked))
      BY <2>2
    <3>2. ASSUME picked' # NoSlot
          PROVE  /\ picked' \in FreeSlots' /\ \A t \in FreeSlots' : picked' <= t
                 /\ callback' \in {"woken", "stirred"} \/ (accept'.at = "signal" /\ accept'.slot = picked')
      <4>1. /\ picked \in FreeSlots /\ \A t \in FreeSlots : picked <= t
            /\ callback \in {"woken", "stirred"} \/ (accept.at = "signal" /\ accept.slot = picked)
        BY <1>0, <2>2, <3>1, <3>2 DEF ServedUnlessRaced, IsFirstFree
      <4>2. \A t \in FreeSlots' : t \in FreeSlots \/ (leaves /\ t = s)
        BY <2>4 DEF FreeSlots
      <4>3. picked \in Nat /\ s \in Nat /\ (leaves => ~(s < picked))
        BY <2>1, <2>2, <3>1, <3>2, <4>1, ConnBasics DEF FreeSlots
      <4>4. \A t \in FreeSlots' : picked <= t
        <5>1. leaves => picked <= s
          BY <4>3
        <5> QED BY <4>1, <4>2, <5>1
      <4>5. picked \in FreeSlots'
        BY <2>4, <4>1 DEF FreeSlots
      <4> QED BY <2>2, <4>1, <4>4, <4>5
    <3>3. ASSUME NEW m \in Fd, owner'[m][1] = "cli"
          PROVE  \/ accept'.at = "fill" /\ accept'.ref.fd = m
                 \/ \E t \in Conn : /\ rtsp'[t].cli_fd = [fd |-> m, sock |-> owner'[m]]
                                    /\ reader'[t] # "none" \/ t = picked'
      <4>1. owner'[m] = owner[m] /\ m # rtsp[s].cli_fd.fd
        BY <2>8, <3>3
      <4>2. CASE accept.at = "fill" /\ accept.ref.fd = m
        BY <2>2, <4>2
      <4>3. ASSUME NEW t \in Conn, rtsp[t].cli_fd = [fd |-> m, sock |-> owner[m]],
                   reader[t] # "none" \/ t = picked
            PROVE  /\ rtsp'[t].cli_fd = [fd |-> m, sock |-> owner'[m]]
                   /\ reader'[t] # "none" \/ t = picked'
        <5>1. rtsp[t].cli_fd.fd = m
          BY <4>3
        <5>2. t # s
          BY <4>1, <5>1
        <5>3. rtsp'[t].cli_fd = rtsp[t].cli_fd /\ reader'[t] = reader[t]
          BY <2>4, <2>6, <5>2 DEF Field
        <5> QED BY <2>2, <4>1, <4>3, <5>3
      <4> QED BY <1>0, <3>1, <3>3, <4>1, <4>2, <4>3 DEF ServedUnlessRaced
    <3>4. callback' = "woken" => picked' # NoSlot
      BY <1>0, <2>2, <3>1 DEF ServedUnlessRaced
    <3> QED BY <3>2, <3>3, <3>4 DEF ServedUnlessRaced, IsFirstFree
  <2> QED BY <1>0, <2>5, <2>7, <2>9, <2>10 DEF ConnIInv
<1>10. ASSUME NEW s \in Conn, Read(s)
      PROVE  ConnIInv'
  <2>1. Kept(rtsp, rtsp')
    <3>1. rtsp' = [rtsp EXCEPT ![s].in_buffer = Head(script.requests[owner[rtsp[s].cli_fd.fd][2]])]
      BY <1>10 DEF Read
    <3> QED BY <1>rtsp, <3>1, SlotKeeps
  <2>2. /\ owner' = owner /\ interleaved' = interleaved /\ raced' = raced /\ picked' = picked
        /\ callback' = callback /\ accept' = accept
        /\ \A t \in Conn : reader'[t] # "none" <=> reader[t] # "none"
    BY <1>reader, <1>10 DEF Read, place
  <2>3. /\ \A t \in Conn : reader'[t] \in {"leave", "quit"} => clear'.by = "reader" /\ clear'.slot = t
        /\ clear'.by = "reader" => reader'[clear'.slot] \in {"leave", "quit"}
    BY <1>0, <1>reader, <1>10 DEF Read, SlotHeld
  <2>4. /\ ServedUnlessRaced'
        /\ \A t \in Conn : rtsp'[t].conn_status = 1 <=> reader'[t] # "none"
        /\ Accepting'
    BY <1>0, <2>1, <2>2, ServedStep DEF Kept
  <2>5. Own'
    BY <1>0, <2>1, <2>2, OwnKept
  <2> QED BY <1>0, <2>3, <2>4, <2>5 DEF ConnIInv, SlotHeld
<1>11. ASSUME NEW s \in Conn, ReadEnd(s)
      PROVE  ConnIInv'
  <2>1. Kept(rtsp, rtsp')
    BY <1>11 DEF ReadEnd, Kept
  <2>2. /\ owner' = owner /\ interleaved' = interleaved /\ raced' = raced /\ picked' = picked
        /\ callback' = callback /\ accept' = accept
        /\ \A t \in Conn : reader'[t] # "none" <=> reader[t] # "none"
    BY <1>reader, <1>11 DEF ReadEnd, place
  <2>3. /\ \A t \in Conn : reader'[t] \in {"leave", "quit"} => clear'.by = "reader" /\ clear'.slot = t
        /\ clear'.by = "reader" => reader'[clear'.slot] \in {"leave", "quit"}
    BY <1>0, <1>reader, <1>11 DEF ReadEnd, SlotHeld
  <2>4. /\ ServedUnlessRaced'
        /\ \A t \in Conn : rtsp'[t].conn_status = 1 <=> reader'[t] # "none"
        /\ Accepting'
    BY <1>0, <2>1, <2>2, ServedStep DEF Kept
  <2>5. Own'
    BY <1>0, <2>1, <2>2, OwnKept
  <2> QED BY <1>0, <2>3, <2>4, <2>5 DEF ConnIInv, SlotHeld
<1>12. ASSUME NEW s \in Conn, ReadError(s)
      PROVE  ConnIInv'
  <2>1. Kept(rtsp, rtsp')
    <3> DEFINE P == Clearing(s)
    <3>1. rtsp' = [P EXCEPT ![s].rtspd_status = "other"]
      BY <1>12 DEF ReadError, GiveUp
    <3>2. P \in [Conn -> Slot] /\ Kept(rtsp, P)
      BY <1>rtsp, ClearingIs
    <3> HIDE DEF P
    <3>3. Kept(P, rtsp')
      BY <3>1, <3>2, SlotKeeps
    <3> QED BY <3>2, <3>3 DEF Kept
  <2>2. /\ owner' = owner /\ interleaved' = interleaved /\ raced' = raced /\ picked' = picked
        /\ callback' = callback /\ accept' = accept
        /\ \A t \in Conn : reader'[t] # "none" <=> reader[t] # "none"
    BY <1>reader, <1>12 DEF ReadError, GiveUp, place
  <2>3. /\ \A t \in Conn : reader'[t] \in {"leave", "quit"} => clear'.by = "reader" /\ clear'.slot = t
        /\ clear'.by = "reader" => reader'[clear'.slot] \in {"leave", "quit"}
    BY <1>0, <1>reader, <1>12 DEF ReadError, GiveUp, SlotHeld, Begin, Nobody, Transport
  <2>4. /\ ServedUnlessRaced'
        /\ \A t \in Conn : rtsp'[t].conn_status = 1 <=> reader'[t] # "none"
        /\ Accepting'
    BY <1>0, <2>1, <2>2, ServedStep DEF Kept
  <2>5. Own'
    BY <1>0, <2>1, <2>2, OwnKept
  <2> QED BY <1>0, <2>3, <2>4, <2>5 DEF ConnIInv, SlotHeld
<1>13. ASSUME NEW s \in Conn, Answer(s)
      PROVE  ConnIInv'
  <2>1. Kept(rtsp, rtsp')
    <3>1. rtsp' = [rtsp EXCEPT ![s] = Answered(@)] /\ rtsp[s].conn_status = 1
      BY <1>0, <1>13 DEF Answer, SlotHeld
    <3>2. rtsp[s] \in Slot /\ Answered(rtsp[s]).conn_status = 1
      BY <1>rtsp, <3>1 DEF Answered, Slot
    <3>3. /\ Answered(rtsp[s]).cli_fd = rtsp[s].cli_fd /\ Answered(rtsp[s]).rtp_fd = rtsp[s].rtp_fd
          /\ Answered(rtsp[s]).rtcp_fd = rtsp[s].rtcp_fd
      BY <3>2 DEF Answered, Slot
    <3> QED BY <1>rtsp, <3>1, <3>2, <3>3 DEF Kept
  <2>2. /\ owner' = owner /\ interleaved' = interleaved /\ raced' = raced /\ picked' = picked
        /\ callback' = callback /\ accept' = accept
        /\ \A t \in Conn : reader'[t] # "none" <=> reader[t] # "none"
    BY <1>reader, <1>13 DEF Answer, place
  <2>3. /\ \A t \in Conn : reader'[t] \in {"leave", "quit"} => clear'.by = "reader" /\ clear'.slot = t
        /\ clear'.by = "reader" => reader'[clear'.slot] \in {"leave", "quit"}
    BY <1>0, <1>reader, <1>13 DEF Answer, SlotHeld
  <2>4. /\ ServedUnlessRaced'
        /\ \A t \in Conn : rtsp'[t].conn_status = 1 <=> reader'[t] # "none"
        /\ Accepting'
    BY <1>0, <2>1, <2>2, ServedStep DEF Kept
  <2>5. Own'
    BY <1>0, <2>1, <2>2, OwnKept
  <2> QED BY <1>0, <2>3, <2>4, <2>5 DEF ConnIInv, SlotHeld
<1>14. ASSUME NEW s \in Conn, AnswerFails(s)
      PROVE  ConnIInv'
  <2>1. Kept(rtsp, rtsp')
    <3> DEFINE P == Clearing(s)
    <3>1. rtsp' = [P EXCEPT ![s].rtspd_status = "other"]
      BY <1>14 DEF AnswerFails, GiveUp
    <3>2. P \in [Conn -> Slot] /\ Kept(rtsp, P)
      BY <1>rtsp, ClearingIs
    <3> HIDE DEF P
    <3>3. Kept(P, rtsp')
      BY <3>1, <3>2, SlotKeeps
    <3> QED BY <3>2, <3>3 DEF Kept
  <2>2. /\ owner' = owner /\ interleaved' = interleaved /\ raced' = raced /\ picked' = picked
        /\ callback' = callback /\ accept' = accept
        /\ \A t \in Conn : reader'[t] # "none" <=> reader[t] # "none"
    BY <1>reader, <1>14 DEF AnswerFails, GiveUp, place
  <2>3. /\ \A t \in Conn : reader'[t] \in {"leave", "quit"} => clear'.by = "reader" /\ clear'.slot = t
        /\ clear'.by = "reader" => reader'[clear'.slot] \in {"leave", "quit"}
    BY <1>0, <1>reader, <1>14 DEF AnswerFails, GiveUp, SlotHeld, Begin, Nobody, Transport
  <2>4. /\ ServedUnlessRaced'
        /\ \A t \in Conn : rtsp'[t].conn_status = 1 <=> reader'[t] # "none"
        /\ Accepting'
    BY <1>0, <2>1, <2>2, ServedStep DEF Kept
  <2>5. Own'
    BY <1>0, <2>1, <2>2, OwnKept
  <2> QED BY <1>0, <2>3, <2>4, <2>5 DEF ConnIInv, SlotHeld
<1>15. ASSUME NEW s \in Conn, Teardown(s)
      PROVE  ConnIInv'
  <2>1. Kept(rtsp, rtsp')
    <3> DEFINE P == Clearing(s)
    <3>1. rtsp' = [P EXCEPT ![s].rtspd_status = "other"]
      BY <1>15 DEF Teardown, GiveUp
    <3>2. P \in [Conn -> Slot] /\ Kept(rtsp, P)
      BY <1>rtsp, ClearingIs
    <3> HIDE DEF P
    <3>3. Kept(P, rtsp')
      BY <3>1, <3>2, SlotKeeps
    <3> QED BY <3>2, <3>3 DEF Kept
  <2>2. /\ owner' = owner /\ interleaved' = interleaved /\ raced' = raced /\ picked' = picked
        /\ callback' = callback /\ accept' = accept
        /\ \A t \in Conn : reader'[t] # "none" <=> reader[t] # "none"
    BY <1>reader, <1>15 DEF Teardown, GiveUp, place
  <2>3. /\ \A t \in Conn : reader'[t] \in {"leave", "quit"} => clear'.by = "reader" /\ clear'.slot = t
        /\ clear'.by = "reader" => reader'[clear'.slot] \in {"leave", "quit"}
    BY <1>0, <1>reader, <1>15 DEF Teardown, GiveUp, SlotHeld, Begin, Nobody, Transport
  <2>4. /\ ServedUnlessRaced'
        /\ \A t \in Conn : rtsp'[t].conn_status = 1 <=> reader'[t] # "none"
        /\ Accepting'
    BY <1>0, <2>1, <2>2, ServedStep DEF Kept
  <2>5. Own'
    BY <1>0, <2>1, <2>2, OwnKept
  <2> QED BY <1>0, <2>3, <2>4, <2>5 DEF ConnIInv, SlotHeld
<1>16. ASSUME NEW s \in Conn, PassOver(s)
      PROVE  ConnIInv'
  <2>1. Kept(rtsp, rtsp')
    BY <1>16 DEF PassOver, Kept
  <2>2. /\ owner' = owner /\ interleaved' = interleaved /\ raced' = raced /\ picked' = picked
        /\ callback' = callback /\ accept' = accept
        /\ \A t \in Conn : reader'[t] # "none" <=> reader[t] # "none"
    BY <1>reader, <1>16 DEF PassOver, place
  <2>3. /\ \A t \in Conn : reader'[t] \in {"leave", "quit"} => clear'.by = "reader" /\ clear'.slot = t
        /\ clear'.by = "reader" => reader'[clear'.slot] \in {"leave", "quit"}
    BY <1>0, <1>reader, <1>16 DEF PassOver, SlotHeld
  <2>4. /\ ServedUnlessRaced'
        /\ \A t \in Conn : rtsp'[t].conn_status = 1 <=> reader'[t] # "none"
        /\ Accepting'
    BY <1>0, <2>1, <2>2, ServedStep DEF Kept
  <2>5. Own'
    BY <1>0, <2>1, <2>2, OwnKept
  <2> QED BY <1>0, <2>3, <2>4, <2>5 DEF ConnIInv, SlotHeld
<1>17. ASSUME NEW s \in Conn, NoMatch(s)
      PROVE  ConnIInv'
  <2>1. Kept(rtsp, rtsp')
    <3> DEFINE P == Clearing(s)
    <3>1. rtsp' = [P EXCEPT ![s].rtspd_status = "other"]
      BY <1>17 DEF NoMatch, GiveUp
    <3>2. P \in [Conn -> Slot] /\ Kept(rtsp, P)
      BY <1>rtsp, ClearingIs
    <3> HIDE DEF P
    <3>3. Kept(P, rtsp')
      BY <3>1, <3>2, SlotKeeps
    <3> QED BY <3>2, <3>3 DEF Kept
  <2>2. /\ owner' = owner /\ interleaved' = interleaved /\ raced' = raced /\ picked' = picked
        /\ callback' = callback /\ accept' = accept
        /\ \A t \in Conn : reader'[t] # "none" <=> reader[t] # "none"
    BY <1>reader, <1>17 DEF NoMatch, GiveUp, place
  <2>3. /\ \A t \in Conn : reader'[t] \in {"leave", "quit"} => clear'.by = "reader" /\ clear'.slot = t
        /\ clear'.by = "reader" => reader'[clear'.slot] \in {"leave", "quit"}
    BY <1>0, <1>reader, <1>17 DEF NoMatch, GiveUp, SlotHeld, Begin, Nobody, Transport
  <2>4. /\ ServedUnlessRaced'
        /\ \A t \in Conn : rtsp'[t].conn_status = 1 <=> reader'[t] # "none"
        /\ Accepting'
    BY <1>0, <2>1, <2>2, ServedStep DEF Kept
  <2>5. Own'
    BY <1>0, <2>1, <2>2, OwnKept
  <2> QED BY <1>0, <2>3, <2>4, <2>5 DEF ConnIInv, SlotHeld
<1>18. ASSUME NEW s \in Conn, InitEnd(s)
      PROVE  ConnIInv'
  <2>1. Kept(rtsp, rtsp')
    <3>1. rtsp' = [rtsp EXCEPT ![s].rtspd_lock = @ - 1]
      BY <1>18 DEF InitEnd, Woken
    <3> QED BY <1>rtsp, <3>1, SlotKeeps
  <2>2. /\ owner' = owner /\ interleaved' = interleaved /\ raced' = raced /\ picked' = picked
        /\ callback' = callback /\ accept' = accept
        /\ \A t \in Conn : reader'[t] # "none" <=> reader[t] # "none"
    BY <1>reader, <1>18 DEF InitEnd, Woken, place
  <2>3. /\ \A t \in Conn : reader'[t] \in {"leave", "quit"} => clear'.by = "reader" /\ clear'.slot = t
        /\ clear'.by = "reader" => reader'[clear'.slot] \in {"leave", "quit"}
    BY <1>0, <1>reader, <1>18 DEF InitEnd, Woken, SlotHeld
  <2>4. /\ ServedUnlessRaced'
        /\ \A t \in Conn : rtsp'[t].conn_status = 1 <=> reader'[t] # "none"
        /\ Accepting'
    BY <1>0, <2>1, <2>2, ServedStep DEF Kept
  <2>5. Own'
    BY <1>0, <2>1, <2>2, OwnKept
  <2> QED BY <1>0, <2>3, <2>4, <2>5 DEF ConnIInv, SlotHeld
<1>19. ASSUME NEW s \in Conn, InitTcp(s)
      PROVE  ConnIInv'
  <2>1. OnlyFd(rtsp, rtsp', s, "rtp_fd", rtsp[s].cli_fd)
    <3> DEFINE P == [rtsp EXCEPT ![s].rtspd_lock = @ - 1]
    <3>1. rtsp' = [P EXCEPT ![s].rtp_fd = rtsp[s].cli_fd]
      BY <1>19 DEF InitTcp, Woken
    <3>2. rtsp[s].rtspd_lock > 0
      BY <1>19 DEF InitTcp, Woken
    <3>3. rtsp[s].rtspd_lock - 1 \in 0..MaxPosts
      BY <1>rtsp, <3>2, SlotGet, ConnAssumption
    <3>4. P \in [Conn -> Slot] /\ Kept(rtsp, P)
      BY <1>rtsp, <3>3, SlotPut, SlotKeeps
    <3> HIDE DEF P
    <3>5. OnlyFd(P, rtsp', s, "rtp_fd", rtsp[s].cli_fd)
      BY <3>1, <3>4, FdPut
    <3> QED BY <3>4, <3>5, OnlyAfterKept DEF Field
  <2>2. /\ raced' = raced /\ picked' = picked /\ callback' = callback /\ reader' = reader
        /\ accept' = accept
        /\ clear' = clear
    BY <1>19 DEF InitTcp, Woken, place
  <2>3. owner' = owner /\ interleaved' = TRUE
    BY <1>19 DEF InitTcp, Woken
  <2>4. Own'
    BY <2>3 DEF Own
  <2>5. /\ \A t \in Conn : rtsp'[t].conn_status = rtsp[t].conn_status /\ rtsp'[t].cli_fd = rtsp[t].cli_fd
        /\ \A m \in Fd : owner'[m][1] = "cli" => owner'[m] = owner[m]
    BY <2>1, <2>3 DEF OnlyFd, Field
  <2>6. /\ ServedUnlessRaced'
        /\ \A t \in Conn : rtsp'[t].conn_status = 1 <=> reader'[t] # "none"
        /\ Accepting'
    BY <1>0, <2>2, <2>5, ServedStep
  <2> QED BY <1>0, <2>2, <2>4, <2>6 DEF ConnIInv, SlotHeld
<1>20. ASSUME NEW s \in Conn, InitUdp(s)
      PROVE  ConnIInv'
  <2>1. OnlyFd(rtsp, rtsp', s, "rtp_fd", [fd |-> NewFd, sock |-> <<"rtp", rtsp[s].host>>])
    <3> DEFINE P == [rtsp EXCEPT ![s].rtspd_lock = @ - 1]
    <3>1. rtsp' = [P EXCEPT ![s].rtp_fd = [fd |-> NewFd, sock |-> <<"rtp", rtsp[s].host>>]]
      BY <1>20 DEF InitUdp, Woken
    <3>2. rtsp[s].rtspd_lock > 0
      BY <1>20 DEF InitUdp, Woken
    <3>3. rtsp[s].rtspd_lock - 1 \in 0..MaxPosts
      BY <1>rtsp, <3>2, SlotGet, ConnAssumption
    <3>4. P \in [Conn -> Slot] /\ Kept(rtsp, P)
      BY <1>rtsp, <3>3, SlotPut, SlotKeeps
    <3> HIDE DEF P
    <3>5. OnlyFd(P, rtsp', s, "rtp_fd", [fd |-> NewFd, sock |-> <<"rtp", rtsp[s].host>>])
      BY <3>1, <3>4, FdPut
    <3> QED BY <3>4, <3>5, OnlyAfterKept DEF Field
  <2>2. /\ raced' = raced /\ picked' = picked /\ callback' = callback /\ reader' = reader
        /\ accept' = accept
        /\ clear' = clear
    BY <1>20 DEF InitUdp, Woken, place
  <2>3. NewFd \in Fd /\ owner[NewFd][1] = "closed" /\ <<"rtp", rtsp[s].host>> \in Socket
    BY <1>rtsp, <1>20, SlotGet, NewFdIs, Refs DEF InitUdp, Woken
  <2>3a. owner' = [owner EXCEPT ![NewFd] = <<"rtp", rtsp[s].host>>] /\ interleaved' = interleaved
    BY <1>20 DEF InitUdp, Woken
  <2>4. Own'
    BY <1>0, <2>1, <2>2, <2>3, <2>3a, OwnGiven DEF Field
  <2>5. /\ \A t \in Conn : rtsp'[t].conn_status = rtsp[t].conn_status /\ rtsp'[t].cli_fd = rtsp[t].cli_fd
        /\ \A m \in Fd : owner'[m][1] = "cli" => owner'[m] = owner[m]
    <3>1. \A m \in Fd : m # NewFd => owner'[m] = owner[m]
      BY <1>0, <2>3a DEF TypeOK
    <3>2. owner'[NewFd][1] = "rtp"
      BY <1>0, <2>3, <2>3a DEF TypeOK
    <3> QED BY <2>1, <3>1, <3>2 DEF OnlyFd, Field
  <2>6. /\ ServedUnlessRaced'
        /\ \A t \in Conn : rtsp'[t].conn_status = 1 <=> reader'[t] # "none"
        /\ Accepting'
    BY <1>0, <2>2, <2>5, ServedStep
  <2> QED BY <1>0, <2>2, <2>4, <2>6 DEF ConnIInv, SlotHeld
<1>21. ASSUME NEW s \in Conn, InitUdpFails(s)
      PROVE  ConnIInv'
  <2>1. rtsp[s].rtspd_lock > 0
    BY <1>21 DEF InitUdpFails, Woken
  <2>2. rtsp[s].rtspd_lock - 1 \in 0..MaxPosts
    BY <1>rtsp, <2>1, SlotGet, ConnAssumption
  <2> DEFINE R == Clearing(s)
             P == [R EXCEPT ![s].rtspd_lock = @ - 1]
  <2>3. R \in [Conn -> Slot] /\ Kept(rtsp, R) /\ R[s].rtspd_lock = rtsp[s].rtspd_lock
    BY <1>rtsp, ClearingIs
  <2>4. \/ owner' = owner /\ rtsp' = [P EXCEPT ![s].rtp_fd = NoRef]
        \/ /\ Unused # {} /\ owner' = [owner EXCEPT ![NewFd] = <<"rtp", rtsp[s].host>>]
           /\ rtsp' = [P EXCEPT ![s].rtp_fd = [fd |-> NewFd, sock |-> <<"rtp", rtsp[s].host>>]]
    BY <1>21 DEF InitUdpFails
  <2> HIDE DEF R
  <2>5. P \in [Conn -> Slot] /\ Kept(rtsp, P)
    <3>1. P \in [Conn -> Slot] /\ Kept(R, P)
      BY <2>2, <2>3, SlotPut, SlotKeeps
    <3> QED BY <2>3, <3>1 DEF Kept
  <2> HIDE DEF P
  <2>6. /\ raced' = raced /\ picked' = picked /\ callback' = callback /\ reader' = reader
        /\ accept' = accept
        /\ clear = Nobody /\ clear' = [by |-> "init", slot |-> s, next |-> "rtp_fd"]
        /\ interleaved' = interleaved
    BY <1>21 DEF InitUdpFails, Begin, place
  <2>7. \E x : OnlyFd(rtsp, rtsp', s, "rtp_fd", x)
    <3>1. \E x : OnlyFd(P, rtsp', s, "rtp_fd", x)
      <4>1. CASE rtsp' = [P EXCEPT ![s].rtp_fd = NoRef]
        <5>1. OnlyFd(P, rtsp', s, "rtp_fd", NoRef)
          BY <2>5, <4>1, FdPut
        <5> QED BY <5>1
      <4>2. CASE rtsp' = [P EXCEPT ![s].rtp_fd = [fd |-> NewFd, sock |-> <<"rtp", rtsp[s].host>>]]
        <5>1. OnlyFd(P, rtsp', s, "rtp_fd", [fd |-> NewFd, sock |-> <<"rtp", rtsp[s].host>>])
          BY <2>5, <4>2, FdPut
        <5> QED BY <5>1
      <4> QED BY <2>4, <4>1, <4>2
    <3> QED BY <2>5, <3>1, OnlyAfterKept DEF Field
  <2>8. \A t \in Conn : rtsp'[t].conn_status = rtsp[t].conn_status /\ rtsp'[t].cli_fd = rtsp[t].cli_fd
    BY <2>7 DEF OnlyFd, Field
  <2>9. Own' /\ \A m \in Fd : owner'[m][1] = "cli" => owner'[m] = owner[m]
    <3>1. CASE owner' = owner /\ rtsp' = [P EXCEPT ![s].rtp_fd = NoRef]
      <4>1. OnlyFd(rtsp, rtsp', s, "rtp_fd", NoRef)
        BY <2>5, <3>1, FdPut, OnlyAfterKept DEF Field
      <4> QED BY <1>0, <2>6, <3>1, <4>1, OwnForgotten DEF Field
    <3>2. CASE /\ Unused # {} /\ owner' = [owner EXCEPT ![NewFd] = <<"rtp", rtsp[s].host>>]
               /\ rtsp' = [P EXCEPT ![s].rtp_fd = [fd |-> NewFd, sock |-> <<"rtp", rtsp[s].host>>]]
      <4>1. NewFd \in Fd /\ owner[NewFd][1] = "closed" /\ <<"rtp", rtsp[s].host>> \in Socket
        BY <1>rtsp, <3>2, SlotGet, NewFdIs, Refs
      <4>2. OnlyFd(rtsp, rtsp', s, "rtp_fd", [fd |-> NewFd, sock |-> <<"rtp", rtsp[s].host>>])
        BY <2>5, <3>2, FdPut, OnlyAfterKept DEF Field
      <4>3. Own'
        BY <1>0, <2>6, <3>2, <4>1, <4>2, OwnGiven DEF Field
      <4>4. \A m \in Fd : m # NewFd => owner'[m] = owner[m]
        BY <1>0, <3>2 DEF TypeOK
      <4>5. owner'[NewFd][1] = "rtp"
        BY <1>0, <3>2, <4>1 DEF TypeOK
      <4> QED BY <4>3, <4>4, <4>5
    <3> QED BY <2>4, <3>1, <3>2
  <2>10. /\ ServedUnlessRaced'
         /\ \A t \in Conn : rtsp'[t].conn_status = 1 <=> reader'[t] # "none"
         /\ Accepting'
    BY <1>0, <2>6, <2>8, <2>9, ServedStep
  <2>11. SlotHeld'
    BY <1>0, <2>6, <2>10 DEF SlotHeld, Nobody
  <2> QED BY <1>0, <2>9, <2>10, <2>11 DEF ConnIInv
<1>22. ASSUME NEW s \in Conn, InitSending(s)
      PROVE  ConnIInv'
  <2>1. Kept(rtsp, rtsp')
    <3>1. rtsp' = [rtsp EXCEPT ![s].is_sending_data = TRUE]
      BY <1>22 DEF InitSending
    <3> QED BY <1>rtsp, <3>1, SlotKeeps
  <2>2. /\ owner' = owner /\ interleaved' = interleaved /\ raced' = raced /\ picked' = picked
        /\ callback' = callback /\ accept' = accept
        /\ \A t \in Conn : reader'[t] # "none" <=> reader[t] # "none"
    BY <1>reader, <1>22 DEF InitSending, place
  <2>3. /\ \A t \in Conn : reader'[t] \in {"leave", "quit"} => clear'.by = "reader" /\ clear'.slot = t
        /\ clear'.by = "reader" => reader'[clear'.slot] \in {"leave", "quit"}
    BY <1>0, <1>reader, <1>22 DEF InitSending, SlotHeld
  <2>4. /\ ServedUnlessRaced'
        /\ \A t \in Conn : rtsp'[t].conn_status = 1 <=> reader'[t] # "none"
        /\ Accepting'
    BY <1>0, <2>1, <2>2, ServedStep DEF Kept
  <2>5. Own'
    BY <1>0, <2>1, <2>2, OwnKept
  <2> QED BY <1>0, <2>3, <2>4, <2>5 DEF ConnIInv, SlotHeld
<1>23. ASSUME NEW s \in Conn, InitRtcpTcp(s)
      PROVE  ConnIInv'
  <2>1. OnlyFd(rtsp, rtsp', s, "rtcp_fd", rtsp[s].cli_fd)
    <3>1. rtsp' = [rtsp EXCEPT ![s].rtcp_fd = rtsp[s].cli_fd]
      BY <1>23 DEF InitRtcpTcp
    <3> QED BY <1>rtsp, <3>1, FdPut
  <2>2. /\ raced' = raced /\ picked' = picked /\ callback' = callback /\ reader' = reader
        /\ accept' = accept
        /\ clear' = clear
    BY <1>23 DEF InitRtcpTcp, place
  <2>3. owner' = owner /\ interleaved' = TRUE
    BY <1>23 DEF InitRtcpTcp
  <2>4. Own'
    BY <2>3 DEF Own
  <2>5. /\ \A t \in Conn : rtsp'[t].conn_status = rtsp[t].conn_status /\ rtsp'[t].cli_fd = rtsp[t].cli_fd
        /\ \A m \in Fd : owner'[m][1] = "cli" => owner'[m] = owner[m]
    BY <2>1, <2>3 DEF OnlyFd, Field
  <2>6. /\ ServedUnlessRaced'
        /\ \A t \in Conn : rtsp'[t].conn_status = 1 <=> reader'[t] # "none"
        /\ Accepting'
    BY <1>0, <2>2, <2>5, ServedStep
  <2> QED BY <1>0, <2>2, <2>4, <2>6 DEF ConnIInv, SlotHeld
<1>24. ASSUME NEW s \in Conn, InitRtcpUdp(s)
      PROVE  ConnIInv'
  <2>1. OnlyFd(rtsp, rtsp', s, "rtcp_fd", [fd |-> NewFd, sock |-> <<"rtcp", rtsp[s].host>>])
    <3>1. rtsp' = [rtsp EXCEPT ![s].rtcp_fd = [fd |-> NewFd, sock |-> <<"rtcp", rtsp[s].host>>]]
      BY <1>24 DEF InitRtcpUdp
    <3> QED BY <1>rtsp, <3>1, FdPut
  <2>2. /\ raced' = raced /\ picked' = picked /\ callback' = callback /\ reader' = reader
        /\ accept' = accept
        /\ clear' = clear
    BY <1>24 DEF InitRtcpUdp, place
  <2>3. NewFd \in Fd /\ owner[NewFd][1] = "closed" /\ <<"rtcp", rtsp[s].host>> \in Socket
    BY <1>rtsp, <1>24, SlotGet, NewFdIs, Refs DEF InitRtcpUdp
  <2>3a. owner' = [owner EXCEPT ![NewFd] = <<"rtcp", rtsp[s].host>>] /\ interleaved' = interleaved
    BY <1>24 DEF InitRtcpUdp
  <2>4. Own'
    BY <1>0, <2>1, <2>2, <2>3, <2>3a, OwnGiven DEF Field
  <2>5. /\ \A t \in Conn : rtsp'[t].conn_status = rtsp[t].conn_status /\ rtsp'[t].cli_fd = rtsp[t].cli_fd
        /\ \A m \in Fd : owner'[m][1] = "cli" => owner'[m] = owner[m]
    <3>1. \A m \in Fd : m # NewFd => owner'[m] = owner[m]
      BY <1>0, <2>3a DEF TypeOK
    <3>2. owner'[NewFd][1] = "rtcp"
      BY <1>0, <2>3, <2>3a DEF TypeOK
    <3> QED BY <2>1, <3>1, <3>2 DEF OnlyFd, Field
  <2>6. /\ ServedUnlessRaced'
        /\ \A t \in Conn : rtsp'[t].conn_status = 1 <=> reader'[t] # "none"
        /\ Accepting'
    BY <1>0, <2>2, <2>5, ServedStep
  <2> QED BY <1>0, <2>2, <2>4, <2>6 DEF ConnIInv, SlotHeld
<1>25. ASSUME NEW s \in Conn, InitRtcpFails(s)
      PROVE  ConnIInv'
  <2>1. OnlyFd(rtsp, rtsp', s, "rtcp_fd", NoRef)
    <3>1. rtsp' = [rtsp EXCEPT ![s].rtcp_fd = NoRef]
      BY <1>25 DEF InitRtcpFails
    <3> QED BY <1>rtsp, <3>1, FdPut
  <2>2. /\ raced' = raced /\ picked' = picked /\ callback' = callback /\ reader' = reader
        /\ accept' = accept
        /\ clear' = clear
    BY <1>25 DEF InitRtcpFails, place
  <2>3. owner' = owner /\ interleaved' = interleaved
    BY <1>25 DEF InitRtcpFails
  <2>4. Own'
    BY <1>0, <2>1, <2>2, <2>3, OwnForgotten DEF Field
  <2>5. /\ \A t \in Conn : rtsp'[t].conn_status = rtsp[t].conn_status /\ rtsp'[t].cli_fd = rtsp[t].cli_fd
        /\ \A m \in Fd : owner'[m][1] = "cli" => owner'[m] = owner[m]
    BY <2>1, <2>3 DEF OnlyFd, Field
  <2>6. /\ ServedUnlessRaced'
        /\ \A t \in Conn : rtsp'[t].conn_status = 1 <=> reader'[t] # "none"
        /\ Accepting'
    BY <1>0, <2>2, <2>5, ServedStep
  <2> QED BY <1>0, <2>2, <2>4, <2>6 DEF ConnIInv, SlotHeld
<1>26. ASSUME NEW s \in Conn, FrameFails(s)
      PROVE  ConnIInv'
  <2>1. Kept(rtsp, rtsp')
    <3>1. rtsp' = Clearing(s)
      BY <1>26 DEF FrameFails
    <3> QED BY <1>rtsp, <3>1, ClearingIs
  <2>2. /\ owner' = owner /\ interleaved' = interleaved /\ raced' = raced /\ picked' = picked
        /\ callback' = callback /\ accept' = accept
        /\ \A t \in Conn : reader'[t] # "none" <=> reader[t] # "none"
    BY <1>reader, <1>26 DEF FrameFails, place
  <2>3. /\ \A t \in Conn : reader'[t] \in {"leave", "quit"} => clear'.by = "reader" /\ clear'.slot = t
        /\ clear'.by = "reader" => reader'[clear'.slot] \in {"leave", "quit"}
    BY <1>0, <1>reader, <1>26 DEF FrameFails, SlotHeld, Begin, Nobody, Transport
  <2>4. /\ ServedUnlessRaced'
        /\ \A t \in Conn : rtsp'[t].conn_status = 1 <=> reader'[t] # "none"
        /\ Accepting'
    BY <1>0, <2>1, <2>2, ServedStep DEF Kept
  <2>5. Own'
    BY <1>0, <2>1, <2>2, OwnKept
  <2> QED BY <1>0, <2>3, <2>4, <2>5 DEF ConnIInv, SlotHeld
<1>27. ASSUME NEW s \in Conn, NEW k \in Transport, RtcpLook(s, k)
      PROVE  ConnIInv'
  <2>1. Kept(rtsp, rtsp')
    BY <1>27 DEF RtcpLook, Kept
  <2>2. /\ owner' = owner /\ interleaved' = interleaved /\ raced' = raced /\ picked' = picked
        /\ callback' = callback /\ accept' = accept
        /\ \A t \in Conn : reader'[t] # "none" <=> reader[t] # "none"
    BY <1>reader, <1>27 DEF RtcpLook, place
  <2>3. /\ \A t \in Conn : reader'[t] \in {"leave", "quit"} => clear'.by = "reader" /\ clear'.slot = t
        /\ clear'.by = "reader" => reader'[clear'.slot] \in {"leave", "quit"}
    BY <1>0, <1>reader, <1>27 DEF RtcpLook, SlotHeld
  <2>4. /\ ServedUnlessRaced'
        /\ \A t \in Conn : rtsp'[t].conn_status = 1 <=> reader'[t] # "none"
        /\ Accepting'
    BY <1>0, <2>1, <2>2, ServedStep DEF Kept
  <2>5. Own'
    BY <1>0, <2>1, <2>2, OwnKept
  <2> QED BY <1>0, <2>3, <2>4, <2>5 DEF ConnIInv, SlotHeld
<1>28. ASSUME NEW s \in Conn, NEW k \in Transport, RtcpEnd(s, k)
      PROVE  ConnIInv'
  <2>1. Kept(rtsp, rtsp')
    BY <1>28 DEF RtcpEnd, Kept
  <2>2. /\ owner' = owner /\ interleaved' = interleaved /\ raced' = raced /\ picked' = picked
        /\ callback' = callback /\ accept' = accept
        /\ \A t \in Conn : reader'[t] # "none" <=> reader[t] # "none"
    BY <1>reader, <1>28 DEF RtcpEnd, place
  <2>3. /\ \A t \in Conn : reader'[t] \in {"leave", "quit"} => clear'.by = "reader" /\ clear'.slot = t
        /\ clear'.by = "reader" => reader'[clear'.slot] \in {"leave", "quit"}
    BY <1>0, <1>reader, <1>28 DEF RtcpEnd, SlotHeld
  <2>4. /\ ServedUnlessRaced'
        /\ \A t \in Conn : rtsp'[t].conn_status = 1 <=> reader'[t] # "none"
        /\ Accepting'
    BY <1>0, <2>1, <2>2, ServedStep DEF Kept
  <2>5. Own'
    BY <1>0, <2>1, <2>2, OwnKept
  <2> QED BY <1>0, <2>3, <2>4, <2>5 DEF ConnIInv, SlotHeld
<1>29. ASSUME NEW s \in Conn, NEW k \in Transport, RtcpSent(s, k)
      PROVE  ConnIInv'
  <2>1. Kept(rtsp, rtsp')
    BY <1>29 DEF RtcpSent, Kept
  <2>2. /\ owner' = owner /\ interleaved' = interleaved /\ raced' = raced /\ picked' = picked
        /\ callback' = callback /\ accept' = accept
        /\ \A t \in Conn : reader'[t] # "none" <=> reader[t] # "none"
    BY <1>reader, <1>29 DEF RtcpSent, place
  <2>3. /\ \A t \in Conn : reader'[t] \in {"leave", "quit"} => clear'.by = "reader" /\ clear'.slot = t
        /\ clear'.by = "reader" => reader'[clear'.slot] \in {"leave", "quit"}
    BY <1>0, <1>reader, <1>29 DEF RtcpSent, SlotHeld
  <2>4. /\ ServedUnlessRaced'
        /\ \A t \in Conn : rtsp'[t].conn_status = 1 <=> reader'[t] # "none"
        /\ Accepting'
    BY <1>0, <2>1, <2>2, ServedStep DEF Kept
  <2>5. Own'
    BY <1>0, <2>1, <2>2, OwnKept
  <2> QED BY <1>0, <2>3, <2>4, <2>5 DEF ConnIInv, SlotHeld
<1>30. ASSUME NEW s \in Conn, NEW k \in Transport, RtcpFails(s, k)
      PROVE  ConnIInv'
  <2>1. Kept(rtsp, rtsp')
    <3>1. rtsp' = Clearing(s)
      BY <1>30 DEF RtcpFails
    <3> QED BY <1>rtsp, <3>1, ClearingIs
  <2>2. /\ owner' = owner /\ interleaved' = interleaved /\ raced' = raced /\ picked' = picked
        /\ callback' = callback /\ accept' = accept
        /\ \A t \in Conn : reader'[t] # "none" <=> reader[t] # "none"
    BY <1>reader, <1>30 DEF RtcpFails, place
  <2>3. /\ \A t \in Conn : reader'[t] \in {"leave", "quit"} => clear'.by = "reader" /\ clear'.slot = t
        /\ clear'.by = "reader" => reader'[clear'.slot] \in {"leave", "quit"}
    BY <1>0, <1>reader, <1>30 DEF RtcpFails, SlotHeld, Begin, Nobody, Transport
  <2>4. /\ ServedUnlessRaced'
        /\ \A t \in Conn : rtsp'[t].conn_status = 1 <=> reader'[t] # "none"
        /\ Accepting'
    BY <1>0, <2>1, <2>2, ServedStep DEF Kept
  <2>5. Own'
    BY <1>0, <2>1, <2>2, OwnKept
  <2> QED BY <1>0, <2>3, <2>4, <2>5 DEF ConnIInv, SlotHeld
<1>31. CASE UNCHANGED connVars
  BY <1>0, <1>31 DEF ConnIInv, SlotHeld, Own, Accepting, ServedUnlessRaced, IsFirstFree, FreeSlots, connVars, place
<1> QED
  BY <1>1, <1>2, <1>3, <1>4, <1>4a, <1>4b, <1>5, <1>5a, <1>5b, <1>6, <1>7, <1>8, <1>9, <1>10, <1>11, <1>12, <1>13, <1>14, <1>15, <1>16, <1>17, <1>18, <1>19, <1>20, <1>21, <1>22, <1>23, <1>24, <1>25, <1>26, <1>27, <1>28, <1>29, <1>30, <1>31
  DEF ConnNext, AcceptStep, CallbackStep, ClearStep, ReaderStep, InitStep, RtcpStep

-----------------------------------------------------------------------------
(* Every slot that is in use has its reader, and a reader that leaves is   *)
(* the thread that clears its slot (rtspd_freechn, set_free_conn_status).  *)
THEOREM SlotsHeld == ConnSpec => []ConnInv
<1>1. ConnIInv => ConnInv
  BY DEF ConnIInv, ConnInv
<1> QED BY ConnInit_IInv, ConnNext_IInv, <1>1, PTL DEF ConnSpec

(* tcp_accept, rtspd_freechn: without a race every open connection is      *)
(* served or about to be.                                                  *)
THEOREM AllServed == ConnSpec => []ServedUnlessRaced
<1>1. ConnIInv => ServedUnlessRaced
  BY DEF ConnIInv
<1> QED BY ConnInit_IInv, ConnNext_IInv, <1>1, PTL DEF ConnSpec

(* rtsp_tcp_para_clear closes what the slot was given and nothing else,    *)
(* until a client's connection carries its media.                          *)
THEOREM ClosesOwn == ConnSpec => OwnClose
<1> DEFINE A == \A n \in Fd :
                  clear.by # "nobody" /\ owner[n][1] # "closed" /\ owner'[n][1] = "closed"
                  => LET r == rtsp[clear.slot][clear.next]
                     IN r.fd = n /\ (r.sock = owner[n] \/ interleaved)
<1>1. ConnIInv /\ [ConnNext]_connVars => [A]_connVars
  <2> SUFFICES ASSUME ConnIInv, ConnNext, NEW n \in Fd,
                      owner[n][1] # "closed", owner'[n][1] = "closed"
               PROVE  LET r == rtsp[clear.slot][clear.next]
                      IN r.fd = n /\ (r.sock = owner[n] \/ interleaved)
    OBVIOUS
  <2> DEFINE r == rtsp[clear.slot][clear.next]
  <2>1. ConnIInv' /\ TypeOK /\ Own /\ owner' # owner
    BY ConnNext_IInv DEF ConnIInv
  <2>2. owner' = Closed(r)
    <3>1. CASE ClearStep
      BY <3>1 DEF ClearStep, CloseMedia, CloseClient
    <3>2. ASSUME NEW m \in Unused, NEW k \in Socket, owner' = [owner EXCEPT ![m] = k]
          PROVE  FALSE
      <4>1. owner'[n] = IF n = m THEN k ELSE owner[n]
        BY <2>1, <3>2 DEF TypeOK
      <4> QED BY <4>1, Refs
    <3>3. Unused # {} => NewFd \in Unused
      BY NewFdIs DEF Unused
    <3>4. \A s \in Conn : rtsp[s].host \in Client \cup {"none"}
      BY <2>1, SlotGet DEF TypeOK
    <3>5. ASSUME NEW c \in Client, AcceptLook(c)
          PROVE  FALSE
      <4>1. owner' = [owner EXCEPT ![NewFd] = <<"cli", c>>] /\ Unused # {} /\ <<"cli", c>> \in Socket
        BY <3>5, Refs DEF AcceptLook
      <4> QED BY <3>2, <3>3, <4>1
    <3>6. ASSUME NEW s \in Conn, InitStep(s)
          PROVE  FALSE
      <4>1. <<"rtp", rtsp[s].host>> \in Socket /\ <<"rtcp", rtsp[s].host>> \in Socket
        BY <3>4, Refs
      <4>2. /\ Unused # {}
            /\ \/ owner' = [owner EXCEPT ![NewFd] = <<"rtp", rtsp[s].host>>]
               \/ owner' = [owner EXCEPT ![NewFd] = <<"rtcp", rtsp[s].host>>]
        BY <2>1, <3>6 DEF InitStep, InitEnd, InitTcp, InitUdp, InitUdpFails, InitSending,
                          InitRtcpTcp, InitRtcpUdp, InitRtcpFails
      <4> QED BY <3>2, <3>3, <4>1, <4>2
    <3>7. ASSUME NEW s \in Conn, ReaderStep(s) \/ FrameFails(s) \/ \E k \in Transport : RtcpStep(s, k)
          PROVE  FALSE
      BY <2>1, <3>7 DEF ReaderStep, Read, ReadEnd, ReadError, GiveUp, Answer, AnswerFails, Teardown,
                        PassOver, NoMatch, FrameFails, RtcpStep, RtcpLook, RtcpEnd, RtcpSent, RtcpFails
    <3>8. ASSUME NEW c \in Client, HangUp(c) \/ Reset(c) \/ AcceptRefused(c)
          PROVE  FALSE
      BY <2>1, <3>8 DEF HangUp, Reset, AcceptRefused
    <3>9. CASE CallbackStep \/ AcceptFill \/ AcceptSignal
      BY <2>1, <3>9 DEF CallbackStep, CallbackWait, CallbackStir, CallbackTake, CallbackWild,
                        CallbackSpawn, AcceptFill, AcceptSignal
    <3> QED BY <3>1, <3>5, <3>6, <3>7, <3>8, <3>9 DEF ConnNext, AcceptStep
  <2>3. r.fd = n
    BY <2>1, <2>2 DEF Closed, TypeOK
  <2>4. clear.slot \in Conn /\ clear.next \in Field /\ n # 0
    BY <2>1, ConnAssumption DEF TypeOK, Fd
  <2>5. r.sock = owner[n] \/ interleaved
    BY <2>1, <2>3, <2>4 DEF Own
  <2> QED BY <2>3, <2>5
<1> QED BY ConnInit_IInv, ConnNext_IInv, <1>1, PTL DEF ConnSpec, OwnClose
-----------------------------------------------------------------------------
(* The init threads.                                                       *)

(* The clients that have not come, and that they, the client that is being *)
(* accepted, the wake-up of the callback, the wake-ups without a signal    *)
(* that may come, and the threads that wait or are about to be started are *)
(* no more in all than the posts that are counted.                         *)
Coming == {c \in Client : peer[c] = "out"}
Accepted == IF accept.at = "idle" THEN 0 ELSE 1
Signalled == IF callback \in {"woken", "stirred"} THEN 1 ELSE 0
Still == Cardinality(Coming) + Accepted + Signalled + script.mishaps
FewWait == \A s \in Conn : Waiting(s) + Still <= MaxPosts

Runs(s) == reader[s] \notin {"none", "quit"}

(* A step that leaves no thread of slot s with a post less than before.    *)
Quiet(s) ==
    /\ callback' = callback /\ chn' = chn /\ accept' = accept
    /\ Runs(s) => Runs(s)'
    /\ \/ init'[s].wait = init[s].wait /\ rtsp'[s].rtspd_lock >= rtsp[s].rtspd_lock
       \/ /\ init'[s].wait = init[s].wait - 1
          /\ rtsp'[s].rtspd_lock = rtsp[s].rtspd_lock - 1

(* Which posts are there when a field of a slot is set.                    *)
SamePosts(R, Q) == \A t \in Conn : Q[t].rtspd_lock = R[t].rtspd_lock

LEMMA PostsKept ==
    ASSUME NEW R \in [Conn -> Slot], NEW s \in Conn, NEW x
    PROVE  /\ SamePosts(R, [R EXCEPT ![s].conn_status = x])
           /\ SamePosts(R, [R EXCEPT ![s].cli_fd = x])
           /\ SamePosts(R, [R EXCEPT ![s].rtp_fd = x])
           /\ SamePosts(R, [R EXCEPT ![s].rtcp_fd = x])
           /\ SamePosts(R, [R EXCEPT ![s].rtp_tcp_mode = x])
           /\ SamePosts(R, [R EXCEPT ![s].channel = x])
           /\ SamePosts(R, [R EXCEPT ![s].is_sending_data = x])
           /\ SamePosts(R, [R EXCEPT ![s].rtspd_status = x])
           /\ SamePosts(R, [R EXCEPT ![s].in_buffer = x])
BY DEF Slot, SamePosts

LEMMA ClearingPosts ==
    ASSUME NEW s \in Conn, rtsp \in [Conn -> Slot]
    PROVE  SamePosts(rtsp, Clearing(s))
<1> DEFINE Q == [rtsp EXCEPT ![s].channel = FALSE]
<1>1. SamePosts(rtsp, Q) /\ Q \in [Conn -> Slot]
  BY PostsKept, SlotPut
<1>2. Clearing(s) = [Q EXCEPT ![s].rtp_tcp_mode = "udp"]
  BY DEF Clearing
<1> HIDE DEF Q
<1>3. SamePosts(Q, Clearing(s))
  <2>1. SamePosts(Q, [Q EXCEPT ![s].rtp_tcp_mode = "udp"])
    BY <1>1, PostsKept
  <2> QED BY <1>2, <2>1
<1> QED BY <1>1, <1>3 DEF SamePosts

(* rtsp_cmd_match takes no post away.                                      *)
LEMMA AnswerPosts ==
    ASSUME NEW r \in Slot
    PROVE  Answered(r).rtspd_lock >= r.rtspd_lock
<1>1. r.rtspd_lock \in Nat
  BY ConnAssumption DEF Slot
<1>2. CASE r.in_buffer = "setup_udp"
  <2>1. Answered(r) = [r EXCEPT !.rtp_tcp_mode = "udp", !.port = TRUE, !.rtspd_status = "other"]
    BY <1>2 DEF Answered
  <2>2. Answered(r).rtspd_lock = r.rtspd_lock
    BY <2>1 DEF Slot
  <2> QED BY <1>1, <2>2
<1>3. CASE r.in_buffer = "setup_tcp"
  <2>1. Answered(r) = [r EXCEPT !.rtp_tcp_mode = "tcp", !.channel = TRUE, !.rtspd_status = "other"]
    BY <1>3 DEF Answered
  <2>2. Answered(r).rtspd_lock = r.rtspd_lock
    BY <2>1 DEF Slot
  <2> QED BY <1>1, <2>2
<1>4. CASE r.in_buffer = "play"
  <2>1. Answered(r) = [r EXCEPT !.rtspd_status = "play", !.rtspd_lock = Post(@), !.conn_status = 1]
    BY <1>4 DEF Answered
  <2>2. Answered(r).rtspd_lock = Post(r.rtspd_lock)
    BY <2>1 DEF Slot
  <2> QED BY <1>1, <2>2, ConnAssumption DEF Post
<1>5. CASE r.in_buffer \notin {"setup_udp", "setup_tcp", "play"}
  <2>1. Answered(r) = [r EXCEPT !.rtspd_status = "other"]
    BY <1>5 DEF Answered
  <2>2. Answered(r).rtspd_lock = r.rtspd_lock
    BY <2>1 DEF Slot
  <2> QED BY <1>1, <2>2
<1> QED BY <1>2, <1>3, <1>4, <1>5

LEMMA WaitCounts ==
    ASSUME TypeOK, NEW s \in Conn
    PROVE  /\ init[s].wait \in Nat /\ rtsp[s].rtspd_lock \in Nat
           /\ rtsp[s].rtspd_lock <= MaxPosts
           /\ Waiting(s) \in Nat /\ Posts(s) \in Nat
<1>1. init[s].wait \in Nat
  BY DEF TypeOK
<1>2. rtsp[s].rtspd_lock \in Nat /\ rtsp[s].rtspd_lock <= MaxPosts
  <2>1. rtsp \in [Conn -> Slot]
    BY DEF TypeOK
  <2>2. rtsp[s].rtspd_lock \in 0..MaxPosts
    BY <2>1, SlotGet
  <2> QED BY <2>2, ConnAssumption
<1> QED BY <1>1, <1>2 DEF Waiting, Posts

LEMMA WaitCountsNext ==
    ASSUME TypeOK', NEW s \in Conn
    PROVE  /\ init'[s].wait \in Nat /\ rtsp'[s].rtspd_lock \in Nat
           /\ Waiting(s)' \in Nat /\ Posts(s)' \in Nat
<1>1. init'[s].wait \in Nat
  BY DEF TypeOK
<1>2. rtsp'[s].rtspd_lock \in Nat
  <2>1. rtsp' \in [Conn -> Slot]
    BY DEF TypeOK
  <2>2. rtsp'[s].rtspd_lock \in 0..MaxPosts
    BY <2>1, SlotGet
  <2> QED BY <2>2, ConnAssumption
<1> QED BY <1>1, <1>2 DEF Waiting, Posts

(* What is still to come is counted, and nothing adds to the clients that  *)
(* have not come or to the mishaps.                                        *)
LEMMA StillIs ==
    ASSUME TypeOK
    PROVE  /\ IsFiniteSet(Coming) /\ Cardinality(Coming) \in Nat
           /\ Accepted \in {0, 1} /\ Signalled \in {0, 1} /\ script.mishaps \in Nat
<1>1. Coming \subseteq Client
  BY DEF Coming
<1>2. IsFiniteSet(Coming)
  BY <1>1, PostsAssumption, FS_Subset
<1>3. script.mishaps \in Nat
  BY DEF TypeOK, Script
<1> QED BY <1>2, <1>3, FS_CardinalityType DEF Accepted, Signalled

LEMMA StillNextIs ==
    ASSUME TypeOK'
    PROVE  /\ IsFiniteSet(Coming') /\ Cardinality(Coming') \in Nat
           /\ Accepted' \in {0, 1} /\ Signalled' \in {0, 1} /\ script'.mishaps \in Nat
<1>1. Coming' \subseteq Client
  BY DEF Coming
<1>2. IsFiniteSet(Coming')
  BY <1>1, PostsAssumption, FS_Subset
<1>3. script'.mishaps \in Nat
  BY DEF TypeOK, Script
<1> QED BY <1>2, <1>3, FS_CardinalityType DEF Accepted, Signalled

LEMMA ComingFewer ==
    ASSUME TypeOK, TypeOK', [ConnNext]_connVars
    PROVE  Cardinality(Coming') <= Cardinality(Coming)
<1>1. Coming' \subseteq Coming
  <2> SUFFICES ASSUME NEW c \in Client, peer'[c] = "out"
               PROVE  peer[c] = "out"
    BY DEF Coming
  <2>1. CASE peer' = peer
    BY <2>1
  <2>2. CASE \E d \in Client : HangUp(d) \/ Reset(d) \/ AcceptRefused(d) \/ AcceptLook(d)
    <3>1. peer \in [Client -> {"out", "up", "fin", "reset"}]
      BY DEF TypeOK
    <3>2. PICK d \in Client : peer' \in {[peer EXCEPT ![d] = x] : x \in {"up", "fin", "reset"}}
      BY <2>2 DEF HangUp, Reset, AcceptRefused, AcceptLook
    <3> QED BY <3>1, <3>2
  <2>3. \/ peer' = peer
        \/ \E d \in Client : HangUp(d) \/ Reset(d) \/ AcceptRefused(d) \/ AcceptLook(d)
    <3>1. CASE CallbackStep \/ ClearStep \/ AcceptFill \/ AcceptSignal
      BY <3>1 DEF CallbackStep, CallbackWait, CallbackStir, CallbackTake, CallbackWild, CallbackSpawn,
                  ClearStep, CloseMedia, CloseClient, AcceptFill, AcceptSignal
    <3>2. ASSUME NEW s \in Conn, ReaderStep(s) PROVE peer' = peer
      BY <3>2 DEF ReaderStep, Read, ReadEnd, ReadError, GiveUp, Answer, AnswerFails, Teardown,
                  PassOver, NoMatch
    <3>3. ASSUME NEW s \in Conn, InitStep(s) PROVE peer' = peer
      BY <3>3 DEF InitStep, InitEnd, InitTcp, InitUdp, InitUdpFails, InitSending, InitRtcpTcp,
                  InitRtcpUdp, InitRtcpFails
    <3>4. ASSUME NEW s \in Conn, FrameFails(s) PROVE peer' = peer
      BY <3>4 DEF FrameFails
    <3>5. ASSUME NEW s \in Conn, NEW k \in Transport, RtcpStep(s, k) PROVE peer' = peer
      BY <3>5 DEF RtcpStep, RtcpLook, RtcpEnd, RtcpSent, RtcpFails
    <3>6. CASE UNCHANGED connVars
      BY <3>6 DEF connVars
    <3> QED BY <3>1, <3>2, <3>3, <3>4, <3>5, <3>6 DEF ConnNext, AcceptStep
  <2> QED BY <2>1, <2>2, <2>3
<1> QED BY <1>1, StillIs, FS_Subset

LEMMA MishapsFewer ==
    ASSUME TypeOK, ConnNext
    PROVE  \/ CallbackStir
           \/ script'.mishaps <= script.mishaps
<1>1. script.mishaps \in Nat /\ script \in Script
  BY StillIs DEF TypeOK
<1>2. Mishap => script'.mishaps <= script.mishaps
  BY <1>1 DEF Mishap, Script
<1>3. script' = script => script'.mishaps <= script.mishaps
  BY <1>1
<1>4. ASSUME NEW c \in Client, HangUp(c) \/ Reset(c) \/ AcceptRefused(c) \/ AcceptLook(c)
      PROVE  script' = script
  BY <1>4 DEF HangUp, Reset, AcceptRefused, AcceptLook
<1>5. CASE AcceptFill \/ AcceptSignal \/ (CallbackStep /\ ~CallbackStir) \/ ClearStep
  <2>1. script' = script
    BY <1>5 DEF AcceptFill, AcceptSignal, CallbackStep, CallbackWait, CallbackTake, CallbackWild,
                CallbackSpawn, ClearStep, CloseMedia, CloseClient
  <2> QED BY <1>3, <2>1
<1>6. ASSUME NEW s \in Conn, ReaderStep(s)
      PROVE  script'.mishaps <= script.mishaps
  <2>1. CASE Read(s)
    <3>1. PICK x, c : script' = [script EXCEPT !.requests[c] = x]
      BY <2>1 DEF Read
    <3>2. script'.mishaps = script.mishaps
      BY <1>1, <3>1 DEF Script
    <3> QED BY <1>1, <3>2
  <2>2. CASE ~Read(s)
    <3>1. script' = script \/ Mishap
      BY <1>6, <2>2 DEF ReaderStep, ReadEnd, ReadError, GiveUp, Answer, AnswerFails, Teardown,
                        PassOver, NoMatch
    <3> QED BY <1>2, <1>3, <3>1
  <2> QED BY <2>1, <2>2
<1>7. ASSUME NEW s \in Conn, InitStep(s) \/ FrameFails(s) \/ \E k \in Transport : RtcpStep(s, k)
      PROVE  script'.mishaps <= script.mishaps
  <2>1. script' = script \/ Mishap
    BY <1>7 DEF InitStep, InitEnd, InitTcp, InitUdp, InitUdpFails, InitSending, InitRtcpTcp,
                InitRtcpUdp, InitRtcpFails, FrameFails, RtcpStep, RtcpLook, RtcpEnd, RtcpSent, RtcpFails
  <2> QED BY <1>2, <1>3, <2>1
<1> QED BY <1>3, <1>4, <1>5, <1>6, <1>7 DEF ConnNext, AcceptStep

(* Every step that may leave a thread with a post less.                    *)
LEMMA QuietUnless ==
    ASSUME TypeOK, ConnNext, NEW s \in Conn
    PROVE  \/ AcceptStep
           \/ CallbackStep
           \/ CloseClient
           \/ \E t \in Conn : Teardown(t)
           \/ Quiet(s)
<1> USE DEF place
<1>rtsp. rtsp \in [Conn -> Slot] /\ rtsp[s].rtspd_lock \in Nat /\ init[s].wait \in Nat
  BY WaitCounts DEF TypeOK
<1>reader. reader \in [Conn -> {"none", "read", "match", "leave", "quit"}]
  BY DEF TypeOK
<1>runs. ASSUME NEW t \in Conn, NEW x \in {"read", "match", "leave"}, reader' = [reader EXCEPT ![t] = x]
         PROVE  Runs(s) => Runs(s)'
  <2>1. reader'[s] = IF s = t THEN x ELSE reader[s]
    BY <1>reader, <1>runs
  <2> QED BY <2>1 DEF Runs
<1>calm. ASSUME callback' = callback, accept' = accept, chn' = chn, init' = init, Runs(s) => Runs(s)',
                rtsp'[s].rtspd_lock >= rtsp[s].rtspd_lock
         PROVE  Quiet(s)
  BY <1>calm DEF Quiet
<1>1. ASSUME NEW c \in Client, HangUp(c) \/ Reset(c)
      PROVE  Quiet(s)
  BY <1>rtsp, <1>1 DEF HangUp, Reset, Quiet, Runs
<1>2. CASE CloseMedia
  <2>1. rtsp'[s].rtspd_lock = rtsp[s].rtspd_lock
    <3>1. clear.slot \in Conn /\ clear.next \in {"rtp_fd", "rtcp_fd"}
      BY <1>2 DEF CloseMedia, TypeOK, Field
    <3>2. \/ rtsp' = [rtsp EXCEPT ![clear.slot].rtp_fd = NoRef]
          \/ rtsp' = [rtsp EXCEPT ![clear.slot].rtcp_fd = NoRef]
      BY <1>2, <3>1 DEF CloseMedia
    <3>3. SamePosts(rtsp, [rtsp EXCEPT ![clear.slot].rtp_fd = NoRef])
          /\ SamePosts(rtsp, [rtsp EXCEPT ![clear.slot].rtcp_fd = NoRef])
      BY <1>rtsp, <3>1, PostsKept
    <3> QED BY <3>2, <3>3 DEF SamePosts
  <2> QED BY <1>rtsp, <1>2, <2>1 DEF CloseMedia, Quiet, Runs
<1>3. ASSUME NEW t \in Conn, ReaderStep(t), ~Teardown(t)
      PROVE  Quiet(s)
  <2>1. CASE Read(t)
    <3>1. PICK x : rtsp' = [rtsp EXCEPT ![t].in_buffer = x]
      BY <2>1 DEF Read
    <3>2. rtsp'[s].rtspd_lock = rtsp[s].rtspd_lock
      BY <1>rtsp, <3>1, PostsKept DEF SamePosts
    <3>3. reader' = [reader EXCEPT ![t] = "match"] /\ callback' = callback /\ accept' = accept /\ chn' = chn /\ init' = init
      BY <2>1 DEF Read
    <3>4. Runs(s) => Runs(s)'
      BY <1>runs, <3>3
    <3> QED BY <1>rtsp, <1>calm, <3>2, <3>3, <3>4
  <2>2. CASE ReadEnd(t) \/ PassOver(t)
    <3>1. /\ reader' = [reader EXCEPT ![t] = "match"] \/ reader' = [reader EXCEPT ![t] = "read"]
          /\ callback' = callback /\ accept' = accept /\ chn' = chn /\ init' = init /\ rtsp' = rtsp
      BY <2>2 DEF ReadEnd, PassOver
    <3> QED BY <1>rtsp, <1>runs, <1>calm, <3>1
  <2>3. CASE Answer(t)
    <3>1. rtsp'[s].rtspd_lock >= rtsp[s].rtspd_lock
      <4>0. rtsp' = [rtsp EXCEPT ![t] = Answered(@)]
        BY <2>3 DEF Answer
      <4>1. CASE s = t
        <5>1. rtsp'[s] = Answered(rtsp[s])
          BY <1>rtsp, <4>0, <4>1
        <5> QED BY <1>rtsp, <5>1, AnswerPosts
      <4>2. CASE s # t
        <5>1. rtsp'[s] = rtsp[s]
          BY <1>rtsp, <4>0, <4>2
        <5> QED BY <1>rtsp, <5>1
      <4> QED BY <4>1, <4>2
    <3>2. reader' = [reader EXCEPT ![t] = "read"] /\ callback' = callback /\ accept' = accept /\ chn' = chn /\ init' = init
      BY <2>3 DEF Answer
    <3> QED BY <1>runs, <1>calm, <3>1, <3>2
  <2>4. CASE ReadError(t) \/ AnswerFails(t) \/ NoMatch(t)
    <3>1. rtsp' = [Clearing(t) EXCEPT ![t].rtspd_status = "other"]
      BY <2>4 DEF ReadError, AnswerFails, NoMatch, GiveUp
    <3>2. rtsp'[s].rtspd_lock = rtsp[s].rtspd_lock
      <4>1. Clearing(t) \in [Conn -> Slot] /\ SamePosts(rtsp, Clearing(t))
        BY <1>rtsp, ClearingIs, ClearingPosts
      <4> DEFINE Q == Clearing(t)
      <4> HIDE DEF Q
      <4>2. SamePosts(Q, [Q EXCEPT ![t].rtspd_status = "other"])
        BY <4>1, PostsKept DEF Q
      <4> QED BY <3>1, <4>1, <4>2 DEF SamePosts, Q
    <3>3. reader' = [reader EXCEPT ![t] = "leave"] /\ reader[t] \in {"read", "match"}
      BY <2>4 DEF ReadError, AnswerFails, NoMatch, GiveUp
    <3>4. callback' = callback /\ accept' = accept /\ chn' = chn /\ init' = init
      BY <2>4 DEF ReadError, AnswerFails, NoMatch, GiveUp
    <3>5. Runs(s) => Runs(s)'
      BY <1>runs, <3>3
    <3> QED BY <1>rtsp, <1>calm, <3>2, <3>4, <3>5
  <2> QED BY <1>3, <2>1, <2>2, <2>3, <2>4 DEF ReaderStep
<1>4. ASSUME NEW t \in Conn, InitStep(t)
      PROVE  Quiet(s)
  <2>rest. callback' = callback /\ accept' = accept /\ chn' = chn /\ reader' = reader
    BY <1>4 DEF InitStep, InitEnd, InitTcp, InitUdp, InitUdpFails, InitSending, InitRtcpTcp,
                InitRtcpUdp, InitRtcpFails
  <2>init. init \in [Conn -> [wait : Nat, send : Nat, rtcp : Nat]]
    BY DEF TypeOK
  <2>1. CASE InitEnd(t) \/ InitTcp(t) \/ InitUdp(t) \/ InitUdpFails(t)
    <3>1. init'[s].wait = IF s = t THEN init[s].wait - 1 ELSE init[s].wait
      BY <2>1, <2>init DEF InitEnd, InitTcp, InitUdp, InitUdpFails
    <3>2. rtsp'[s].rtspd_lock = IF s = t THEN rtsp[s].rtspd_lock - 1 ELSE rtsp[s].rtspd_lock
      <4>1. CASE InitEnd(t)
        BY <1>rtsp, <4>1 DEF InitEnd, Slot
      <4>2. CASE InitTcp(t) \/ InitUdp(t)
        BY <1>rtsp, <4>2 DEF InitTcp, InitUdp, Slot
      <4>3. CASE InitUdpFails(t)
        <5>1. Clearing(t) \in [Conn -> Slot] /\ SamePosts(rtsp, Clearing(t))
          BY <1>rtsp, ClearingIs, ClearingPosts
        <5>2. PICK r : rtsp' = [Clearing(t) EXCEPT ![t].rtspd_lock = @ - 1, ![t].rtp_fd = r]
          BY <4>3 DEF InitUdpFails
        <5> DEFINE C == Clearing(t)
        <5> HIDE DEF C
        <5>3. rtsp'[s].rtspd_lock = IF s = t THEN C[s].rtspd_lock - 1 ELSE C[s].rtspd_lock
          BY <5>1, <5>2 DEF Slot, C
        <5> QED BY <5>1, <5>3 DEF SamePosts, C
      <4> QED BY <2>1, <4>1, <4>2, <4>3
    <3> QED BY <1>rtsp, <2>rest, <3>1, <3>2 DEF Quiet, Runs
  <2>2. CASE InitSending(t) \/ InitRtcpTcp(t) \/ InitRtcpUdp(t) \/ InitRtcpFails(t)
    <3>1. init'[s].wait = init[s].wait
      BY <2>2, <2>init DEF InitSending, InitRtcpTcp, InitRtcpUdp, InitRtcpFails
    <3>2. rtsp'[s].rtspd_lock = rtsp[s].rtspd_lock
      <4>1. CASE InitSending(t)
        <5>1. rtsp' = [rtsp EXCEPT ![t].is_sending_data = TRUE]
          BY <4>1 DEF InitSending
        <5> QED BY <1>rtsp, <5>1, PostsKept DEF SamePosts
      <4>2. ASSUME NEW r, rtsp' = [rtsp EXCEPT ![t].rtcp_fd = r]
            PROVE  rtsp'[s].rtspd_lock = rtsp[s].rtspd_lock
        BY <1>rtsp, <4>2, PostsKept DEF SamePosts
      <4>3. CASE InitRtcpTcp(t) \/ InitRtcpUdp(t) \/ InitRtcpFails(t)
        BY <4>2, <4>3 DEF InitRtcpTcp, InitRtcpUdp, InitRtcpFails
      <4> QED BY <2>2, <4>1, <4>3
    <3> QED BY <1>rtsp, <2>rest, <3>1, <3>2 DEF Quiet, Runs
  <2> QED BY <1>4, <2>1, <2>2 DEF InitStep
<1>5. ASSUME NEW t \in Conn, FrameFails(t) \/ \E k \in Transport : RtcpStep(t, k)
      PROVE  Quiet(s)
  <2>1. callback' = callback /\ accept' = accept /\ chn' = chn /\ reader' = reader /\ init' = init
    BY <1>5 DEF FrameFails, RtcpStep, RtcpLook, RtcpEnd, RtcpSent, RtcpFails
  <2>2. rtsp' = rtsp \/ rtsp' = Clearing(t)
    BY <1>5 DEF FrameFails, RtcpStep, RtcpLook, RtcpEnd, RtcpSent, RtcpFails
  <2>3. rtsp'[s].rtspd_lock = rtsp[s].rtspd_lock
    BY <1>rtsp, <2>2, ClearingPosts DEF SamePosts
  <2> QED BY <1>rtsp, <2>1, <2>3 DEF Quiet, Runs
<1> QED BY <1>1, <1>2, <1>3, <1>4, <1>5 DEF ConnNext, ClearStep

(* The threads that wait for a post and those that may come to wait are no *)
(* more than the posts that are counted.                                   *)
LEMMA ConnNext_FewWait ==
    ASSUME TypeOK, TypeOK', FewWait, [ConnNext]_connVars
    PROVE  FewWait'
<1> SUFFICES ASSUME NEW s \in Conn
             PROVE  Waiting(s)' + Still' <= MaxPosts
  BY DEF FewWait
<1> DEFINE n == Cardinality(Coming)
           n1 == Cardinality(Coming')
           m == script.mishaps
           m1 == script'.mishaps
<1>few. Waiting(s) + (n + Accepted + Signalled + m) <= MaxPosts
  BY DEF FewWait, Still
<1>counts. /\ init[s].wait \in Nat /\ init'[s].wait \in Nat
           /\ Waiting(s) \in Nat /\ Waiting(s)' \in Nat
           /\ Accepted \in {0, 1} /\ Accepted' \in {0, 1}
           /\ Signalled \in {0, 1} /\ Signalled' \in {0, 1}
           /\ n \in Nat /\ n1 \in Nat /\ m \in Nat /\ m1 \in Nat /\ MaxPosts \in Nat
  BY WaitCounts, WaitCountsNext, StillIs, StillNextIs, ConnAssumption
<1>came. n1 <= n
  BY ComingFewer
<1>mishaps. ConnNext => CallbackStir \/ m1 <= m
  BY MishapsFewer
<1>still. Still' = n1 + Accepted' + Signalled' + m1
  BY DEF Still
<1> HIDE DEF n, n1, m, m1
<1>sum. ASSUME n1 <= n, m1 <= m,
               Waiting(s)' + Accepted' + Signalled' <= Waiting(s) + Accepted + Signalled
        PROVE  Waiting(s)' + Still' <= MaxPosts
  BY <1>few, <1>counts, <1>still, <1>sum
<1>1. CASE Quiet(s) /\ m1 <= m
  <2>1. Waiting(s)' <= Waiting(s) /\ Signalled' = Signalled /\ Accepted' = Accepted
    BY <1>1, <1>counts DEF Quiet, Waiting, Signalled, Accepted
  <2>2. Waiting(s)' + Accepted' + Signalled' <= Waiting(s) + Accepted + Signalled
    BY <2>1, <1>counts
  <2> QED BY <2>2, <1>1, <1>sum, <1>came
<1>2. CASE AcceptStep /\ m1 <= m
  <2>1. Waiting(s)' <= Waiting(s)
    <3>1. init' = init /\ chn' = chn
      BY <1>2 DEF AcceptStep, AcceptRefused, AcceptLook, AcceptFill, AcceptSignal, place
    <3>2. callback' = "spawn" <=> callback = "spawn"
      <4>1. CASE AcceptSignal
        BY <4>1 DEF AcceptSignal
      <4>2. CASE callback' = callback
        BY <4>2
      <4> QED BY <1>2, <4>1, <4>2 DEF AcceptStep, AcceptRefused, AcceptLook, AcceptFill, place
    <3>3. Waiting(s)' = Waiting(s)
      BY <3>1, <3>2 DEF Waiting
    <3> QED BY <3>3, <1>counts
  <2>2. CASE \E c \in Client : AcceptLook(c)
    <3>1. PICK c \in Client : AcceptLook(c)
      BY <2>2
    <3>2. Coming = Coming' \cup {c} /\ c \notin Coming'
      <4>1. peer \in [Client -> {"out", "up", "fin", "reset"}]
        BY DEF TypeOK
      <4>2. peer' = [peer EXCEPT ![c] = "up"] /\ peer[c] = "out"
        BY <3>1 DEF AcceptLook
      <4> QED BY <4>1, <4>2 DEF Coming
    <3>3. n = n1 + 1
      BY <3>2, StillNextIs, FS_AddElement DEF n, n1
    <3>4. Accepted = 0 /\ Accepted' = 1 /\ Signalled' = Signalled
      BY <3>1 DEF AcceptLook, Accepted, Signalled
    <3> QED BY <1>2, <2>1, <3>3, <3>4, <1>few, <1>counts, <1>still
  <2>3. CASE AcceptFill \/ \E c \in Client : AcceptRefused(c)
    <3>1. callback' = callback /\ (accept'.at = "idle" <=> accept.at = "idle")
      BY <2>3 DEF AcceptFill, AcceptRefused, place
    <3>2. Accepted' = Accepted /\ Signalled' = Signalled
      BY <3>1 DEF Accepted, Signalled
    <3>3. Waiting(s)' + Accepted' + Signalled' <= Waiting(s) + Accepted + Signalled
      BY <2>1, <3>2, <1>counts
    <3> QED BY <1>2, <3>3, <1>sum, <1>came
  <2>4. CASE AcceptSignal
    <3>1. Accepted = 1 /\ Accepted' = 0 /\ Signalled' <= Signalled + 1
      BY <2>4, <1>counts DEF AcceptSignal, Accepted, NoAccept
    <3>2. Waiting(s)' + Accepted' + Signalled' <= Waiting(s) + Accepted + Signalled
      BY <2>1, <3>1, <1>counts
    <3> QED BY <1>2, <3>2, <1>sum, <1>came
  <2> QED BY <1>2, <2>2, <2>3, <2>4 DEF AcceptStep
<1>3. CASE CallbackStir
  <2>1. Waiting(s)' = Waiting(s) /\ Signalled = 0 /\ Signalled' = 1 /\ Accepted' = Accepted
    BY <1>3 DEF CallbackStir, Waiting, Signalled, Accepted
  <2>2. m1 = m - 1
    BY <1>3 DEF CallbackStir, Mishap, TypeOK, Script, m, m1
  <2> QED BY <2>1, <2>2, <1>few, <1>counts, <1>came, <1>still
<1>4. CASE CallbackStep /\ ~CallbackStir /\ m1 <= m
  <2>1. Accepted' = Accepted
    BY <1>4 DEF CallbackStep, CallbackWait, CallbackTake, CallbackWild, CallbackSpawn, Accepted
  <2>2. Waiting(s)' + Signalled' <= Waiting(s) + Signalled
    <3>1. CASE CallbackWait
      <4>1. Waiting(s)' = Waiting(s) /\ Signalled' = Signalled
        BY <3>1 DEF CallbackWait, Waiting, Signalled
      <4> QED BY <4>1, <1>counts
    <3>2. CASE CallbackTake
      <4>1. Waiting(s)' <= Waiting(s) + 1 /\ Signalled = 1 /\ Signalled' = 0
        BY <3>2, <1>counts DEF CallbackTake, Waiting, Signalled
      <4> QED BY <4>1, <1>counts
    <3>3. CASE CallbackWild
      <4>1. Waiting(s)' = Waiting(s) /\ Signalled = 1 /\ Signalled' = 0
        BY <3>3 DEF CallbackWild, Waiting, Signalled
      <4> QED BY <4>1, <1>counts
    <3>4. CASE CallbackSpawn
      <4>1. init'[s].wait = IF s = chn THEN init[s].wait + 1 ELSE init[s].wait
        BY <3>4 DEF CallbackSpawn, TypeOK
      <4>2. Waiting(s)' = Waiting(s) /\ Signalled' = Signalled
        BY <3>4, <4>1, <1>counts DEF CallbackSpawn, Waiting, Signalled
      <4> QED BY <4>2, <1>counts
    <3> QED BY <1>4, <3>1, <3>2, <3>3, <3>4 DEF CallbackStep
  <2>3. Waiting(s)' + Accepted' + Signalled' <= Waiting(s) + Accepted + Signalled
    BY <2>1, <2>2, <1>counts
  <2> QED BY <1>4, <2>3, <1>sum, <1>came
<1>5. CASE (CloseClient \/ \E t \in Conn : Teardown(t)) /\ m1 <= m
  <2>1. init' = init /\ callback' = callback /\ chn' = chn /\ accept' = accept
    BY <1>5 DEF CloseClient, Teardown, GiveUp, place
  <2>2. Waiting(s)' = Waiting(s) /\ Signalled' = Signalled /\ Accepted' = Accepted
    BY <2>1 DEF Waiting, Signalled, Accepted
  <2>3. Waiting(s)' + Accepted' + Signalled' <= Waiting(s) + Accepted + Signalled
    BY <2>2, <1>counts
  <2> QED BY <1>5, <2>3, <1>sum, <1>came
<1>6. CASE UNCHANGED connVars
  <2>1. Waiting(s)' = Waiting(s) /\ Signalled' = Signalled /\ Accepted' = Accepted /\ m1 = m
    BY <1>6 DEF connVars, place, Waiting, Signalled, Accepted, m, m1
  <2> QED BY <2>1, <1>few, <1>counts, <1>came, <1>still
<1> QED BY <1>mishaps, <1>1, <1>2, <1>3, <1>4, <1>5, <1>6, QuietUnless

(* The step, slot by slot.                                                 *)
LEMMA StrandedStep ==
    ASSUME ConnIInv, ConnIInv', FewWait, ConnNext, NEW s \in Conn,
           Stranded(s)', Waiting(s)' - Posts(s)' > Waiting(s) - Posts(s)
    PROVE  \/ reader'[s] = "quit" /\ rtsp[s].in_buffer = "teardown"
           \/ accept.at = "fill" /\ accept'.at # "fill" /\ accept.slot = s
<1>type. TypeOK /\ TypeOK' /\ SlotHeld
  BY DEF ConnIInv
<1>counts. /\ init[s].wait \in Nat /\ init'[s].wait \in Nat
           /\ rtsp[s].rtspd_lock \in Nat /\ rtsp'[s].rtspd_lock \in Nat
           /\ rtsp[s].rtspd_lock <= MaxPosts
           /\ Waiting(s) \in Nat /\ Waiting(s)' \in Nat
           /\ Posts(s) \in Nat /\ Posts(s)' \in Nat
  BY <1>type, WaitCounts, WaitCountsNext
<1>1. CASE Quiet(s)
  <2>1. (Waiting(s)' = Waiting(s) /\ Posts(s)' >= Posts(s))
        \/ (Waiting(s)' = Waiting(s) - 1 /\ Posts(s)' >= Posts(s) - 1)
    BY <1>1, <1>counts DEF Quiet, Waiting, Posts, Runs
  <2> QED BY <2>1, <1>counts
<1>2. CASE AcceptFill
  <2>1. accept.at = "fill" /\ accept'.at # "fill"
    BY <1>2 DEF AcceptFill
  <2>2. accept.slot = s
    <3> SUFFICES ASSUME accept.slot # s
                 PROVE  FALSE
      OBVIOUS
    <3>1. rtsp'[s] = rtsp[s]
      BY <1>type, <1>2 DEF AcceptFill, TypeOK
    <3>2. Waiting(s)' = Waiting(s) /\ Posts(s)' = Posts(s)
      BY <1>2, <3>1 DEF AcceptFill, Waiting, Posts
    <3> QED BY <3>2, <1>counts
  <2> QED BY <2>1, <2>2
<1>3. CASE AcceptSignal \/ \E c \in Client : AcceptRefused(c) \/ AcceptLook(c)
  <2>1. rtsp' = rtsp /\ init' = init /\ reader' = reader /\ chn' = chn
        /\ (callback' = "spawn" <=> callback = "spawn")
    BY <1>3 DEF AcceptSignal, AcceptRefused, AcceptLook, place
  <2>2. Waiting(s)' = Waiting(s) /\ Posts(s)' = Posts(s)
    BY <2>1 DEF Waiting, Posts
  <2> QED BY <2>2, <1>counts
<1>4. CASE CallbackWait \/ CallbackStir \/ CallbackWild
  <2>1. rtsp' = rtsp /\ init' = init /\ reader' = reader /\ chn' = chn
        /\ callback' # "spawn" /\ callback # "spawn"
    BY <1>4 DEF CallbackWait, CallbackStir, CallbackWild
  <2>2. Waiting(s)' = Waiting(s) /\ Posts(s)' = Posts(s)
    BY <2>1 DEF Waiting, Posts
  <2> QED BY <2>2, <1>counts
<1>5. CASE CallbackTake
  <2>1. FirstFree \in Conn /\ reader[FirstFree] = "none"
    BY <1>type, <1>5, FirstFreeIs DEF CallbackTake, SlotHeld, FreeSlots
  <2>2. rtsp'[s].rtspd_lock = rtsp[s].rtspd_lock
    <3>1. rtsp \in [Conn -> Slot]
      BY <1>type DEF TypeOK
    <3>2. SamePosts(rtsp, [rtsp EXCEPT ![FirstFree].conn_status = 1])
      BY <2>1, <3>1, PostsKept
    <3> QED BY <1>5, <3>2 DEF CallbackTake, SamePosts
  <2>3. reader'[s] = IF s = FirstFree THEN "read" ELSE reader[s]
    BY <1>type, <1>5 DEF CallbackTake, TypeOK
  <2>4. CASE s = FirstFree
    <3>1. Posts(s)' = Posts(s) + 1
      BY <2>1, <2>2, <2>3, <2>4, <1>counts DEF Posts
    <3>2. Waiting(s)' = Waiting(s) + 1
      BY <1>5, <2>4, <1>counts DEF CallbackTake, Waiting
    <3> QED BY <3>1, <3>2, <1>counts
  <2>5. CASE s # FirstFree
    <3>1. Posts(s)' = Posts(s)
      BY <2>2, <2>3, <2>5 DEF Posts
    <3>2. Waiting(s)' = Waiting(s)
      BY <1>5, <2>5, <1>counts DEF CallbackTake, Waiting
    <3> QED BY <3>1, <3>2, <1>counts
  <2> QED BY <2>4, <2>5
<1>6. CASE CallbackSpawn
  <2>1. init'[s].wait = IF s = chn THEN init[s].wait + 1 ELSE init[s].wait
    BY <1>type, <1>6 DEF CallbackSpawn, TypeOK
  <2>2. Waiting(s)' = Waiting(s)
    BY <1>6, <2>1, <1>counts DEF CallbackSpawn, Waiting
  <2>3. Posts(s)' = Posts(s)
    BY <1>6 DEF CallbackSpawn, Posts
  <2> QED BY <2>2, <2>3, <1>counts
<1>7. CASE CloseClient
  <2> DEFINE t == clear.slot
             lock == IF reader[t] = "leave" THEN Post(rtsp[t].rtspd_lock)
                     ELSE rtsp[t].rtspd_lock
  <2>1. Waiting(s)' = Waiting(s)
    BY <1>7 DEF CloseClient, Waiting
  <2>2. t \in Conn /\ rtsp \in [Conn -> Slot]
        /\ reader \in [Conn -> {"none", "read", "match", "leave", "quit"}]
    BY <1>type DEF TypeOK
  <2>3. s # t => rtsp'[s] = rtsp[s] /\ reader'[s] = reader[s]
    BY <1>7, <2>2 DEF CloseClient
  <2>4. s = t => rtsp'[s].rtspd_lock = lock
    <3>1. PICK status, word : rtsp' = [rtsp EXCEPT
             ![t].cli_fd = NoRef, ![t].is_sending_data = FALSE, ![t].rtspd_lock = lock,
             ![t].conn_status = status, ![t].in_buffer = word]
      BY <1>7, Zenon DEF CloseClient
    <3> HIDE DEF t, lock
    <3> QED BY <2>2, <3>1 DEF Slot
  <2>5. s = t => reader'[s] = IF clear.by = "reader" THEN "none" ELSE reader[s]
    BY <1>7, <2>2 DEF CloseClient
  <2>6. CASE s # t
    <3>1. Posts(s)' = Posts(s)
      BY <2>3, <2>6 DEF Posts
    <3> QED BY <2>1, <3>1, <1>counts
  <2>7. CASE s = t /\ reader[s] # "leave"
    <3>1. rtsp'[s].rtspd_lock = rtsp[s].rtspd_lock
      BY <2>4, <2>7
    <3>2. clear.by = "reader" => reader[s] = "quit"
      BY <1>type, <2>7 DEF SlotHeld
    <3>3. Posts(s)' = Posts(s)
      BY <2>5, <2>7, <3>1, <3>2 DEF Posts
    <3> QED BY <2>1, <3>3, <1>counts
  <2>8. CASE s = t /\ reader[s] = "leave"
    <3>1. reader'[s] = "none"
      BY <1>type, <2>5, <2>8 DEF SlotHeld
    <3>2. rtsp'[s].rtspd_lock = Post(rtsp[s].rtspd_lock)
      BY <2>4, <2>8
    <3>3. Posts(s)' = Post(rtsp[s].rtspd_lock) /\ Posts(s) = rtsp[s].rtspd_lock + 1
      BY <2>8, <3>1, <3>2, <1>counts DEF Posts
    <3>4. CASE rtsp[s].rtspd_lock < MaxPosts
      <4>1. Posts(s)' = Posts(s)
        BY <3>3, <3>4 DEF Post
      <4> QED BY <2>1, <4>1, <1>counts
    <3>5. CASE ~(rtsp[s].rtspd_lock < MaxPosts)
      <4>1. Posts(s)' >= MaxPosts
        BY <3>3, <3>5, <1>counts, ConnAssumption DEF Post
      <4>2. Waiting(s) <= MaxPosts
        <5>1. Waiting(s) + (Cardinality(Coming) + Accepted + Signalled + script.mishaps) <= MaxPosts
          BY DEF FewWait, Still
        <5>2. /\ Cardinality(Coming) \in Nat /\ script.mishaps \in Nat
              /\ Accepted \in {0, 1} /\ Signalled \in {0, 1}
          BY <1>type, StillIs
        <5>3. MaxPosts \in Nat
          BY ConnAssumption
        <5> QED BY <5>1, <5>2, <5>3, <1>counts
      <4>3. Waiting(s)' > Posts(s)'
        BY DEF Stranded
      <4> QED BY <2>1, <4>1, <4>2, <4>3, <1>counts, ConnAssumption
    <3> QED BY <3>4, <3>5
  <2> QED BY <2>6, <2>7, <2>8
<1>8. ASSUME NEW t \in Conn, Teardown(t), ~(reader'[s] = "quit" /\ rtsp[s].in_buffer = "teardown")
      PROVE  FALSE
  <2>1. callback' = callback /\ chn' = chn /\ init' = init
    BY <1>8 DEF Teardown, GiveUp, place
  <2>2. reader' = [reader EXCEPT ![t] = "quit"] /\ rtsp[t].in_buffer = "teardown"
        /\ rtsp' = [Clearing(t) EXCEPT ![t].rtspd_status = "other"]
    BY <1>8 DEF Teardown, GiveUp
  <2>3. s # t /\ reader'[s] = reader[s]
    BY <1>type, <1>8, <2>2 DEF TypeOK
  <2>4. rtsp'[s].rtspd_lock = rtsp[s].rtspd_lock
    <3>1. Clearing(t) \in [Conn -> Slot] /\ SamePosts(rtsp, Clearing(t))
      BY <1>type, ClearingIs, ClearingPosts DEF TypeOK
    <3>2. rtsp'[s] = Clearing(t)[s]
      BY <2>2, <2>3, <3>1
    <3> QED BY <3>1, <3>2 DEF SamePosts
  <2>5. Waiting(s)' = Waiting(s) /\ Posts(s)' = Posts(s)
    BY <2>1, <2>3, <2>4 DEF Waiting, Posts
  <2> QED BY <2>5, <1>counts
<1> QED
  BY <1>type, <1>1, <1>2, <1>3, <1>4, <1>5, <1>6, <1>7, <1>8, QuietUnless DEF AcceptStep, CallbackStep

(* rtspd_lock: an init thread is left to wait for ever only by TEARDOWN or *)
(* by a client that is given the slot before the thread ran.               *)
THEOREM StrandedByTeardown == ConnSpec => OnlyTeardownStrands
<1> DEFINE A == \A s \in Conn :
                  Stranded(s)' /\ Waiting(s)' - Posts(s)' > Waiting(s) - Posts(s) =>
                     \/ reader'[s] = "quit" /\ rtsp[s].in_buffer = "teardown"
                     \/ accept.at = "fill" /\ accept'.at # "fill" /\ accept.slot = s
<1>1. ConnInit => ConnIInv /\ FewWait
  <2> SUFFICES ASSUME ConnInit, NEW s \in Conn
               PROVE  Waiting(s) + Still <= MaxPosts
    BY ConnInit_IInv DEF FewWait
  <2>1. Waiting(s) = 0 /\ Signalled = 0 /\ Accepted = 0
    BY DEF ConnInit, Waiting, Signalled, Accepted, NoAccept
  <2>2. Coming = Client
    BY DEF ConnInit, Coming
  <2>3. Cardinality(Client) + script.mishaps <= MaxPosts
    BY PostsAssumption DEF ConnInit
  <2>4. Cardinality(Client) \in Nat /\ script.mishaps \in Nat
    BY ConnInit_IInv, PostsAssumption, FS_CardinalityType, StillIs DEF ConnIInv
  <2> QED BY <2>1, <2>2, <2>3, <2>4 DEF Still
<1>2. ConnIInv /\ FewWait /\ [ConnNext]_connVars => ConnIInv' /\ FewWait'
  BY ConnNext_IInv, ConnNext_FewWait DEF ConnIInv
<1>3. ConnIInv /\ ConnIInv' /\ FewWait /\ [ConnNext]_connVars => [A]_connVars
  BY StrandedStep
<1> QED BY <1>1, <1>2, <1>3, PTL DEF ConnSpec, OnlyTeardownStrands
=============================================================================
