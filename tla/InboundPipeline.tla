--------------------------- MODULE InboundPipeline ---------------------------
(***************************************************************************)
(* The inbound half of a connection, on either side of it.  A receive      *)
(* thread reads chunks of a TCP byte stream from the socket and appends    *)
(* them to the shared ByteQueue (addBytes); a decode thread cuts the queue *)
(* into messages at their length headers (fetchNextMsg).  When the stream  *)
(* ends the receive thread clears the running flag, unblocks the queue and *)
(* joins the decode thread; the queue is restarted for the next session.   *)
(*                                                                         *)
(* Server and client run the same code except for three lines: the guard   *)
(* of the decode loop, the thread that restarts the queue, and who may     *)
(* clear the running flag.  The variable side, which no step changes, says *)
(* whose code a behaviour runs.                                            *)
(*                                                                         *)
(* A byte is <<session, position in that session's stream>>.  Frame n      *)
(* occupies the positions from Start[n] up to Start[n + 1] - 1: first the  *)
(* HeaderSize bytes of its length header, then its payload.                *)
(***************************************************************************)
EXTENDS Integers, Sequences

CONSTANTS
    HeaderSize,   (* sizeof(i32), the bytes of a length header             *)
    Capacity,     (* internal_buff_max_size of the queue                   *)
    MaxChunk,     (* bytes one ReceiveData may return                      *)
    NFrames,      (* frames the peer sends in one session                  *)
    Start,        (* Start[n] is the stream position of frame n            *)
    GarbageLens,  (* lengths that bytes which are no header may decode to  *)
    MaxSessions   (* bound on the number of successive sessions            *)

(* A frame has a payload (at least the operation code and the id), and the *)
(* queue can take a whole chunk while it holds one byte less than a frame: *)
(* 4 MiB against 64 KiB messages and 512 byte chunks.                      *)
ASSUME InboundAssumption ==
    /\ HeaderSize \in Nat \ {0}
    /\ Capacity \in Nat
    /\ MaxChunk \in Nat \ {0}
    /\ NFrames \in Nat
    /\ MaxSessions \in Nat
    /\ GarbageLens \subseteq Nat
    /\ Start \in [1..(NFrames + 1) -> Nat]
    /\ Start[1] = 0
    /\ \A n \in 1..NFrames :
         /\ Start[n + 1] > Start[n] + HeaderSize
         /\ (Start[n + 1] - Start[n]) + MaxChunk - 1 <= Capacity
    /\ \A m, n \in 1..NFrames : m < n => Start[m] < Start[n]
    /\ HeaderSize + MaxChunk - 1 <= Capacity

VARIABLES
    side,     (* "server" or "client"                                      *)
    session,  (* sessions started so far                                   *)
    running,  (* server_running / client_running                           *)
    conn,     (* the socket: "open", "closed" by the peer, "lost"          *)
    sent,     (* bytes the peer has put on the stream in this session      *)
    rcvd,     (* bytes ReceiveData has returned in this session            *)
    rpc,      (* where the receive thread is                               *)
    chunk,    (* buffer[0..recv_sz) of the receive thread                  *)
    dpc,      (* where the decode thread is                                *)
    toRead,   (* to_read of fetchNextMsg                                   *)
    buf,      (* buffer[0..internal_buff_size) of the queue                *)
    ntf,      (* ntf_unblock of the queue                                  *)
    decoded   (* payloads fetchNextMsg has returned in this session        *)

netVars == <<side, session, conn, sent>>
vars == <<side, session, running, conn, sent, rcvd, rpc, chunk, dpc, toRead,
          buf, ntf, decoded>>

RecvPC == {"off", "loop", "recv", "add", "addwait", "stop", "ntf", "ntfall",
           "join"}
DecodePC == {"off", "loop", "fetch", "park1", "wait1", "fetch2", "park2",
             "wait2", "exit", "done"}

StreamLen == Start[NFrames + 1]
FrameLen(n) == Start[n + 1] - Start[n]
Bytes(from, n) == [i \in 1..n |-> <<session, from + i - 1>>]

(* What the payload of frame n is on the peer's side. *)
Payload(n) == Bytes(Start[n] + HeaderSize, FrameLen(n) - HeaderSize)
-----------------------------------------------------------------------------
(* The ByteQueue. Its mutex is held across a whole critical section except *)
(* where a thread is about to block: the decode thread at "park1"/"park2"  *)
(* has found its predicate false, still holds the mutex and is not yet on  *)
(* the condition variable, so a notification there is lost.                *)

MutexFree == dpc \notin {"park1", "park2"}

(* notify_one/notify_all on the one condition variable: a blocked thread   *)
(* goes back to evaluating its predicate. The notifier is never a waiter.  *)
WakeDecodeFirstWaitOnly == IF dpc = "wait1" THEN "fetch" ELSE dpc

WakeDecode == IF dpc = "wait1" THEN "fetch"
              ELSE IF dpc = "wait2" THEN "fetch2" ELSE dpc

WakeRecv == IF rpc = "addwait" THEN "add" ELSE rpc

(* memcpy(&to_read, buffer, sizeof(i32)): the length in the header of the  *)
(* frame that starts at the front of the queue, or garbage.                *)
HeaderValues ==
    LET here == {n \in 1..NFrames :
                   SubSeq(buf, 1, HeaderSize) = Bytes(Start[n], HeaderSize)}
    IN  IF here # {} THEN {FrameLen(n) - HeaderSize : n \in here}
                     ELSE GarbageLens
-----------------------------------------------------------------------------
Init ==
    /\ side \in {"server", "client"}
    /\ session = 0 /\ running = FALSE /\ conn = "lost"
    /\ sent = 0 /\ rcvd = 0
    /\ rpc = "off" /\ chunk = <<>>
    /\ dpc = "off" /\ toRead = 0
    /\ buf = <<>> /\ ntf = FALSE /\ decoded = <<>>

(* StartThread on a fresh socket, once the previous threads were joined.   *)
StartThread ==
    /\ session < MaxSessions /\ rpc = "off"
    /\ session' = session + 1
    /\ running' = TRUE
    /\ conn' = "open"
    /\ sent' = 0 /\ rcvd' = 0 /\ decoded' = <<>>
    /\ rpc' = "loop" /\ dpc' = "loop"
    /\ UNCHANGED <<side, chunk, toRead, buf, ntf>>

(* The peer: it writes a frame in several pieces, so the stream may stop   *)
(* at any byte; it closes the connection, or the connection breaks (or is  *)
(* closed on this side), which discards what was not yet received.         *)
PeerSend ==
    /\ conn = "open" /\ rpc # "off"
    /\ sent' \in (sent + 1)..StreamLen
    /\ UNCHANGED <<side, session, running, conn, rcvd, rpc, chunk, dpc, toRead,
                   buf, ntf, decoded>>

PeerClose ==
    /\ conn = "open" /\ rpc # "off"
    /\ conn' = "closed"
    /\ UNCHANGED <<side, session, running, sent, rcvd, rpc, chunk, dpc, toRead,
                   buf, ntf, decoded>>

ConnectionLost ==
    /\ conn # "lost" /\ rpc # "off"
    /\ conn' = "lost"
    /\ UNCHANGED <<side, session, running, sent, rcvd, rpc, chunk, dpc, toRead,
                   buf, ntf, decoded>>

(* Client::StopThread clears client_running before it closes the socket.   *)
(* On the server only the receive thread clears server_running.            *)
ClientStop ==
    /\ side = "client" /\ running
    /\ running' = FALSE
    /\ UNCHANGED <<netVars, rcvd, rpc, chunk, dpc, toRead, buf, ntf, decoded>>
-----------------------------------------------------------------------------
(* The receive thread. *)

RecvLoop ==
    /\ rpc = "loop"
    /\ rpc' = IF running THEN "recv" ELSE "stop"
    /\ UNCHANGED <<netVars, running, rcvd, chunk, dpc, toRead, buf, ntf,
                   decoded>>

ReceiveDataWholeBuffer ==
    /\ rpc = "recv" /\ conn # "lost" /\ rcvd < sent
    /\ chunk' = Bytes(rcvd, MaxChunk)
    /\ rcvd' = rcvd + MaxChunk
    /\ rpc' = "add"
    /\ UNCHANGED <<netVars, running, dpc, toRead, buf, ntf, decoded>>

ReceiveData ==
    /\ rpc = "recv" /\ conn # "lost"
    /\ \E n \in 1..MaxChunk :
         /\ n <= sent - rcvd
         /\ chunk' = Bytes(rcvd, n)
         /\ rcvd' = rcvd + n
    /\ rpc' = "add"
    /\ UNCHANGED <<netVars, running, dpc, toRead, buf, ntf, decoded>>

(* ReceiveData returns 0 (closed and drained) or -1 (broken): the loop ends. *)
ReceiveEnd ==
    /\ rpc = "recv"
    /\ conn = "lost" \/ (conn = "closed" /\ rcvd = sent)
    /\ rpc' = "stop"
    /\ UNCHANGED <<netVars, running, rcvd, chunk, dpc, toRead, buf, ntf,
                   decoded>>

addBytesWithoutWaiting ==
    /\ rpc = "add" /\ MutexFree
    /\ buf' = buf \o chunk /\ chunk' = <<>>
    /\ rpc' = "loop" /\ dpc' = WakeDecode
    /\ UNCHANGED <<netVars, running, rcvd, toRead, ntf, decoded>>

addBytes ==
    /\ rpc = "add" /\ MutexFree
    /\ \/ /\ Len(buf) + Len(chunk) <= Capacity
          /\ buf' = buf \o chunk /\ chunk' = <<>>
          /\ rpc' = "loop" /\ dpc' = WakeDecode
       \/ /\ Len(buf) + Len(chunk) > Capacity
          /\ rpc' = "addwait"
          /\ UNCHANGED <<buf, chunk, dpc>>
    /\ UNCHANGED <<netVars, running, rcvd, toRead, ntf, decoded>>

RecvStop ==
    /\ rpc = "stop"
    /\ running' = FALSE
    /\ rpc' = "ntf"
    /\ UNCHANGED <<netVars, rcvd, chunk, dpc, toRead, buf, ntf, decoded>>

(* notify_unblock: the store and the notify_all, both without the mutex.   *)
notify_unblock ==
    /\ rpc = "ntf"
    /\ ntf' = TRUE
    /\ rpc' = "ntfall"
    /\ UNCHANGED <<netVars, running, rcvd, chunk, dpc, toRead, buf, decoded>>

notify_unblock_all ==
    /\ rpc = "ntfall"
    /\ dpc' = WakeDecode
    /\ rpc' = "join"
    /\ UNCHANGED <<netVars, running, rcvd, chunk, toRead, buf, ntf, decoded>>

RecvJoinWithoutRestart ==
    /\ rpc = "join" /\ dpc = "done"
    /\ rpc' = "off" /\ dpc' = "off"
    /\ UNCHANGED <<netVars, running, rcvd, chunk, toRead, buf, ntf, decoded>>

(* The join of the decode thread ends the receive thread. On the client it *)
(* is the receive thread that then restarts the queue.                     *)
RecvJoin ==
    /\ rpc = "join" /\ dpc = "done"
    /\ rpc' = "off" /\ dpc' = "off"
    /\ IF side = "client" THEN buf' = <<>> /\ ntf' = FALSE
                          ELSE UNCHANGED <<buf, ntf>>
    /\ UNCHANGED <<netVars, running, rcvd, chunk, toRead, decoded>>
-----------------------------------------------------------------------------
(* The decode thread. *)

DecodeLoop ==
    /\ dpc = "loop"
    /\ dpc' = IF running \/ (side = "client" /\ buf # <<>>)
              THEN "fetch" ELSE "exit"
    /\ UNCHANGED <<netVars, running, rcvd, rpc, chunk, toRead, buf, ntf,
                   decoded>>

(* The tail of fetchNextMsg, with n bytes of payload announced: take the   *)
(* packet off the front of the queue, or block until it is complete.       *)
TakeDropsPayloadOnly(n) ==
    IF n + HeaderSize <= Len(buf)
    THEN /\ decoded' = Append(decoded, SubSeq(buf, HeaderSize + 1, HeaderSize + n))
         /\ buf' = SubSeq(buf, n + 1, Len(buf))
         /\ rpc' = WakeRecv
         /\ dpc' = "loop"
    ELSE /\ dpc' = "park2"
         /\ UNCHANGED <<decoded, buf, rpc>>

TakePacket(n) ==
    IF n + HeaderSize <= Len(buf)
    THEN /\ decoded' = Append(decoded, SubSeq(buf, HeaderSize + 1, HeaderSize + n))
         /\ buf' = SubSeq(buf, HeaderSize + n + 1, Len(buf))
         /\ rpc' = WakeRecv
         /\ dpc' = "loop"
    ELSE /\ dpc' = "park2"
         /\ UNCHANGED <<decoded, buf, rpc>>

fetchNextMsg ==
    /\ dpc = "fetch"
    /\ \/ /\ ntf                                    \* returns 0
          /\ dpc' = "loop"
          /\ UNCHANGED <<rpc, toRead, buf, decoded>>
       \/ /\ ~ntf /\ Len(buf) >= HeaderSize
          /\ \E n \in HeaderValues : toRead' = n /\ TakePacket(n)
       \/ /\ ~ntf /\ Len(buf) < HeaderSize
          /\ dpc' = "park1"
          /\ UNCHANGED <<rpc, toRead, buf, decoded>>
    /\ UNCHANGED <<netVars, running, rcvd, chunk, ntf>>

(* Woken in the second wait: its predicate looks at the size only.         *)
fetchNextMsg_resumed ==
    /\ dpc = "fetch2"
    /\ TakePacket(toRead)
    /\ UNCHANGED <<netVars, running, rcvd, chunk, toRead, ntf>>

Park ==
    /\ \/ dpc = "park1" /\ dpc' = "wait1"
       \/ dpc = "park2" /\ dpc' = "wait2"
    /\ UNCHANGED <<netVars, running, rcvd, rpc, chunk, toRead, buf, ntf,
                   decoded>>

(* The decode thread ends. On the server it first restarts the queue.      *)
DecodeExit ==
    /\ dpc = "exit"
    /\ dpc' = "done"
    /\ IF side = "server" THEN buf' = <<>> /\ ntf' = FALSE
                          ELSE UNCHANGED <<buf, ntf>>
    /\ UNCHANGED <<netVars, running, rcvd, rpc, chunk, toRead, decoded>>
-----------------------------------------------------------------------------
RecvThread == \/ RecvLoop \/ ReceiveData \/ ReceiveEnd \/ addBytes \/ RecvStop
              \/ notify_unblock \/ notify_unblock_all \/ RecvJoin
DecodeThread == \/ DecodeLoop \/ fetchNextMsg \/ fetchNextMsg_resumed \/ Park
                \/ DecodeExit
Environment == \/ StartThread \/ PeerSend \/ PeerClose \/ ConnectionLost
               \/ ClientStop

Next == RecvThread \/ DecodeThread \/ Environment

Spec == Init /\ [][Next]_vars

(* Both threads are scheduled by the operating system as long as they can  *)
(* run; nothing obliges the peer or the user to do anything.               *)
Fairness == WF_vars(RecvThread) /\ WF_vars(DecodeThread)
FairSpec == Spec /\ Fairness
-----------------------------------------------------------------------------
(* The values the variables of the two threads and of the queue take.      *)
TypeOK ==
    /\ side \in {"server", "client"}
    /\ session \in 0..MaxSessions
    /\ running \in BOOLEAN
    /\ conn \in {"open", "closed", "lost"}
    /\ sent \in 0..StreamLen
    /\ rcvd \in 0..sent
    /\ rpc \in RecvPC
    /\ dpc \in DecodePC
    /\ toRead \in Nat
    /\ chunk \in Seq(Nat \X Nat)
    /\ buf \in Seq(Nat \X Nat)
    /\ ntf \in BOOLEAN
    /\ decoded \in Seq(Seq(Nat \X Nat))

(* However TCP cuts the stream and however many sessions went before, the  *)
(* n-th message fetchNextMsg returns in a session is exactly the payload   *)
(* of the n-th frame the peer sent in that session.                        *)
FramesIntact == \A n \in 1..Len(decoded) : n <= NFrames /\ decoded[n] = Payload(n)

(* addBytes never writes past the end of the queue's allocation.           *)
NoOverrun == Len(buf) <= Capacity

(* The receive thread waiting for room and the decode thread waiting for   *)
(* bytes, on the one condition variable they share, never wait for each    *)
(* other.                                                                  *)
NoMutualWait == ~(rpc = "addwait" /\ dpc \in {"wait1", "wait2"})

(* The unblocking of one session does not reach the next: no client decode *)
(* thread starts on a queue that notify_unblock left unblocked, which      *)
(* would make it spin without ever decoding (client.cpp restarts the queue *)
(* after the join; server.cpp does it before, and this fails there).       *)
ClientNoStaleUnblock == side = "client" /\ ntf => rpc \in {"ntfall", "join"}

(* A frame the peer sent completely is decoded, unless the connection ends *)
(* or the session began on a queue that was left unblocked.                *)
DeliveredEventually ==
    \A n \in 1..NFrames :
      (sent >= Start[n + 1] /\ ~ntf)
        ~> (Len(decoded) >= n \/ conn # "open" \/ ~running)

(* StopThread "Stops the server thread on a established connection": once  *)
(* the receive loop has ended, the receive thread gets through the join of *)
(* the decode thread and ends.  It need not: notify_unblock can fall       *)
(* between the decode thread's predicate and its wait, and be lost.        *)
StopCompletes == (rpc = "stop") ~> (rpc = "off")

(* How many frames are complete in a stream of so many bytes, and the      *)
(* messages of those the peer has sent completely.                         *)
WholeFrames(bytes) == CHOOSE m \in 0..NFrames :
                        \A n \in 1..NFrames : n <= m <=> Start[n + 1] <= bytes
SentWhole == [n \in 1..WholeFrames(sent) |-> Payload(n)]
Stream == INSTANCE MessageStream WITH put <- SentWhole, got <- decoded

(* Receive thread, ByteQueue and decode thread together are a queue of     *)
(* messages: fetchNextMsg hands out the next message of this session, once *)
(* and only after its last byte was sent, however the bytes travelled.     *)
ImplementsStream == Stream!Spec
=============================================================================
