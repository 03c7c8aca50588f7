------------------------ MODULE InboundPipeline_proofs ------------------------
(***************************************************************************)
(* For every queue capacity, chunk size, header size and sequence of       *)
(* frames that InboundAssumption admits, and for any number of sessions,   *)
(* on the server and on the client: the decode thread returns exactly the  *)
(* payloads that were sent, the queue never overruns its allocation, the   *)
(* two threads never wait for each other, and the whole implements the     *)
(* queue of messages that MessageStream describes.                         *)
(***************************************************************************)
EXTENDS InboundPipeline, SequenceTheorems, WellFoundedInduction, TLAPS

(* While the decode thread lives, the bytes received and not yet decoded   *)
(* lie without a gap in the queue and then in the chunk, and the queue     *)
(* begins at the frame that is to be decoded next.                         *)
StreamInv ==
    dpc \notin {"off", "done"} =>
      LET base == Start[Len(decoded) + 1]
      IN  /\ \A i \in 1..Len(buf) : buf[i] = <<session, base + i - 1>>
          /\ \A i \in 1..Len(chunk) :
               chunk[i] = <<session, base + Len(buf) + i - 1>>
          /\ rcvd = base + Len(buf) + Len(chunk)

(* How the program counters of the two threads go together.                *)
ThreadInv ==
    /\ rpc = "off" <=> dpc = "off"
    /\ rpc = "off" => buf = <<>>
    /\ rpc \notin {"add", "addwait"} => chunk = <<>>
    /\ Len(chunk) <= MaxChunk
    /\ side = "server" =>
         /\ running <=> rpc \in {"loop", "recv", "add", "addwait", "stop"}
         /\ dpc \in {"exit", "done"} => ~running
         /\ dpc = "done" => buf = <<>>

(* Why a thread that waits does so: nothing that makes its predicate true  *)
(* leaves it on the condition variable.                                    *)
WaitInv ==
    /\ dpc \in {"park1", "wait1"} => Len(buf) < HeaderSize
    /\ dpc \in {"fetch2", "park2", "wait2"} =>
         /\ Len(decoded) < NFrames
         /\ toRead = FrameLen(Len(decoded) + 1) - HeaderSize
    /\ dpc \in {"park2", "wait2"} => Len(buf) < toRead + HeaderSize
    /\ rpc = "addwait" => Len(buf) + Len(chunk) > Capacity

IInv == TypeOK /\ FramesIntact /\ NoOverrun /\ StreamInv /\ ThreadInv /\ WaitInv
-----------------------------------------------------------------------------
(* What InboundAssumption says of the positions of the frames.             *)
LEMMA ConstantFacts ==
    /\ HeaderSize \in Nat /\ HeaderSize > 0 /\ MaxChunk \in Nat /\ MaxChunk > 0
    /\ Capacity \in Nat /\ NFrames \in Nat /\ MaxSessions \in Nat
    /\ HeaderSize + MaxChunk - 1 <= Capacity
  BY InboundAssumption

LEMMA StartNat == \A n \in 1..(NFrames + 1) : Start[n] \in Nat
  BY InboundAssumption

LEMMA FrameFacts ==
    ASSUME NEW n \in 1..NFrames
    PROVE  /\ n \in 1..(NFrames + 1) /\ n + 1 \in 1..(NFrames + 1)
           /\ Start[n] \in Nat /\ Start[n + 1] \in Nat
           /\ FrameLen(n) \in Nat
           /\ FrameLen(n) > HeaderSize
           /\ FrameLen(n) + MaxChunk - 1 <= Capacity
           /\ Start[n + 1] = Start[n] + FrameLen(n)
  <1>1. n \in 1..(NFrames + 1) /\ n + 1 \in 1..(NFrames + 1)
    BY ConstantFacts
  <1>2. /\ Start[n + 1] > Start[n] + HeaderSize
        /\ (Start[n + 1] - Start[n]) + MaxChunk - 1 <= Capacity
    BY InboundAssumption
  <1>3. Start[n] \in Nat /\ Start[n + 1] \in Nat
    BY <1>1, StartNat
  <1> QED
    BY <1>1, <1>2, <1>3, ConstantFacts DEF FrameLen

LEMMA StartInjective ==
    ASSUME NEW m \in 1..NFrames, NEW n \in 1..NFrames, Start[m] = Start[n]
    PROVE  m = n
  <1>1. m \in Nat /\ n \in Nat /\ Start[m] \in Nat
    BY ConstantFacts, FrameFacts
  <1>2. \A i, j \in 1..NFrames : i < j => Start[i] < Start[j]
    BY InboundAssumption
  <1>3. ~(m < n)
    BY <1>1, <1>2
  <1>4. ~(n < m)
    BY <1>1, <1>2
  <1> QED
    BY <1>1, <1>3, <1>4

(* The byte sequences the model builds are sequences of bytes.             *)
LEMMA BytesFacts ==
    ASSUME session \in Nat, NEW from \in Nat, NEW n \in Nat
    PROVE  /\ Bytes(from, n) \in Seq(Nat \X Nat)
           /\ Len(Bytes(from, n)) = n
           /\ \A i \in 1..n : Bytes(from, n)[i] = <<session, from + i - 1>>
  <1>1. \A i \in 1..n : <<session, from + i - 1>> \in Nat \X Nat
    OBVIOUS
  <1>2. Bytes(from, n) \in [1..n -> Nat \X Nat]
    BY <1>1 DEF Bytes
  <1>3. Bytes(from, n) \in Seq(Nat \X Nat) /\ Len(Bytes(from, n)) = n
    BY <1>2, IsASeq, LenProperties
  <1> QED
    BY <1>3 DEF Bytes

(* FramesIntact bounds the number of messages decoded.                     *)
LEMMA DecodedBound ==
    ASSUME decoded \in Seq(Seq(Nat \X Nat)), FramesIntact
    PROVE  Len(decoded) \in Nat /\ Len(decoded) <= NFrames
  BY ConstantFacts DEF FramesIntact

(* The length in the header of the frame that is to be decoded next.       *)
NextLength == FrameLen(Len(decoded) + 1) - HeaderSize

(* A complete header at the front of the queue is the header of the frame  *)
(* that is to be decoded next, and of no other.                            *)
LEMMA HeaderIsNext ==
    ASSUME IInv, dpc = "fetch", Len(buf) >= HeaderSize
    PROVE  /\ Len(decoded) < NFrames
           /\ HeaderValues = {NextLength}
  <1> DEFINE k == Len(decoded) + 1
  <1>1. /\ session \in Nat /\ buf \in Seq(Nat \X Nat) /\ Len(buf) \in Nat
        /\ Len(decoded) \in Nat /\ Len(decoded) <= NFrames
        /\ Len(chunk) \in Nat
    BY DecodedBound, ConstantFacts DEF IInv, TypeOK
  <1>2. /\ \A i \in 1..Len(buf) : buf[i] = <<session, Start[k] + i - 1>>
        /\ rcvd = Start[k] + Len(buf) + Len(chunk)
    BY DEF IInv, StreamInv
  <1>3. Len(decoded) < NFrames
    <2>1. NFrames + 1 \in 1..(NFrames + 1)
      BY ConstantFacts
    <2>2. Start[NFrames + 1] \in Nat
      BY <2>1, StartNat
    <2>3. rcvd <= Start[NFrames + 1] /\ rcvd \in Nat
      <3>1. sent \in 0..Start[NFrames + 1] /\ rcvd \in 0..sent
        BY DEF IInv, TypeOK, StreamLen
      <3> QED
        BY <2>2, <3>1
    <2>4. CASE Len(decoded) = NFrames
      <3>1. rcvd = Start[NFrames + 1] + Len(buf) + Len(chunk)
        BY <1>2, <2>4
      <3>2. Len(buf) > 0
        BY <1>1, ConstantFacts
      <3> QED
        BY <1>1, <2>2, <2>3, <3>1, <3>2
    <2> QED
      BY <1>1, <2>4, ConstantFacts
  <1>4. k \in 1..NFrames
    BY <1>1, <1>3, ConstantFacts
  <1>5. /\ SubSeq(buf, 1, HeaderSize) \in Seq(Nat \X Nat)
        /\ Len(SubSeq(buf, 1, HeaderSize)) = HeaderSize
        /\ \A i \in 1..HeaderSize : SubSeq(buf, 1, HeaderSize)[i] = buf[i]
    <2>1. \A i \in 1..HeaderSize : buf[i] \in Nat \X Nat
      BY <1>1, ConstantFacts, ElementOfSeq
    <2> QED
      BY <2>1, ConstantFacts, SubSeqProperties
  <1>6. ASSUME NEW n \in 1..NFrames
        PROVE  SubSeq(buf, 1, HeaderSize) = Bytes(Start[n], HeaderSize) <=> n = k
    <2>1. /\ Bytes(Start[n], HeaderSize) \in Seq(Nat \X Nat)
          /\ Len(Bytes(Start[n], HeaderSize)) = HeaderSize
          /\ \A i \in 1..HeaderSize :
               Bytes(Start[n], HeaderSize)[i] = <<session, Start[n] + i - 1>>
      <3>1. Start[n] \in Nat
        BY FrameFacts
      <3> QED
        BY <1>1, <3>1, ConstantFacts, BytesFacts
    <2>2. CASE n = k
      <3>1. ASSUME NEW i \in 1..HeaderSize
            PROVE  SubSeq(buf, 1, HeaderSize)[i] = Bytes(Start[n], HeaderSize)[i]
        <4>1. i \in 1..Len(buf)
          BY <1>1, ConstantFacts
        <4>2. buf[i] = <<session, Start[k] + i - 1>>
          BY <1>2, <4>1
        <4>3. SubSeq(buf, 1, HeaderSize)[i] = buf[i]
          BY <1>5
        <4>4. Bytes(Start[n], HeaderSize)[i] = <<session, Start[n] + i - 1>>
          BY <2>1
        <4> QED
          BY <2>2, <4>2, <4>3, <4>4
      <3> QED
        BY <1>5, <2>1, <2>2, <3>1, SeqEqual
    <2>3. CASE n # k
      <3>1. Start[n] # Start[k] /\ Start[n] \in Nat /\ Start[k] \in Nat
        BY <1>4, <2>3, FrameFacts, StartInjective
      <3>2. SubSeq(buf, 1, HeaderSize)[1] = <<session, Start[k]>>
        <4>1. 1 \in 1..HeaderSize /\ 1 \in 1..Len(buf)
          BY <1>1, ConstantFacts
        <4>2. buf[1] = <<session, Start[k] + 1 - 1>>
          BY <1>2, <4>1
        <4>3. Start[k] + 1 - 1 = Start[k]
          BY <3>1
        <4> QED
          BY <1>5, <4>1, <4>2, <4>3
      <3>3. Bytes(Start[n], HeaderSize)[1] = <<session, Start[n]>>
        <4>1. 1 \in 1..HeaderSize /\ Start[n] + 1 - 1 = Start[n]
          BY <3>1, ConstantFacts
        <4> QED
          BY <2>1, <4>1
      <3>4. <<session, Start[k]>>[2] # <<session, Start[n]>>[2]
        BY <3>1
      <3>5. SubSeq(buf, 1, HeaderSize)[1] # Bytes(Start[n], HeaderSize)[1]
        BY <3>2, <3>3, <3>4, Zenon
      <3> QED
        BY <2>3, <3>5, Zenon
    <2> QED
      BY <2>2, <2>3
  <1>7. {n \in 1..NFrames :
           SubSeq(buf, 1, HeaderSize) = Bytes(Start[n], HeaderSize)} = {k}
    BY <1>4, <1>6
  <1> QED
    BY <1>3, <1>7 DEF HeaderValues, NextLength

(* A step that moves no byte keeps what the invariant says of the bytes.   *)
LEMMA NoByteMoves ==
    ASSUME IInv,
           UNCHANGED <<session, rcvd, chunk, buf, decoded>>,
           dpc' \notin {"off", "done"} => dpc \notin {"off", "done"}
    PROVE  FramesIntact' /\ NoOverrun' /\ StreamInv'
  <1>1. FramesIntact'
    BY DEF IInv, FramesIntact, Payload, Bytes
  <1>2. NoOverrun'
    BY DEF IInv, NoOverrun
  <1>3. StreamInv'
    BY DEF IInv, StreamInv
  <1> QED
    BY <1>1, <1>2, <1>3

(* fetchNextMsg's tail, run with the length of the next frame.             *)
LEMMA TakeNext ==
    ASSUME IInv, dpc \in {"fetch", "fetch2"},
           Len(decoded) < NFrames,
           NEW n, n = NextLength,
           TakePacket(n), toRead' = n,
           UNCHANGED <<netVars, running, rcvd, chunk, ntf>>
    PROVE  IInv'
  <1> DEFINE k == Len(decoded) + 1
             m == HeaderSize + n
  <1>1. /\ session \in Nat /\ Len(decoded) \in Nat
        /\ buf \in Seq(Nat \X Nat) /\ Len(buf) \in Nat
        /\ chunk \in Seq(Nat \X Nat) /\ Len(chunk) \in Nat
        /\ decoded \in Seq(Seq(Nat \X Nat))
    BY ConstantFacts DEF IInv, TypeOK
  <1>2. k \in 1..NFrames
    BY <1>1, ConstantFacts
  <1>3. /\ n \in Nat /\ n > 0 /\ m \in Nat /\ m = FrameLen(k)
        /\ Start[k] \in Nat /\ Start[k + 1] \in Nat /\ Start[k + 1] = Start[k] + m
    <2>1. /\ FrameLen(k) \in Nat /\ FrameLen(k) > HeaderSize
          /\ Start[k] \in Nat /\ Start[k + 1] \in Nat
          /\ Start[k + 1] = Start[k] + FrameLen(k)
      BY <1>2, FrameFacts
    <2>2. n = FrameLen(k) - HeaderSize
      BY DEF NextLength
    <2> HIDE DEF k
    <2>3. n \in Nat /\ n > 0 /\ m \in Nat /\ m = FrameLen(k)
      BY <2>1, <2>2, ConstantFacts
    <2> HIDE DEF m
    <2> QED
      BY <2>1, <2>3
  <1>4. /\ \A i \in 1..Len(buf) : buf[i] = <<session, Start[k] + i - 1>>
        /\ \A i \in 1..Len(chunk) :
             chunk[i] = <<session, Start[k] + Len(buf) + i - 1>>
        /\ rcvd = Start[k] + Len(buf) + Len(chunk)
    BY DEF IInv, StreamInv
  <1>a. k = Len(decoded) + 1 /\ m = HeaderSize + n
    OBVIOUS
  <1> HIDE DEF k, m
  <1>b. /\ HeaderSize \in Nat /\ n \in Nat /\ m \in Nat /\ m = HeaderSize + n
        /\ Len(buf) \in Nat
    BY <1>1, <1>3, <1>a, ConstantFacts
  <1>c. Start[k] \in Nat /\ Start[k + 1] \in Nat /\ Start[k + 1] = Start[k] + m
    BY <1>3
  <1>5. CASE n + HeaderSize <= Len(buf)
    <2>1. /\ decoded' = Append(decoded, SubSeq(buf, HeaderSize + 1, m))
          /\ buf' = SubSeq(buf, m + 1, Len(buf))
          /\ rpc' = WakeRecv
          /\ dpc' = "loop"
      BY <1>5, <1>a DEF TakePacket
    <2>2. m <= Len(buf)
      BY <1>1, <1>3, <1>5, <1>a, ConstantFacts
    <2>3. \A i \in 1..Len(buf) : buf[i] \in Nat \X Nat
      BY <1>1, ElementOfSeq
    <2>4. /\ buf' \in Seq(Nat \X Nat)
          /\ Len(buf') = Len(buf) - m
          /\ \A i \in 1..(Len(buf) - m) : buf'[i] = buf[m + i]
      <3>1. /\ m + 1 \in Int /\ Len(buf) \in Int
            /\ \A i \in (m + 1)..Len(buf) : buf[i] \in Nat \X Nat
        BY <1>1, <1>3, <2>3
      <3>2. /\ buf' \in Seq(Nat \X Nat)
            /\ Len(buf') = IF m + 1 <= Len(buf) THEN Len(buf) - (m + 1) + 1 ELSE 0
            /\ \A i \in 1..(Len(buf) - (m + 1) + 1) : buf'[i] = buf[m + 1 + i - 1]
        BY <2>1, <3>1, SubSeqProperties
      <3>3. Len(buf) - (m + 1) + 1 = Len(buf) - m
        BY <1>1, <1>3
      <3>4. \A i \in 1..(Len(buf) - m) : m + 1 + i - 1 = m + i
        BY <1>1, <1>3
      <3>5. Len(buf') = Len(buf) - m
        <4>1. CASE m + 1 <= Len(buf)
          BY <3>2, <3>3, <4>1
        <4>2. CASE ~(m + 1 <= Len(buf))
          <5>1. Len(buf) - m = 0
            BY <1>b, <2>2, <4>2
          <5> QED
            BY <3>2, <4>2, <5>1
        <4> QED
          BY <4>1, <4>2
      <3>6. ASSUME NEW i \in 1..(Len(buf) - m) PROVE buf'[i] = buf[m + i]
        BY <3>2, <3>3, <3>4
      <3> QED
        BY <3>2, <3>5, <3>6
    <2>5. SubSeq(buf, HeaderSize + 1, m) = Payload(k)
      <3> DEFINE q == SubSeq(buf, HeaderSize + 1, m)
                 r == Payload(k)
      <3>1. /\ r \in Seq(Nat \X Nat) /\ Len(r) = n
            /\ \A i \in 1..n : r[i] = <<session, Start[k] + HeaderSize + i - 1>>
        <4>1. Start[k] + HeaderSize \in Nat /\ FrameLen(k) - HeaderSize = n
          BY <1>3, <1>a, ConstantFacts
        <4>2. r = Bytes(Start[k] + HeaderSize, n)
          BY <4>1 DEF Payload
        <4> HIDE DEF r
        <4> QED
          BY <1>1, <1>b, <4>1, <4>2, BytesFacts
      <3>2. /\ q \in Seq(Nat \X Nat) /\ Len(q) = n
            /\ \A i \in 1..n : q[i] = buf[HeaderSize + 1 + i - 1]
        <4>a. HeaderSize + 1 \in Int /\ m \in Int
          BY <1>b
        <4>b. ASSUME NEW i \in (HeaderSize + 1)..m PROVE buf[i] \in Nat \X Nat
          <5>1. i \in 1..Len(buf)
            BY <1>b, <2>2
          <5> QED
            BY <5>1, <2>3
        <4>1. /\ HeaderSize + 1 \in Int /\ m \in Int
              /\ \A i \in (HeaderSize + 1)..m : buf[i] \in Nat \X Nat
          BY <4>a, <4>b
        <4>2. m - (HeaderSize + 1) + 1 = n /\ HeaderSize + 1 <= m
          BY <1>3, <1>a, ConstantFacts
        <4> QED
          BY <4>1, <4>2, SubSeqProperties
      <3>3. ASSUME NEW i \in 1..n PROVE q[i] = r[i]
        <4>1. /\ HeaderSize + 1 + i - 1 \in 1..Len(buf)
              /\ Start[k] + (HeaderSize + 1 + i - 1) - 1
                   = Start[k] + HeaderSize + i - 1
          BY <1>b, <1>c, <2>2
        <4>2. buf[HeaderSize + 1 + i - 1]
                = <<session, Start[k] + (HeaderSize + 1 + i - 1) - 1>>
          BY <1>4, <4>1
        <4> QED
          BY <3>1, <3>2, <4>1, <4>2
      <3> QED
        BY <3>1, <3>2, <3>3, SeqEqual
    <2>6. /\ decoded' \in Seq(Seq(Nat \X Nat))
          /\ Len(decoded') = k
          /\ \A i \in 1..Len(decoded) : decoded'[i] = decoded[i]
          /\ decoded'[k] = Payload(k)
      <3>1. Payload(k) \in Seq(Nat \X Nat)
        <4>1. Start[k] + HeaderSize \in Nat /\ FrameLen(k) - HeaderSize = n
          BY <1>3, <1>a, ConstantFacts
        <4> QED
          BY <1>1, <1>3, <4>1, BytesFacts DEF Payload
      <3>2. decoded' = Append(decoded, Payload(k))
        BY <2>1, <2>5
      <3> QED
        BY <1>1, <1>a, <3>1, <3>2, AppendProperties
    <2>7. TypeOK'
      BY <2>1, <2>4, <2>6, <1>3 DEF IInv, TypeOK, netVars, WakeRecv, RecvPC, DecodePC
    <2>8. FramesIntact'
      <3>1. ASSUME NEW i \in 1..k PROVE i <= NFrames /\ decoded'[i] = Payload(i)'
        <4>1. Payload(i)' = Payload(i)
          BY DEF Payload, Bytes, netVars
        <4>2. i \in 1..Len(decoded) \/ i = k
          BY <1>1, <1>a
        <4>3. i <= NFrames
          BY <1>2, ConstantFacts
        <4> QED
          BY <2>6, <4>1, <4>2, <4>3 DEF IInv, FramesIntact
      <3> QED
        BY <2>6, <3>1 DEF FramesIntact
    <2>9. NoOverrun'
      BY <1>1, <1>3, <2>4, ConstantFacts DEF IInv, NoOverrun
    <2>10. StreamInv'
      <3>1. ASSUME NEW i \in 1..(Len(buf) - m)
            PROVE  buf'[i] = <<session, Start[k + 1] + i - 1>>
        <4>a. i \in Nat /\ i >= 1 /\ i <= Len(buf) - m
          BY <1>b, <2>2
        <4>b. m + i \in 1..Len(buf)
          BY <1>b, <4>a
        <4>c. Start[k] + (m + i) - 1 = (Start[k] + m) + i - 1
          BY <1>b, <1>c, <4>a
        <4>1. m + i \in 1..Len(buf) /\ Start[k] + (m + i) - 1 = Start[k + 1] + i - 1
          BY <4>b, <4>c, <1>c
        <4> QED
          BY <1>4, <2>4, <4>1
      <3>2. Start[k + 1] + (Len(buf) - m) = Start[k] + Len(buf)
        BY <1>1, <1>3
      <3>3. /\ \A i \in 1..Len(chunk) :
                 chunk[i] = <<session, (Start[k + 1] + (Len(buf) - m)) + i - 1>>
            /\ rcvd = (Start[k + 1] + (Len(buf) - m)) + Len(chunk)
        BY <1>4, <3>2
      <3> QED
        BY <2>1, <2>4, <2>6, <3>1, <3>3 DEF StreamInv, netVars
    <2>11. ThreadInv'
      BY <2>1 DEF IInv, ThreadInv, WakeRecv, netVars
    <2>12. WaitInv'
      BY <2>1 DEF WaitInv, WakeRecv
    <2> QED
      BY <2>7, <2>8, <2>9, <2>10, <2>11, <2>12 DEF IInv
  <1>6. CASE ~(n + HeaderSize <= Len(buf))
    <2>1. dpc' = "park2" /\ UNCHANGED <<decoded, buf, rpc>>
      BY <1>6 DEF TakePacket
    <2>2. TypeOK'
      BY <1>3, <2>1 DEF IInv, TypeOK, netVars, DecodePC
    <2>3. FramesIntact' /\ NoOverrun' /\ StreamInv'
      BY <2>1, NoByteMoves DEF netVars
    <2>4. ThreadInv'
      BY <2>1 DEF IInv, ThreadInv, netVars
    <2>5. WaitInv'
      <3>1. Len(buf) < n + HeaderSize
        BY <1>1, <1>3, <1>6, ConstantFacts
      <3>2. n = FrameLen(Len(decoded) + 1)' - HeaderSize /\ Len(decoded') < NFrames
        BY <2>1 DEF NextLength, FrameLen
      <3> QED
        BY <2>1, <3>1, <3>2 DEF IInv, WaitInv
    <2> QED
      BY <2>2, <2>3, <2>4, <2>5 DEF IInv
  <1> QED
    BY <1>5, <1>6
-----------------------------------------------------------------------------
LEMMA InitIInv == Init => IInv
  <1> SUFFICES ASSUME Init PROVE IInv
    OBVIOUS
  <1>1. <<>> \in Seq(Nat \X Nat) /\ <<>> \in Seq(Seq(Nat \X Nat)) /\ Len(<<>>) = 0
    BY EmptySeq
  <1>2. NFrames + 1 \in 1..(NFrames + 1)
    BY ConstantFacts
  <1>3. StreamLen \in Nat
    BY <1>2, StartNat DEF StreamLen
  <1>4. TypeOK
    <2>1. sent \in 0..StreamLen /\ rcvd \in 0..sent /\ session \in 0..MaxSessions
      BY <1>3, ConstantFacts DEF Init
    <2>2. /\ chunk \in Seq(Nat \X Nat) /\ buf \in Seq(Nat \X Nat)
          /\ decoded \in Seq(Seq(Nat \X Nat))
      BY <1>1 DEF Init
    <2>3. /\ running \in BOOLEAN /\ conn \in {"open", "closed", "lost"}
          /\ rpc \in RecvPC /\ dpc \in DecodePC /\ toRead \in Nat /\ ntf \in BOOLEAN
          /\ side \in {"server", "client"}
      BY DEF Init, RecvPC, DecodePC
    <2> QED
      BY <2>1, <2>2, <2>3 DEF TypeOK
  <1>5. FramesIntact /\ NoOverrun
    BY <1>1, ConstantFacts DEF Init, FramesIntact, NoOverrun
  <1>6. StreamInv /\ ThreadInv /\ WaitInv
    BY <1>1, ConstantFacts DEF Init, StreamInv, ThreadInv, WaitInv
  <1> QED
    BY <1>4, <1>5, <1>6 DEF IInv

(* The steps of the environment.                                           *)
LEMMA EnvironmentStep == ASSUME IInv, Environment PROVE IInv'
  <1>0. StreamLen \in Nat /\ Start[1] = 0
    <2>1. NFrames + 1 \in 1..(NFrames + 1)
      BY ConstantFacts
    <2> QED
      BY <2>1, StartNat, InboundAssumption DEF StreamLen
  <1>1. CASE StartThread
    <2>0. /\ <<>> \in Seq(Nat \X Nat) /\ <<>> \in Seq(Seq(Nat \X Nat))
          /\ Len(<<>>) = 0
      BY EmptySeq
    <2>1. chunk = <<>> /\ buf = <<>> /\ chunk' = <<>> /\ buf' = <<>> /\ decoded' = <<>>
      BY <1>1 DEF StartThread, IInv, ThreadInv
    <2>2. TypeOK'
      BY <1>0, <1>1, <2>0, ConstantFacts
         DEF StartThread, IInv, TypeOK, RecvPC, DecodePC
    <2>3. FramesIntact' /\ NoOverrun'
      BY <2>0, <2>1, ConstantFacts DEF FramesIntact, NoOverrun
    <2>4. StreamInv'
      <3>1. rcvd' = 0 /\ Start[0 + 1] = 0
        BY <1>0, <1>1 DEF StartThread
      <3> QED
        BY <2>0, <2>1, <3>1 DEF StreamInv
    <2>5. ThreadInv'
      BY <1>1, <2>0, <2>1, ConstantFacts DEF StartThread, ThreadInv
    <2>6. WaitInv'
      BY <1>1 DEF StartThread, WaitInv
    <2> QED
      BY <2>2, <2>3, <2>4, <2>5, <2>6 DEF IInv
  <1>2. CASE PeerSend
    <2>1. TypeOK'
      BY <1>0, <1>2 DEF PeerSend, IInv, TypeOK
    <2>2. FramesIntact' /\ NoOverrun' /\ StreamInv'
      BY <1>2, NoByteMoves DEF PeerSend
    <2> QED
      BY <1>2, <2>1, <2>2 DEF PeerSend, IInv, ThreadInv, WaitInv
  <1>3. CASE PeerClose \/ ConnectionLost \/ ClientStop
    <2>1. TypeOK'
      BY <1>3 DEF PeerClose, ConnectionLost, ClientStop, netVars, IInv, TypeOK
    <2>2. FramesIntact' /\ NoOverrun' /\ StreamInv'
      BY <1>3, NoByteMoves DEF PeerClose, ConnectionLost, ClientStop, netVars
    <2>3. ThreadInv' /\ WaitInv'
      BY <1>3 DEF PeerClose, ConnectionLost, ClientStop, netVars, IInv,
                  ThreadInv, WaitInv
    <2> QED
      BY <2>1, <2>2, <2>3 DEF IInv
  <1> QED
    BY <1>1, <1>2, <1>3 DEF Environment

(* ReceiveData fills the chunk with the next bytes of the stream.          *)
LEMMA ReceiveDataStep == ASSUME IInv, ReceiveData PROVE IInv'
  <1>1. PICK n \in 1..MaxChunk : /\ n <= sent - rcvd
                                 /\ chunk' = Bytes(rcvd, n)
                                 /\ rcvd' = rcvd + n
    BY DEF ReceiveData
  <1>2. /\ session \in Nat /\ rcvd \in Nat /\ sent \in Nat /\ n \in Nat
        /\ n <= MaxChunk /\ rcvd <= sent /\ Len(buf) \in Nat
    <2>1. NFrames + 1 \in 1..(NFrames + 1)
      BY ConstantFacts
    <2>2. StreamLen \in Nat
      BY <2>1, StartNat DEF StreamLen
    <2> QED
      BY <2>2, ConstantFacts DEF IInv, TypeOK
  <1>3. /\ chunk' \in Seq(Nat \X Nat)
        /\ Len(chunk') = n
        /\ \A i \in 1..n : chunk'[i] = <<session, rcvd + i - 1>>
    BY <1>1, <1>2, BytesFacts
  <1>4. /\ rpc = "recv" /\ rpc' = "add" /\ chunk = <<>>
        /\ UNCHANGED <<side, session, conn, sent, running, dpc, toRead, buf, ntf, decoded>>
    BY DEF ReceiveData, netVars, IInv, ThreadInv
  <1>5. TypeOK'
    BY <1>1, <1>2, <1>3, <1>4 DEF IInv, TypeOK, RecvPC
  <1>6. FramesIntact' /\ NoOverrun'
    BY <1>4 DEF IInv, FramesIntact, Payload, Bytes, NoOverrun
  <1>7. StreamInv'
    <2> SUFFICES ASSUME dpc \notin {"off", "done"} PROVE StreamInv'
      BY <1>4 DEF StreamInv
    <2> DEFINE base == Start[Len(decoded) + 1]
    <2>1. /\ \A i \in 1..Len(buf) : buf[i] = <<session, base + i - 1>>
          /\ rcvd = base + Len(buf) + Len(chunk)
      BY DEF IInv, StreamInv
    <2>2. base \in Nat
      <3>1. Len(decoded) + 1 \in 1..(NFrames + 1)
        BY DecodedBound, ConstantFacts DEF IInv, TypeOK
      <3> QED
        BY <3>1, StartNat
    <2> HIDE DEF base
    <2>3. Len(chunk) = 0
      BY <1>4, EmptySeq
    <2>4. rcvd = base + Len(buf)
      BY <1>2, <2>1, <2>2, <2>3
    <2>5. /\ \A i \in 1..Len(chunk') :
               chunk'[i] = <<session, base + Len(buf) + i - 1>>
          /\ rcvd' = base + Len(buf) + Len(chunk')
      BY <1>1, <1>3, <2>4
    <2> QED
      BY <1>4, <2>1, <2>5 DEF StreamInv, base
  <1>8. ThreadInv' /\ WaitInv'
    <2>1. Len(chunk') <= MaxChunk
      BY <1>2, <1>3
    <2> QED
      BY <1>4, <2>1 DEF IInv, ThreadInv, WaitInv
  <1> QED
    BY <1>5, <1>6, <1>7, <1>8 DEF IInv

(* addBytes moves the chunk to the end of the queue, or waits for room.    *)
LEMMA addBytesStep == ASSUME IInv, addBytes PROVE IInv'
  <1>1. /\ rpc = "add" /\ MutexFree
        /\ UNCHANGED <<side, session, conn, sent, running, rcvd, toRead, ntf, decoded>>
    BY DEF addBytes, netVars
  <1>2. /\ buf \in Seq(Nat \X Nat) /\ chunk \in Seq(Nat \X Nat)
        /\ Len(buf) \in Nat /\ Len(chunk) \in Nat
    BY DEF IInv, TypeOK
  <1>3. CASE Len(buf) + Len(chunk) <= Capacity
    <2>1. buf' = buf \o chunk /\ chunk' = <<>> /\ rpc' = "loop" /\ dpc' = WakeDecode
      BY <1>2, <1>3, ConstantFacts DEF addBytes
    <2>2. /\ buf' \in Seq(Nat \X Nat) /\ Len(buf') = Len(buf) + Len(chunk)
          /\ chunk' \in Seq(Nat \X Nat) /\ Len(chunk') = 0
          /\ \A i \in 1..(Len(buf) + Len(chunk)) :
               buf'[i] = IF i <= Len(buf) THEN buf[i] ELSE chunk[i - Len(buf)]
      BY <1>2, <2>1, ConcatProperties, EmptySeq
    <2>3. TypeOK'
      BY <1>1, <2>1, <2>2 DEF IInv, TypeOK, WakeDecode, RecvPC, DecodePC
    <2>4. FramesIntact' /\ NoOverrun'
      BY <1>1, <1>3, <2>2 DEF IInv, FramesIntact, Payload, Bytes, NoOverrun
    <2>5. StreamInv'
      <3> SUFFICES ASSUME dpc \notin {"off", "done"} PROVE StreamInv'
        BY <2>1 DEF StreamInv, WakeDecode
      <3> DEFINE base == Start[Len(decoded) + 1]
      <3>1. /\ \A i \in 1..Len(buf) : buf[i] = <<session, base + i - 1>>
            /\ \A i \in 1..Len(chunk) :
                 chunk[i] = <<session, base + Len(buf) + i - 1>>
            /\ rcvd = base + Len(buf) + Len(chunk)
        BY DEF IInv, StreamInv
      <3>2. base \in Nat
        <4>1. Len(decoded) + 1 \in 1..(NFrames + 1)
          BY DecodedBound, ConstantFacts DEF IInv, TypeOK
        <4> QED
          BY <4>1, StartNat
      <3> HIDE DEF base
      <3>3. ASSUME NEW i \in 1..(Len(buf) + Len(chunk))
            PROVE  buf'[i] = <<session, base + i - 1>>
        <4>1. CASE i <= Len(buf)
          <5>1. i \in 1..Len(buf)
            BY <1>2, <4>1
          <5> QED
            BY <2>2, <3>1, <4>1, <5>1
        <4>2. CASE ~(i <= Len(buf))
          <5>1. i - Len(buf) \in 1..Len(chunk)
            BY <1>2, <4>2
          <5>2. base + Len(buf) + (i - Len(buf)) - 1 = base + i - 1
            BY <1>2, <3>2
          <5>3. buf'[i] = chunk[i - Len(buf)]
            BY <2>2, <4>2
          <5> QED
            BY <3>1, <5>1, <5>2, <5>3
        <4> QED
          BY <4>1, <4>2
      <3>4. rcvd = base + Len(buf') + Len(chunk')
        BY <1>2, <2>2, <3>1, <3>2
      <3>5. \A i \in 1..Len(buf') : buf'[i] = <<session, base + i - 1>>
        BY <2>2, <3>3
      <3>6. \A i \in 1..Len(chunk') :
              chunk'[i] = <<session, base + Len(buf') + i - 1>>
        BY <2>2
      <3> QED
        BY <1>1, <3>4, <3>5, <3>6 DEF StreamInv, base
    <2>6. ThreadInv'
      BY <1>1, <2>1, <2>2, ConstantFacts DEF IInv, ThreadInv, WakeDecode
    <2>7. WaitInv'
      <3>1. dpc' \notin {"park1", "park2", "wait1", "wait2"}
        BY <1>1, <2>1 DEF MutexFree, WakeDecode
      <3>2. dpc' = "fetch2" => dpc \in {"fetch2", "wait2"}
        BY <2>1 DEF WakeDecode
      <3> QED
        BY <1>1, <2>1, <3>1, <3>2 DEF IInv, WaitInv, FrameLen
    <2> QED
      BY <2>3, <2>4, <2>5, <2>6, <2>7 DEF IInv
  <1>4. CASE ~(Len(buf) + Len(chunk) <= Capacity)
    <2>1. rpc' = "addwait" /\ UNCHANGED <<buf, chunk, dpc>>
      BY <1>4 DEF addBytes
    <2>2. TypeOK'
      BY <1>1, <2>1 DEF IInv, TypeOK, RecvPC
    <2>3. FramesIntact' /\ NoOverrun' /\ StreamInv'
      BY <1>1, <2>1, NoByteMoves
    <2>4. ThreadInv'
      BY <1>1, <2>1 DEF IInv, ThreadInv
    <2>5. WaitInv'
      <3>1. Len(buf) + Len(chunk) > Capacity
        BY <1>2, <1>4, ConstantFacts
      <3> QED
        BY <1>1, <2>1, <3>1 DEF IInv, WaitInv, FrameLen
    <2> QED
      BY <2>2, <2>3, <2>4, <2>5 DEF IInv
  <1> QED
    BY <1>3, <1>4

(* The steps of the receive thread.                                        *)
LEMMA RecvThreadStep == ASSUME IInv, RecvThread PROVE IInv'
  <1>1. CASE RecvLoop \/ ReceiveEnd \/ RecvStop \/ notify_unblock
    <2>1. TypeOK'
      BY <1>1 DEF RecvLoop, ReceiveEnd, RecvStop, notify_unblock, netVars, IInv,
                  TypeOK, RecvPC
    <2>2. FramesIntact' /\ NoOverrun' /\ StreamInv'
      BY <1>1, NoByteMoves
         DEF RecvLoop, ReceiveEnd, RecvStop, notify_unblock, netVars
    <2>3. ThreadInv'
      BY <1>1 DEF RecvLoop, ReceiveEnd, RecvStop, notify_unblock, netVars, IInv,
                  ThreadInv
    <2>4. WaitInv'
      BY <1>1 DEF RecvLoop, ReceiveEnd, RecvStop, notify_unblock, IInv, WaitInv,
                  FrameLen
    <2> QED
      BY <2>1, <2>2, <2>3, <2>4 DEF IInv
  <1>2. CASE notify_unblock_all
    <2>1. TypeOK'
      BY <1>2 DEF notify_unblock_all, netVars, IInv, TypeOK, RecvPC, DecodePC,
                  WakeDecode
    <2>2. FramesIntact' /\ NoOverrun' /\ StreamInv'
      BY <1>2, NoByteMoves DEF notify_unblock_all, netVars, WakeDecode
    <2>3. ThreadInv'
      BY <1>2 DEF notify_unblock_all, netVars, IInv, ThreadInv, WakeDecode
    <2>4. WaitInv'
      BY <1>2 DEF notify_unblock_all, IInv, WaitInv, FrameLen, WakeDecode
    <2> QED
      BY <2>1, <2>2, <2>3, <2>4 DEF IInv
  <1>3. CASE RecvJoin
    <2>0. <<>> \in Seq(Nat \X Nat) /\ Len(<<>>) = 0
      BY EmptySeq
    <2>1. /\ rpc = "join" /\ dpc = "done" /\ rpc' = "off" /\ dpc' = "off"
          /\ buf' = <<>> /\ chunk' = <<>> /\ ntf' \in BOOLEAN
          /\ UNCHANGED <<side, session, conn, sent, running, rcvd, toRead, decoded>>
      BY <1>3 DEF RecvJoin, netVars, IInv, ThreadInv, TypeOK
    <2>2. TypeOK'
      BY <2>0, <2>1 DEF IInv, TypeOK, RecvPC, DecodePC
    <2>3. FramesIntact' /\ NoOverrun'
      BY <2>0, <2>1, ConstantFacts DEF IInv, FramesIntact, Payload, Bytes, NoOverrun
    <2>4. StreamInv' /\ WaitInv'
      BY <2>1 DEF StreamInv, WaitInv
    <2>5. ThreadInv'
      BY <2>0, <2>1, ConstantFacts DEF IInv, ThreadInv
    <2> QED
      BY <2>2, <2>3, <2>4, <2>5 DEF IInv
  <1> QED
    BY <1>1, <1>2, <1>3, ReceiveDataStep, addBytesStep DEF RecvThread

(* The steps of the decode thread.                                         *)
LEMMA DecodeThreadStep == ASSUME IInv, DecodeThread PROVE IInv'
  <1>1. CASE DecodeLoop
    <2>1. TypeOK'
      BY <1>1 DEF DecodeLoop, netVars, IInv, TypeOK, DecodePC
    <2>2. FramesIntact' /\ NoOverrun' /\ StreamInv'
      BY <1>1, NoByteMoves DEF DecodeLoop, netVars
    <2>3. ThreadInv'
      BY <1>1 DEF DecodeLoop, netVars, IInv, ThreadInv
    <2>4. WaitInv'
      BY <1>1 DEF DecodeLoop, IInv, WaitInv
    <2> QED
      BY <2>1, <2>2, <2>3, <2>4 DEF IInv
  <1>2. CASE fetchNextMsg
    <2>1. CASE ~ntf /\ Len(buf) >= HeaderSize
      <3>0. ~(Len(buf) < HeaderSize)
        BY <2>1, ConstantFacts DEF IInv, TypeOK
      <3>1. PICK n \in HeaderValues : toRead' = n /\ TakePacket(n)
        BY <1>2, <2>1, <3>0 DEF fetchNextMsg
      <3>2. dpc = "fetch" /\ UNCHANGED <<netVars, running, rcvd, chunk, ntf>>
        BY <1>2 DEF fetchNextMsg
      <3>3. n = NextLength /\ Len(decoded) < NFrames
        BY <2>1, <3>1, <3>2, HeaderIsNext
      <3> QED
        BY <3>1, <3>2, <3>3, TakeNext
    <2>2. CASE ~(~ntf /\ Len(buf) >= HeaderSize)
      <3>1. /\ dpc = "fetch" /\ dpc' \in {"loop", "park1"}
            /\ dpc' = "park1" => Len(buf) < HeaderSize
            /\ UNCHANGED <<side, session, conn, sent, running, rcvd, rpc, chunk, toRead,
                           buf, ntf, decoded>>
        BY <1>2, <2>2 DEF fetchNextMsg, netVars
      <3>2. TypeOK'
        BY <3>1 DEF IInv, TypeOK, DecodePC
      <3>3. FramesIntact' /\ NoOverrun' /\ StreamInv'
        BY <3>1, NoByteMoves
      <3>4. ThreadInv' /\ WaitInv'
        BY <3>1 DEF IInv, ThreadInv, WaitInv
      <3> QED
        BY <3>2, <3>3, <3>4 DEF IInv
    <2> QED
      BY <2>1, <2>2
  <1>3. CASE fetchNextMsg_resumed
    <2>1. /\ dpc = "fetch2" /\ TakePacket(toRead) /\ toRead' = toRead
          /\ UNCHANGED <<netVars, running, rcvd, chunk, ntf>>
      BY <1>3 DEF fetchNextMsg_resumed
    <2>2. Len(decoded) < NFrames /\ toRead = NextLength
      BY <2>1 DEF IInv, WaitInv, NextLength
    <2> QED
      BY <2>1, <2>2, TakeNext
  <1>4. CASE Park
    <2>1. TypeOK'
      BY <1>4 DEF Park, netVars, IInv, TypeOK, DecodePC
    <2>2. FramesIntact' /\ NoOverrun' /\ StreamInv'
      BY <1>4, NoByteMoves DEF Park, netVars
    <2>3. ThreadInv'
      BY <1>4 DEF Park, netVars, IInv, ThreadInv
    <2>4. WaitInv'
      BY <1>4 DEF Park, IInv, WaitInv, FrameLen
    <2> QED
      BY <2>1, <2>2, <2>3, <2>4 DEF IInv
  <1>5. CASE DecodeExit
    <2>0. <<>> \in Seq(Nat \X Nat) /\ Len(<<>>) = 0
      BY EmptySeq
    <2>1. /\ dpc = "exit" /\ dpc' = "done"
          /\ UNCHANGED <<side, session, conn, sent, running, rcvd, rpc, chunk, toRead,
                         decoded>>
          /\ \/ side = "server" /\ buf' = <<>>
             \/ side # "server" /\ buf' = buf
          /\ ntf' \in BOOLEAN
      BY <1>5 DEF DecodeExit, netVars, IInv, TypeOK
    <2>2. TypeOK'
      BY <2>0, <2>1 DEF IInv, TypeOK, DecodePC
    <2>3. FramesIntact' /\ NoOverrun'
      BY <2>0, <2>1, ConstantFacts DEF IInv, FramesIntact, Payload, Bytes, NoOverrun
    <2>4. StreamInv'
      BY <2>1 DEF StreamInv
    <2>5. ThreadInv'
      BY <2>0, <2>1 DEF IInv, ThreadInv
    <2>6. WaitInv'
      <3>1. rpc = "addwait" /\ side = "server" => running
        BY DEF IInv, ThreadInv
      <3>2. side = "server" => ~running
        BY <2>1 DEF IInv, ThreadInv
      <3> QED
        BY <2>1, <3>1, <3>2 DEF IInv, WaitInv
    <2> QED
      BY <2>2, <2>3, <2>4, <2>5, <2>6 DEF IInv
  <1> QED
    BY <1>1, <1>2, <1>3, <1>4, <1>5 DEF DecodeThread

LEMMA NextIInv == IInv /\ [Next]_vars => IInv'
  <1> SUFFICES ASSUME IInv, [Next]_vars PROVE IInv'
    OBVIOUS
  <1>1. CASE UNCHANGED vars
    <2>1. FramesIntact' /\ NoOverrun' /\ StreamInv'
      BY <1>1, NoByteMoves DEF vars
    <2> QED
      BY <1>1, <2>1 DEF vars, IInv, TypeOK, ThreadInv, WaitInv, FrameLen
  <1> QED
    BY <1>1, EnvironmentStep, RecvThreadStep, DecodeThreadStep DEF Next

(* The inductive invariant holds in every behaviour.                       *)
THEOREM Invariance == Spec => []IInv
  BY InitIInv, NextIInv, PTL DEF Spec

(* The threads' program counters, the stream positions and the contents of *)
(* the ByteQueue always have their types; in particular no more bytes are  *)
(* received than the peer sent.                                            *)
THEOREM TypeCorrect == Spec => []TypeOK
  <1>1. IInv => TypeOK
    BY DEF IInv
  <1> QED
    BY <1>1, Invariance, PTL

(* Whatever the frame lengths, the chunking of the stream by ReceiveData   *)
(* and the capacity of the queue, fetchNextMsg returns the payloads of the *)
(* frames the peer sent in this session, in order and unaltered.           *)
THEOREM FramesIntactAlways == Spec => []FramesIntact
  <1>1. IInv => FramesIntact
    BY DEF IInv
  <1> QED
    BY <1>1, Invariance, PTL

(* addBytes never writes past the ByteQueue's allocation, and a chunk that *)
(* does not fit is kept until it does.                                     *)
THEOREM NoOverrunAlways == Spec => []NoOverrun
  <1>1. IInv => NoOverrun
    BY DEF IInv
  <1> QED
    BY <1>1, Invariance, PTL

(* A queue that can hold a frame less a byte and a chunk besides never has *)
(* addBytes and fetchNextMsg waiting for each other.                       *)
THEOREM NoMutualWaitAlways == Spec => []NoMutualWait
  <1>1. ASSUME IInv PROVE NoMutualWait
    <2> SUFFICES ASSUME rpc = "addwait", dpc \in {"wait1", "wait2"} PROVE FALSE
      BY DEF NoMutualWait
    <2>1. /\ Len(buf) \in Nat /\ Len(chunk) \in Nat /\ Len(chunk) <= MaxChunk
          /\ Len(buf) + Len(chunk) > Capacity
      BY <1>1 DEF IInv, TypeOK, ThreadInv, WaitInv
    <2>2. CASE dpc = "wait1"
      <3>1. Len(buf) < HeaderSize
        BY <1>1, <2>2 DEF IInv, WaitInv
      <3> QED
        BY <2>1, <3>1, ConstantFacts
    <2>3. CASE dpc = "wait2"
      <3> DEFINE k == Len(decoded) + 1
      <3>1. /\ Len(decoded) < NFrames /\ toRead = FrameLen(k) - HeaderSize
            /\ Len(buf) < toRead + HeaderSize
        BY <1>1, <2>3 DEF IInv, WaitInv
      <3>2. k \in 1..NFrames
        BY <1>1, <3>1, ConstantFacts DEF IInv, TypeOK
      <3>3. FrameLen(k) \in Nat /\ FrameLen(k) + MaxChunk - 1 <= Capacity
        BY <3>2, FrameFacts
      <3> HIDE DEF k
      <3> QED
        BY <2>1, <3>1, <3>3, ConstantFacts
    <2> QED
      BY <2>2, <2>3
  <1> QED
    BY <1>1, Invariance, PTL

(* On the client, what the last session's notify_unblock stored is gone    *)
(* when its receive thread ends: RecvJoin restarts the queue after the     *)
(* join. So, whatever the frames, the chunks and the number of sessions,   *)
(* no decode thread of the client starts on a queue still unblocked.       *)
THEOREM ClientNoStaleUnblockAlways == Spec => []ClientNoStaleUnblock
  <1>1. Init => ClientNoStaleUnblock
    BY DEF Init, ClientNoStaleUnblock
  <1>2. ASSUME ClientNoStaleUnblock, [Next]_vars PROVE ClientNoStaleUnblock'
    <2>0. side' = side
      BY <1>2 DEF Next, RecvThread, DecodeThread, Environment, netVars, vars,
           StartThread, PeerSend, PeerClose, ConnectionLost, ClientStop, RecvLoop,
           ReceiveData, ReceiveEnd, addBytes, RecvStop, notify_unblock,
           notify_unblock_all, RecvJoin, DecodeLoop, fetchNextMsg,
           fetchNextMsg_resumed, Park, DecodeExit
    <2> SUFFICES ASSUME side = "client", ntf => rpc \in {"ntfall", "join"}
                 PROVE  ntf' => rpc' \in {"ntfall", "join"}
      BY <1>2, <2>0 DEF ClientNoStaleUnblock
    <2>1. CASE RecvThread
      <3>1. CASE RecvJoin
        BY <3>1 DEF RecvJoin
      <3>2. CASE notify_unblock \/ notify_unblock_all
        BY <3>2 DEF notify_unblock, notify_unblock_all
      <3>3. CASE RecvLoop \/ ReceiveData \/ ReceiveEnd \/ addBytes \/ RecvStop
        <4>1. ntf' = ntf /\ rpc \notin {"ntfall", "join"}
          BY <3>3 DEF RecvLoop, ReceiveData, ReceiveEnd, addBytes, RecvStop
        <4> QED
          BY <4>1
      <3> QED
        BY <2>1, <3>1, <3>2, <3>3 DEF RecvThread
    <2>2. CASE DecodeThread
      <3>1. ntf' = ntf
        BY <2>2 DEF DecodeThread, DecodeLoop, fetchNextMsg, fetchNextMsg_resumed, Park,
                    DecodeExit
      <3>2. rpc' = rpc \/ rpc = "addwait"
        BY <2>2 DEF DecodeThread, DecodeLoop, fetchNextMsg, fetchNextMsg_resumed, Park,
                    DecodeExit, TakePacket, WakeRecv
      <3> QED
        BY <3>1, <3>2
    <2>3. CASE Environment
      <3>1. ntf' = ntf /\ (rpc' = rpc \/ rpc = "off")
        BY <2>3 DEF Environment, StartThread, PeerSend, PeerClose, ConnectionLost,
                    ClientStop, netVars
      <3> QED
        BY <3>1
    <2>4. CASE UNCHANGED vars
      BY <2>4 DEF vars
    <2> QED
      BY <1>2, <2>1, <2>2, <2>3, <2>4 DEF Next
  <1> QED
    BY <1>1, <1>2, PTL DEF Spec
-----------------------------------------------------------------------------
(* The frames follow one another: the end of one is not after the end of a *)
(* later one.                                                              *)
LEMMA EndsInOrder ==
    ASSUME NEW m \in 1..NFrames, NEW n \in 1..NFrames, n <= m
    PROVE  Start[n + 1] <= Start[m + 1]
  <1>1. /\ m \in Nat /\ n \in Nat
        /\ Start[m] \in Nat /\ Start[m + 1] \in Nat /\ Start[n + 1] \in Nat
        /\ Start[m + 1] > Start[m]
    BY FrameFacts, ConstantFacts
  <1>2. CASE n = m
    BY <1>1, <1>2
  <1>3. CASE n < m
    <2>1. n + 1 \in 1..NFrames /\ (n + 1 = m \/ n + 1 < m)
      BY <1>1, <1>3, ConstantFacts
    <2>2. n + 1 < m => Start[n + 1] < Start[m]
      BY <2>1, InboundAssumption
    <2> QED
      BY <1>1, <2>1, <2>2
  <1> QED
    BY <1>1, <1>2, <1>3

(* How many frames are complete: those whose end is in the stream. There   *)
(* is such a number, the one before the first frame that is not complete.  *)
LEMMA WholeFramesAre ==
    ASSUME NEW bytes \in Nat
    PROVE  /\ WholeFrames(bytes) \in 0..NFrames
           /\ \A n \in 1..NFrames : n <= WholeFrames(bytes) <=> Start[n + 1] <= bytes
  <1> DEFINE Broken == {n \in 1..NFrames : ~(Start[n + 1] <= bytes)}
  <1>1. \E m \in 0..NFrames : \A n \in 1..NFrames : n <= m <=> Start[n + 1] <= bytes
    <2>1. CASE Broken = {}
      <3>1. \A n \in 1..NFrames : Start[n + 1] <= bytes
        BY <2>1, Zenon
      <3>2. \A n \in 1..NFrames : n <= NFrames <=> Start[n + 1] <= bytes
        BY <3>1, ConstantFacts
      <3>3. NFrames \in 0..NFrames
        BY ConstantFacts
      <3> QED
        BY <3>2, <3>3
    <2>2. CASE Broken # {}
      <3>1. Broken \subseteq Nat
        BY ConstantFacts
      <3>2. PICK b \in Broken : \A y \in Broken : ~(y < b)
        <4> DEFINE R == OpToRel(<, Nat)
        <4>1. \A x, y \in Nat : x < y => <<x, y>> \in R
          BY DEF OpToRel
        <4>2. IsWellFoundedOn(R, Nat)
          BY NatLessThanWellFounded
        <4> HIDE DEF R, Broken
        <4>3. PICK b \in Broken : \A y \in Broken : <<y, b>> \notin R
          BY <2>2, <3>1, <4>2, WFMin
        <4> QED
          BY <3>1, <4>1, <4>3
      <3>3. b \in 1..NFrames /\ b \in Nat /\ b - 1 \in 0..NFrames
        BY ConstantFacts
      <3>4. ASSUME NEW n \in 1..NFrames
            PROVE  n <= b - 1 <=> Start[n + 1] <= bytes
        <4>1. n \in Nat /\ Start[n + 1] \in Nat /\ Start[b + 1] \in Nat
          BY <3>3, FrameFacts, ConstantFacts
        <4>2. CASE n <= b - 1
          <5>1. n < b
            BY <3>3, <4>1, <4>2
          <5> QED
            BY <3>2, <4>2, <5>1
        <4>3. CASE ~(n <= b - 1)
          <5>1. b <= n
            BY <3>3, <4>1, <4>3
          <5>2. Start[b + 1] <= Start[n + 1]
            BY <3>3, <5>1, EndsInOrder
          <5>3. ~(Start[b + 1] <= bytes)
            BY <3>2
          <5> QED
            BY <4>1, <4>3, <5>2, <5>3
        <4> QED
          BY <4>2, <4>3
      <3> QED
        BY <3>3, <3>4
    <2> QED
      BY <2>1, <2>2
  <1> QED
    BY <1>1, Zenon DEF WholeFrames

(* A sequence given by its entries has as many of them as were given.      *)
LEMMA EntriesLen ==
    ASSUME NEW w \in Nat, NEW f, f = [i \in 1..w |-> f[i]]
    PROVE  Len(f) = w /\ (f = <<>> <=> w = 0)
  <1>1. f \in [1..w -> {f[i] : i \in 1..w}]
    OBVIOUS
  <1>2. f \in Seq({f[i] : i \in 1..w})
    BY <1>1, IsASeq
  <1>3. DOMAIN f = 1..w
    BY <1>1
  <1>4. Len(f) = w
    BY <1>2, <1>3, LenProperties
  <1> QED
    BY <1>2, <1>4, EmptySeq

(* A step that sends nothing and opens no session shows no new message.    *)
LEMMA NothingSent ==
    ASSUME UNCHANGED <<session, sent>>
    PROVE  SentWhole' = SentWhole
  BY DEF SentWhole, Payload, Bytes

(* The tail of fetchNextMsg hands out the next message, which was sent     *)
(* whole, or nothing.                                                      *)
LEMMA TakeRefines ==
    ASSUME IInv, dpc \in {"fetch", "fetch2"}, Len(decoded) < NFrames,
           NEW n, n = NextLength, TakePacket(n), toRead' = n,
           UNCHANGED <<netVars, running, rcvd, chunk, ntf>>
    PROVE  Stream!Get \/ UNCHANGED <<session, SentWhole, decoded>>
  <1>0. UNCHANGED <<session, sent>> /\ SentWhole' = SentWhole
    BY NothingSent DEF netVars
  <1>1. CASE ~(n + HeaderSize <= Len(buf))
    BY <1>0, <1>1 DEF TakePacket
  <1>2. CASE n + HeaderSize <= Len(buf)
    <2>1. /\ Len(decoded) \in Nat /\ Len(buf) \in Nat /\ Len(chunk) \in Nat
          /\ decoded \in Seq(Seq(Nat \X Nat))
          /\ sent \in Nat /\ rcvd \in Nat /\ rcvd <= sent
      <3>1. StreamLen \in Nat
        BY StartNat, ConstantFacts DEF StreamLen
      <3> QED
        BY <3>1 DEF IInv, TypeOK
    <2>2. PICK k \in 1..NFrames : k = Len(decoded) + 1
      BY <2>1, ConstantFacts
    <2>3. /\ Start[k] \in Nat /\ Start[k + 1] \in Nat
          /\ FrameLen(k) \in Nat /\ Start[k + 1] = Start[k] + FrameLen(k)
      BY <2>2, FrameFacts
    <2>4. rcvd = Start[k] + Len(buf) + Len(chunk)
      BY <2>2 DEF IInv, StreamInv
    <2>5. n = FrameLen(k) - HeaderSize
      BY <2>2 DEF NextLength
    <2>6. k = Len(decoded) + 1
      BY <2>2
    <2>7. Start[k + 1] <= sent
      <3>1. FrameLen(k) <= Len(buf)
        BY <1>2, <2>1, <2>3, <2>5, ConstantFacts
      <3>2. \A b, c, f, l, e \in Nat : f <= b /\ e = l + f => e <= l + b + c
        OBVIOUS
      <3>3. Start[k + 1] <= rcvd
        BY <2>1, <2>3, <2>4, <3>1, <3>2
      <3> QED
        BY <2>1, <2>3, <3>3
    <2>8. k <= WholeFrames(sent)
      BY <2>1, <2>2, <2>7, WholeFramesAre
    <2>9. Len(decoded) < Len(SentWhole) /\ SentWhole[k] = Payload(k)
      <3> DEFINE w == WholeFrames(sent)
      <3>1. k \in Nat /\ k > 0 /\ w \in Nat /\ k <= w
        <4>1. w \in 0..NFrames
          BY <2>1, WholeFramesAre
        <4> QED
          BY <2>1, <2>6, <2>8, <4>1, ConstantFacts
      <3>2. Len(SentWhole) = w
        BY <3>1, EntriesLen DEF SentWhole
      <3>3. k \in 1..w => SentWhole[k] = Payload(k)
        BY DEF SentWhole
      <3> HIDE DEF w
      <3> QED
        BY <2>1, <2>6, <3>1, <3>2, <3>3
    <2>10. decoded' = Append(decoded, Payload(k))
      <3>1. PICK p : decoded' = Append(decoded, p)
        BY <1>2 DEF TakePacket
      <3>2. Len(decoded') = k /\ decoded'[k] = p
        BY <2>1, <2>6, <3>1
      <3>3. FramesIntact'
        BY TakeNext DEF IInv
      <3>4. decoded'[k] = Payload(k)'
        <4>1. k \in 1..Len(decoded')
          BY <2>1, <2>6, <3>2
        <4> QED
          BY <3>3, <4>1 DEF FramesIntact
      <3>5. Payload(k)' = Payload(k)
        BY <1>0, <2>6 DEF Payload, Bytes
      <3> QED
        BY <3>1, <3>2, <3>4, <3>5
    <2> QED
      BY <1>0, <2>6, <2>9, <2>10 DEF Stream!Get
  <1> QED
    BY <1>1, <1>2

(* A write of the peer completes some messages after those there were, or  *)
(* none.                                                                   *)
LEMMA PutRefines ==
    ASSUME IInv, PeerSend
    PROVE  Stream!Put \/ UNCHANGED <<session, SentWhole, decoded>>
  <1> DEFINE v == WholeFrames(sent)
             w == WholeFrames(sent')
  <1>1. /\ sent \in Nat /\ sent' \in Nat /\ sent < sent'
        /\ UNCHANGED <<session, decoded>>
    <2>1. StreamLen \in Nat
      BY StartNat, ConstantFacts DEF StreamLen
    <2> QED
      BY <2>1 DEF IInv, TypeOK, PeerSend
  <1>2. /\ v \in 0..NFrames /\ w \in 0..NFrames
        /\ \A n \in 1..NFrames : n <= v <=> Start[n + 1] <= sent
        /\ \A n \in 1..NFrames : n <= w <=> Start[n + 1] <= sent'
    BY <1>1, WholeFramesAre
  <1>3. /\ SentWhole = [n \in 1..v |-> Payload(n)]
        /\ SentWhole' = [n \in 1..w |-> Payload(n)]
    BY <1>1 DEF SentWhole, Payload, Bytes
  <1> HIDE DEF v, w
  <1>4. v \in Nat /\ w \in Nat /\ v <= w
    <2>1. v \in Nat /\ w \in Nat
      BY <1>2, ConstantFacts
    <2>2. CASE v = 0
      BY <2>1, <2>2
    <2>3. CASE v > 0
      <3>1. v \in 1..NFrames /\ v <= v
        BY <1>2, <2>3, ConstantFacts
      <3>2. Start[v + 1] <= sent /\ Start[v + 1] \in Nat
        BY <1>2, <3>1, FrameFacts
      <3>3. Start[v + 1] <= sent'
        BY <1>1, <3>2
      <3> QED
        BY <1>2, <3>1, <3>3
    <2> QED
      BY <2>1, <2>2, <2>3
  <1>5. Len(SentWhole) = v /\ Len(SentWhole') = w
    BY <1>3, <1>4, EntriesLen
  <1>6. CASE v = w
    BY <1>1, <1>3, <1>6
  <1>7. CASE v < w
    <2>1. \A i \in 1..v : i \in 1..w
      BY <1>4
    <2>2. \A i \in 1..v : SentWhole'[i] = SentWhole[i]
      BY <1>3, <2>1
    <2> QED
      BY <1>1, <1>5, <1>7, <2>2 DEF Stream!Put
  <1> QED
    BY <1>4, <1>6, <1>7

(* When nothing was sent no frame is complete.                             *)
LEMMA NoneWhole == WholeFrames(0) = 0
  <1> DEFINE w == WholeFrames(0)
  <1>1. w \in 0..NFrames /\ \A n \in 1..NFrames : n <= w <=> Start[n + 1] <= 0
    BY WholeFramesAre
  <1>2. ASSUME w # 0 PROVE FALSE
    <2> HIDE DEF w
    <2>1. w \in 1..NFrames /\ w <= w
      BY <1>1, <1>2, ConstantFacts
    <2>2. Start[w + 1] \in Nat /\ Start[w + 1] > Start[w] /\ Start[w] \in Nat
      BY <2>1, FrameFacts, ConstantFacts
    <2> QED
      BY <1>1, <2>1, <2>2
  <1> QED
    BY <1>2

(* Every step of the two threads and of the peer is a step of the ideal    *)
(* queue of messages, or not seen.                                         *)
LEMMA StepRefines ==
    ASSUME IInv, [Next]_vars
    PROVE  [Stream!MNext]_<<session, SentWhole, decoded>>
  <1> USE DEF Stream!MNext
  <1>1. CASE StartThread
    <2>1. session' = session + 1 /\ sent' = 0 /\ decoded' = <<>>
      BY <1>1 DEF StartThread
    <2>2. SentWhole' = [n \in 1..0 |-> Payload(n)']
      BY <2>1, NoneWhole DEF SentWhole
    <2>3. SentWhole' = <<>>
      BY <2>2, EntriesLen
    <2> QED
      BY <2>1, <2>3 DEF Stream!Open
  <1>2. CASE PeerSend
    BY <1>2, PutRefines
  <1>3. CASE fetchNextMsg
    <2>0. dpc = "fetch" /\ UNCHANGED <<netVars, running, rcvd, chunk, ntf>>
      BY <1>3 DEF fetchNextMsg
    <2>1. CASE decoded' = decoded
      BY <2>0, <2>1, NothingSent DEF netVars
    <2>2. CASE decoded' # decoded
      <3>1. /\ Len(buf) >= HeaderSize
            /\ \E n \in HeaderValues : toRead' = n /\ TakePacket(n)
        BY <1>3, <2>2 DEF fetchNextMsg
      <3>2. PICK n \in HeaderValues : toRead' = n /\ TakePacket(n)
        BY <3>1
      <3>3. n = NextLength /\ Len(decoded) < NFrames
        BY <2>0, <3>1, HeaderIsNext
      <3> QED
        BY <2>0, <3>2, <3>3, TakeRefines
    <2> QED
      BY <2>1, <2>2
  <1>4. CASE fetchNextMsg_resumed
    <2>1. /\ dpc = "fetch2" /\ TakePacket(toRead) /\ toRead' = toRead
          /\ UNCHANGED <<netVars, running, rcvd, chunk, ntf>>
      BY <1>4 DEF fetchNextMsg_resumed
    <2>2. Len(decoded) < NFrames /\ toRead = NextLength
      BY <2>1 DEF IInv, WaitInv, NextLength
    <2> QED
      BY <2>1, <2>2, TakeRefines
  <1>5. CASE UNCHANGED <<session, sent, decoded>>
    BY <1>5, NothingSent
  <1>6. ASSUME Next PROVE \/ StartThread \/ PeerSend
                          \/ fetchNextMsg \/ fetchNextMsg_resumed
                          \/ UNCHANGED <<session, sent, decoded>>
    BY <1>6 DEF Next, RecvThread, DecodeThread, Environment, netVars, PeerClose,
         ConnectionLost, ClientStop, RecvLoop, ReceiveData, ReceiveEnd, addBytes,
         RecvStop, notify_unblock, notify_unblock_all, RecvJoin, DecodeLoop, Park,
         DecodeExit
  <1> QED
    BY <1>1, <1>2, <1>3, <1>4, <1>5, <1>6 DEF vars

(* The receive thread, the ByteQueue and the decode thread implement the   *)
(* ideal queue of messages that the remote calls are built on: whatever    *)
(* the frames, the chunks, the capacity and the number of sessions, the    *)
(* decode thread hands out the messages of this session in order, each     *)
(* once and only after it was sent whole.                                  *)
THEOREM StreamRefinement == Spec => ImplementsStream
  <1>1. Init => Stream!MInit
    <2> SUFFICES ASSUME Init PROVE SentWhole = <<>>
      BY DEF Init, Stream!MInit
    <2>1. SentWhole = [n \in 1..0 |-> Payload(n)]
      BY NoneWhole DEF Init, SentWhole
    <2> QED
      BY <2>1, EntriesLen
  <1>2. IInv /\ [Next]_vars => [Stream!MNext]_<<session, SentWhole, decoded>>
    BY StepRefines
  <1>3. [Stream!MNext]_<<session, SentWhole, decoded>> =>
          [Stream!MNext]_(Stream!streamVars)
    BY DEF Stream!streamVars
  <1> QED
    BY <1>1, <1>2, <1>3, Invariance, PTL DEF Spec, ImplementsStream, Stream!Spec
=============================================================================
