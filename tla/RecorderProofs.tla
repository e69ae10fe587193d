--------------------------- MODULE RecorderProofs ---------------------------
(***************************************************************************)
(* The safety of the recorder for every length of the queue and any number *)
(* of packets and segments.                                                *)
(***************************************************************************)
EXTENDS Recorder, SequenceTheorems, WellFoundedInduction, TLAPS

\* What the two threads know of each other.  ContainerIsNotShared alone is not
\* inductive: that the writer finds a header needs that no packet is queued
\* before there is one, and that a start finds no old writer and no old packet
\* needs what a stop leaves behind.
ThreadsAgree ==
    /\ decoder \in DecoderPoint
    /\ decoder # "idle" => open
    /\ writer # "none" => open
    /\ header => open
    /\ queue # <<>> => header
    /\ writer = "writing" => header
    /\ decoder = "header" => ~header
    /\ decoder = "copying" => header
    /\ decoder = "trailer" => writer = "none" /\ queue = <<>>

LEMMA ThreadsStart == Init => ThreadsAgree
  BY DEF Init, ThreadsAgree, DecoderPoint

\* A signal neither starts a writer nor sets one to work.
LEMMA SignalWakes ==
    /\ (Notified(writer) = "none") <=> (writer = "none")
    /\ (Notified(writer) = "writing") <=> (writer = "writing")
  BY DEF Notified

LEMMA DecodeKeeps == ThreadsAgree /\ Decode => ThreadsAgree'
  <1> SUFFICES ASSUME ThreadsAgree, Decode PROVE ThreadsAgree'
    OBVIOUS
  <1>1. CASE Start
    BY <1>1 DEF Start, ThreadsAgree, DecoderPoint
  <1>2. CASE WritePacket
    BY <1>2 DEF WritePacket, shared, ThreadsAgree, DecoderPoint
  <1>3. CASE WriteHeader
    BY <1>3 DEF WriteHeader, shared, ThreadsAgree, DecoderPoint
  <1>4. CASE Copy
    BY <1>4, SignalWakes DEF Copy, Enqueue, container, ThreadsAgree, DecoderPoint
  <1> QED
    BY <1>1, <1>2, <1>3, <1>4 DEF Decode

LEMMA StoppingKeeps == ThreadsAgree /\ Stopping => ThreadsAgree'
  <1> SUFFICES ASSUME ThreadsAgree, Stopping PROVE ThreadsAgree'
    OBVIOUS
  <1>1. CASE Stop
    BY <1>1, SignalWakes DEF Stop, Signal, container, ThreadsAgree, DecoderPoint
  <1>2. CASE StopJoined
    BY <1>2 DEF StopJoined, Joined, container, ThreadsAgree, DecoderPoint
  <1>3. CASE Cleanup
    BY <1>3 DEF Cleanup, shared, ThreadsAgree, DecoderPoint
  <1> QED
    BY <1>1, <1>2, <1>3 DEF Stopping

LEMMA WriteKeeps == ThreadsAgree /\ Write => ThreadsAgree'
  <1> SUFFICES ASSUME ThreadsAgree, Write PROVE ThreadsAgree'
    OBVIOUS
  <1>1. CASE WriterEnds
    BY <1>1 DEF WriterEnds, container, shared, ThreadsAgree
  <1>2. CASE WriterSleeps
    BY <1>2 DEF WriterSleeps, container, shared, ThreadsAgree
  <1>3. CASE WriterTakes
    BY <1>3 DEF WriterTakes, container, ThreadsAgree
  <1>4. CASE WriterWrites
    BY <1>4 DEF WriterWrites, container, shared, ThreadsAgree
  <1> QED
    BY <1>1, <1>2, <1>3, <1>4 DEF Write

LEMMA StutterKeeps == ThreadsAgree /\ UNCHANGED vars => ThreadsAgree'
  BY DEF vars, container, shared, ThreadsAgree

\* start, writePacket, stop and writerLoop leave the two threads in agreement.
THEOREM Threads == Spec => []ThreadsAgree
  <1>1. ThreadsAgree /\ [Next]_vars => ThreadsAgree'
    BY DecodeKeeps, StoppingKeeps, WriteKeeps, StutterKeeps DEF Next
  <1> QED
    BY ThreadsStart, <1>1, PTL DEF Spec

\* The decode thread and the writer thread are never in the container at once
\* (stopWriter joins before the trailer, the header comes before the packets).
THEOREM OneThreadMuxes == Spec => []ContainerIsNotShared
  <1>1. ThreadsAgree => ContainerIsNotShared
    BY DEF ThreadsAgree, ContainerIsNotShared, DecoderPoint
  <1> QED
    BY Threads, <1>1, PTL

-----------------------------------------------------------------------------
(* Sequences of packets. *)

\* What the file, the packet in hand and the queue hold together.
Ascending(s) == \A i, j \in DOMAIN s : i < j => s[i].n < s[j].n
Elements(s) == {s[i] : i \in DOMAIN s}

\* A packet with the highest number goes to the end.
LEMMA AppendKeeps ==
    ASSUME NEW s \in Seq(Packet), NEW p \in Packet, Ascending(s),
           \A e \in Elements(s) : e.n < p.n
    PROVE  /\ Append(s, p) \in Seq(Packet)
           /\ Ascending(Append(s, p))
           /\ Elements(Append(s, p)) = Elements(s) \cup {p}
<1> DEFINE t == Append(s, p)
<1>1. /\ t \in Seq(Packet) /\ Len(t) = Len(s) + 1 /\ Len(s) \in Nat
      /\ DOMAIN t = 1 .. Len(s) + 1 /\ DOMAIN s = 1 .. Len(s)
      /\ t[Len(s) + 1] = p
      /\ \A i \in 1 .. Len(s) : t[i] = s[i]
  OBVIOUS
<1> HIDE DEF t
<1>2. Ascending(t)
  <2> SUFFICES ASSUME NEW i \in DOMAIN t, NEW j \in DOMAIN t, i < j PROVE t[i].n < t[j].n
    BY DEF Ascending
  <2>1. CASE j = Len(s) + 1
    <3>1. i \in DOMAIN s /\ t[i] = s[i] /\ s[i] \in Elements(s)
      BY <1>1, <2>1 DEF Elements
    <3> QED BY <1>1, <2>1, <3>1
  <2>2. CASE j \in 1 .. Len(s)
    <3>1. i \in 1 .. Len(s)
      BY <1>1, <2>2
    <3> QED BY <1>1, <2>2, <3>1 DEF Ascending
  <2> QED BY <1>1, <2>1, <2>2
<1>3. Elements(t) = Elements(s) \cup {p}
  <2>1. ASSUME NEW i \in DOMAIN t PROVE t[i] \in Elements(s) \cup {p}
    <3>1. CASE i = Len(s) + 1
      BY <1>1, <3>1
    <3>2. CASE i \in DOMAIN s
      BY <1>1, <3>2 DEF Elements
    <3> QED BY <1>1, <3>1, <3>2
  <2>2. ASSUME NEW i \in DOMAIN s PROVE s[i] \in Elements(t)
    BY <1>1, <2>2 DEF Elements
  <2>3. p \in Elements(t)
    BY <1>1 DEF Elements
  <2> QED BY <2>1, <2>2, <2>3 DEF Elements
<1> QED BY <1>1, <1>2, <1>3 DEF t

\* RemoveAt, element by element.
LEMMA RemoveShape ==
    ASSUME NEW s \in Seq(Packet), NEW v \in DOMAIN s
    PROVE  /\ RemoveAt(s, v) \in Seq(Packet)
           /\ Len(RemoveAt(s, v)) = Len(s) - 1
           /\ \A i \in 1 .. Len(s) - 1 :
                 RemoveAt(s, v)[i] = IF i < v THEN s[i] ELSE s[i + 1]
<1> DEFINE a == SubSeq(s, 1, v - 1)
           b == SubSeq(s, v + 1, Len(s))
<1>0. Len(s) \in Nat /\ v \in 1 .. Len(s)
  OBVIOUS
<1>1. a \in Seq(Packet) /\ Len(a) = v - 1 /\ \A i \in 1 .. v - 1 : a[i] = s[i]
  BY <1>0
<1>2. /\ b \in Seq(Packet) /\ Len(b) = Len(s) - v
      /\ \A i \in 1 .. Len(s) - v : b[i] = s[v + i]
  BY <1>0
<1> HIDE DEF a, b
<1>3. a \o b \in Seq(Packet) /\ Len(a \o b) = Len(s) - 1
  BY <1>0, <1>1, <1>2
<1>4. ASSUME NEW i \in 1 .. Len(s) - 1
      PROVE  (a \o b)[i] = IF i < v THEN s[i] ELSE s[i + 1]
  <2>1. CASE i < v
    BY <1>0, <1>1, <1>2, <2>1
  <2>2. CASE i >= v
    <3>1. (a \o b)[i] = b[i - (v - 1)]
      BY <1>0, <1>1, <1>2, <2>2
    <3>2. i - (v - 1) \in 1 .. Len(s) - v /\ v + (i - (v - 1)) = i + 1
      BY <1>0, <2>2
    <3> QED BY <1>0, <1>2, <2>2, <3>1, <3>2
  <2>3. i < v \/ i >= v
    BY <1>0
  <2> QED BY <2>1, <2>2, <2>3
<1> QED BY <1>3, <1>4 DEF RemoveAt, a, b

\* Without one of them the others stay, in order.
LEMMA RemoveKeeps ==
    ASSUME NEW s \in Seq(Packet), NEW v \in DOMAIN s, Ascending(s)
    PROVE  /\ RemoveAt(s, v) \in Seq(Packet)
           /\ Ascending(RemoveAt(s, v))
           /\ Elements(RemoveAt(s, v)) = {e \in Elements(s) : e.n # s[v].n}
<1> DEFINE t == RemoveAt(s, v)
           at(i) == IF i < v THEN i ELSE i + 1
<1>1. /\ Len(s) \in Nat /\ v \in 1 .. Len(s)
      /\ DOMAIN s = 1 .. Len(s)
      /\ \A i \in DOMAIN s : s[i] \in Packet
  OBVIOUS
<1>2. /\ t \in Seq(Packet)
      /\ DOMAIN t = 1 .. Len(s) - 1
      /\ \A i \in DOMAIN t : at(i) \in DOMAIN s /\ at(i) # v /\ t[i] = s[at(i)]
  <2>1. /\ t \in Seq(Packet) /\ Len(t) = Len(s) - 1
        /\ \A i \in 1 .. Len(s) - 1 : t[i] = IF i < v THEN s[i] ELSE s[i + 1]
    BY RemoveShape
  <2> HIDE DEF t
  <2>2. DOMAIN t = 1 .. Len(s) - 1
    BY <2>1
  <2>3. \A i \in 1 .. Len(s) - 1 : at(i) \in DOMAIN s /\ at(i) # v /\ t[i] = s[at(i)]
    BY <1>1, <2>1
  <2> QED BY <2>1, <2>2, <2>3
<1>3. \A i, j \in DOMAIN t : i < j => at(i) < at(j)
  BY <1>1, <1>2
<1>4. \A i \in DOMAIN s : i # v => \E j \in DOMAIN t : at(j) = i
  <2> SUFFICES ASSUME NEW i \in DOMAIN s, i # v PROVE \E j \in DOMAIN t : at(j) = i
    OBVIOUS
  <2>1. CASE i < v
    BY <1>1, <1>2, <2>1
  <2>2. CASE i > v
    <3>1. i - 1 \in DOMAIN t /\ at(i - 1) = i
      BY <1>1, <1>2, <2>2
    <3> QED BY <3>1
  <2> QED BY <1>1, <2>1, <2>2
<1> HIDE DEF t, at
<1>5. Ascending(t)
  BY <1>2, <1>3 DEF Ascending
<1>6. \A i \in DOMAIN s : s[i].n = s[v].n <=> i = v
  <2> SUFFICES ASSUME NEW i \in DOMAIN s, i # v PROVE s[i].n # s[v].n
    OBVIOUS
  <2>0. s[i].n \in Int /\ s[v].n \in Int
    BY <1>1 DEF Packet
  <2>1. CASE i < v
    BY <1>1, <2>0, <2>1 DEF Ascending
  <2>2. CASE v < i
    BY <1>1, <2>0, <2>2 DEF Ascending
  <2> QED BY <1>1, <2>1, <2>2
<1>7. Elements(t) = {e \in Elements(s) : e.n # s[v].n}
  <2>1. ASSUME NEW i \in DOMAIN t
        PROVE  t[i] \in Elements(s) /\ t[i].n # s[v].n
    BY <1>2, <1>6, <2>1 DEF Elements
  <2>2. ASSUME NEW i \in DOMAIN s, s[i].n # s[v].n PROVE s[i] \in Elements(t)
    <3>1. PICK j \in DOMAIN t : at(j) = i
      BY <1>4, <2>2
    <3> QED BY <1>2, <3>1 DEF Elements
  <2> QED BY <2>1, <2>2 DEF Elements
<1> QED BY <1>2, <1>5, <1>7 DEF t

-----------------------------------------------------------------------------
(* What becomes of a packet. *)

\* Packets are numbered as they come: the one in the hands of the decode thread
\* is newer than all that were accepted or dropped, and so the newest that was
\* accepted stays.
Numbered ==
    /\ packets \in Nat
    /\ \A p \in accepted : p.n <= packets
    /\ \A n \in dropped : n <= packets
    /\ \A p \in Elements(queue) : p.n <= packets
    /\ accepted # {} => \E p \in accepted : p.n \notin dropped
    /\ decoder \in {"header", "copying"} =>
          /\ incoming \in Packet /\ incoming.n = packets
          /\ \A p \in accepted : p.n < packets
          /\ \A n \in dropped : n < packets
          /\ \A p \in Elements(queue) : p.n < packets

\* The writer has a packet exactly while it muxes, it ends only on a stop and
\* with an empty queue, and nothing is queued after a stop.
HandedOver ==
    /\ writer # "writing" => inHand = Nothing
    /\ writerStop /\ open => decoder \in {"joining", "trailer"}
    /\ open /\ writer = "none" => writerStop /\ queue = <<>>

\* As long as nothing is in the file, the next packet to get there is a
\* keyframe, wherever it is; after an error nothing more is taken.
KeyIsNext ==
    /\ FileBeginsWithKeyframe
    /\ file = <<>> /\ inHand # <<>> => inHand[1].key
    /\ ~errored /\ file = <<>> /\ inHand = <<>> /\ queue # <<>> => queue[1].key
    /\ ~errored /\ accepted = {} =>
          /\ decoder \in {"header", "copying"} => incoming.key
          /\ decoder = "idle" => ~gotKey

IInv == TypeOK /\ ThreadsAgree /\ Numbered /\ HandedOver /\ NothingIsLost /\ KeyIsNext

\* A set of numbers has a least one.
LEMMA LeastNumber ==
    ASSUME NEW S \in SUBSET Nat, S # {}
    PROVE  \E n \in S : \A m \in S : n <= m
<1>1. PICK n \in S : \A m \in S : ~(<<m, n>> \in OpToRel(<, Nat))
  BY NatLessThanWellFounded, WFMin
<1>2. \A m \in S : ~(m < n)
  BY <1>1 DEF OpToRel
<1> QED BY <1>2

\* The packet that gives way is in the queue.
LEMMA VictimIsQueued ==
    ASSUME NEW q \in Seq(Packet), q # <<>>
    PROVE  /\ Victim(q) \in DOMAIN q
           /\ q[Victim(q)].key => \A i \in DOMAIN q : q[i].key
           /\ (Victim(q) = 1 /\ q[1].key) \/ ~q[Victim(q)].key
<1> DEFINE others == {i \in DOMAIN q : ~q[i].key}
<1>1. 1 \in DOMAIN q /\ DOMAIN q \subseteq Nat
  OBVIOUS
<1>2. CASE others = {}
  <2>1. Victim(q) = 1
    BY <1>2 DEF Victim
  <2> QED BY <1>1, <1>2, <2>1
<1>3. CASE others # {}
  <2>1. \E i \in others : \A j \in others : i <= j
    BY <1>1, <1>3, LeastNumber
  <2>2. Victim(q) \in others
    BY <1>3, <2>1 DEF Victim
  <2> QED BY <2>2
<1> QED BY <1>2, <1>3

\* What Copy does to the queue: it ends in the new packet, holds at most
\* kMaxQueue, and is without the victim if it was full.
LEMMA Enqueued ==
    ASSUME TypeOK, NEW p \in Packet, Enqueue(p)
    PROVE  /\ queue' \in Seq(Packet) /\ Len(queue') <= MaxQueue /\ queue' # <<>>
           /\ queue # <<>> /\ queue[1].key => queue'[1].key
           /\ queue = <<>> => queue' = <<p>>
           /\ \/ dropped' = dropped /\ queue' = Append(queue, p)
              \/ /\ Victim(queue) \in DOMAIN queue
                 /\ dropped' = dropped \cup {queue[Victim(queue)].n}
                 /\ queue' = Append(RemoveAt(queue, Victim(queue)), p)
<1>0. queue \in Seq(Packet) /\ Len(queue) \in Nat /\ Len(queue) <= MaxQueue
  BY DEF TypeOK
<1>1. MaxQueue \in Nat /\ MaxQueue >= 2
  BY RecorderAssumption
<1>2. CASE IsFull
  <2> DEFINE v == Victim(queue)
             r == RemoveAt(queue, v)
  <2>1. Len(queue) = MaxQueue /\ queue # <<>>
    BY <1>0, <1>1, <1>2 DEF IsFull
  <2>2. /\ v \in DOMAIN queue /\ v \in 1 .. Len(queue)
        /\ (v = 1 /\ queue[1].key) \/ ~queue[v].key
        /\ queue[v].key => \A i \in DOMAIN queue : queue[i].key
    BY <1>0, <2>1, VictimIsQueued
  <2>3. /\ queue' = Append(r, p)
        /\ dropped' = dropped \cup {queue[v].n}
    BY <1>2 DEF Enqueue
  <2>4. /\ r \in Seq(Packet) /\ Len(r) = Len(queue) - 1
        /\ \A i \in 1 .. Len(queue) - 1 : r[i] = IF i < v THEN queue[i] ELSE queue[i + 1]
    BY <1>0, <2>2, RemoveShape
  <2> HIDE DEF v, r
  <2>5. queue' \in Seq(Packet) /\ Len(queue') = Len(queue) /\ queue'[1] = r[1]
    BY <1>0, <1>1, <2>1, <2>3, <2>4
  <2>6. queue[1].key => r[1].key
    <3> SUFFICES ASSUME queue[1].key PROVE r[1].key
      OBVIOUS
    <3>1. CASE v = 1
      <4>1. queue[2].key /\ 2 \in DOMAIN queue
        BY <1>0, <1>1, <2>1, <2>2, <3>1
      <4>2. r[1] = queue[2]
        BY <1>0, <1>1, <2>1, <2>4, <3>1
      <4> QED BY <4>1, <4>2
    <3>2. CASE v # 1
      <4>1. r[1] = queue[1]
        BY <1>0, <1>1, <2>1, <2>2, <2>4, <3>2
      <4> QED BY <4>1
    <3> QED BY <3>1, <3>2
  <2> QED BY <1>0, <1>1, <2>1, <2>2, <2>3, <2>5, <2>6 DEF v, r
<1>3. CASE ~IsFull
  <2>1. queue' = Append(queue, p) /\ dropped' = dropped
    BY <1>3 DEF Enqueue
  <2>2. Len(queue) < MaxQueue
    BY <1>0, <1>1, <1>3 DEF IsFull
  <2>3. queue' \in Seq(Packet) /\ Len(queue') = Len(queue) + 1
    BY <1>0, <2>1
  <2>4. queue # <<>> => queue'[1] = queue[1]
    BY <1>0, <2>1
  <2>5. queue = <<>> => queue' = <<p>>
    BY <1>0, <2>1
  <2> QED BY <1>0, <1>1, <2>1, <2>2, <2>3, <2>4, <2>5
<1> QED BY <1>2, <1>3

\* It brings nothing but the new packet into the queue.
LEMMA EnqueuedElements ==
    ASSUME TypeOK, NEW p \in Packet, Enqueue(p)
    PROVE  Elements(queue') \subseteq Elements(queue) \cup {p}
<1>0. queue \in Seq(Packet)
  BY DEF TypeOK
<1>1. ASSUME NEW s \in Seq(Packet) PROVE Elements(Append(s, p)) \subseteq Elements(s) \cup {p}
  <2> DEFINE t == Append(s, p)
  <2>1. /\ DOMAIN t = 1 .. Len(s) + 1 /\ DOMAIN s = 1 .. Len(s) /\ Len(s) \in Nat
        /\ t[Len(s) + 1] = p /\ \A i \in 1 .. Len(s) : t[i] = s[i]
    OBVIOUS
  <2> HIDE DEF t
  <2>2. ASSUME NEW i \in DOMAIN t PROVE t[i] \in Elements(s) \cup {p}
    <3>1. CASE i = Len(s) + 1
      BY <2>1, <3>1
    <3>2. CASE i \in DOMAIN s
      BY <2>1, <3>2 DEF Elements
    <3> QED BY <2>1, <3>1, <3>2
  <2>3. Elements(t) \subseteq Elements(s) \cup {p}
    BY <2>2 DEF Elements
  <2> QED BY <2>3 DEF t
<1>2. ASSUME NEW v \in DOMAIN queue
      PROVE  /\ RemoveAt(queue, v) \in Seq(Packet)
             /\ Elements(RemoveAt(queue, v)) \subseteq Elements(queue)
  <2> DEFINE r == RemoveAt(queue, v)
  <2>1. /\ Len(queue) \in Nat /\ DOMAIN queue = 1 .. Len(queue) /\ v \in 1 .. Len(queue)
        /\ r \in Seq(Packet) /\ Len(r) = Len(queue) - 1
        /\ \A i \in 1 .. Len(queue) - 1 : r[i] = IF i < v THEN queue[i] ELSE queue[i + 1]
    BY <1>0, RemoveShape
  <2> HIDE DEF r
  <2>2. DOMAIN r = 1 .. Len(queue) - 1
    BY <2>1
  <2>3. ASSUME NEW i \in DOMAIN r PROVE r[i] \in Elements(queue)
    <3>1. i \in DOMAIN queue /\ i + 1 \in DOMAIN queue /\ (r[i] = queue[i] \/ r[i] = queue[i + 1])
      BY <2>1, <2>2
    <3> QED BY <3>1 DEF Elements
  <2>4. Elements(r) \subseteq Elements(queue)
    BY <2>3 DEF Elements
  <2> QED BY <2>1, <2>4 DEF r
<1> QED BY <1>0, <1>1, <1>2, Enqueued

-----------------------------------------------------------------------------
(* Types and numbers. *)

\* The members keep their types, and the queue its bound (kMaxQueue).
LEMMA TypesKept == ASSUME IInv, Next PROVE TypeOK'
<1>0. TypeOK /\ Nothing \in Seq(Packet) /\ MaxPackets \in Nat
  BY RecorderAssumption DEF IInv, Nothing
<1>1. CASE Start
  <2>1. /\ open' \in BOOLEAN /\ header' \in BOOLEAN /\ gotKey' \in BOOLEAN /\ errored' \in BOOLEAN
        /\ writerStop' \in BOOLEAN /\ dropped' \subseteq 1 .. MaxPackets
        /\ writer' \in WriterPoint
    BY <1>0, <1>1 DEF Start, TypeOK, WriterPoint
  <2>2. file' \in Seq(Packet) /\ accepted' \subseteq Packet
    BY <1>0, <1>1 DEF Start, TypeOK, Nothing
  <2> QED BY <1>0, <1>1, <2>1, <2>2 DEF Start, TypeOK
<1>2. CASE WritePacket
  <2>1. packets + 1 \in 1 .. MaxPackets
    BY <1>0, <1>2 DEF WritePacket, IInv, Numbered
  <2>2. /\ incoming' \in Packet \cup {NoPacket}
        /\ gotKey' \in BOOLEAN /\ decoder' \in DecoderPoint
    <3>1. PICK key \in BOOLEAN :
            \/ UNCHANGED <<gotKey, decoder, incoming>>
            \/ /\ gotKey' = TRUE
               /\ incoming' = [n |-> packets + 1, key |-> key]
               /\ decoder' \in DecoderPoint
      BY <1>2 DEF WritePacket, DecoderPoint
    <3>2. [n |-> packets + 1, key |-> key] \in Packet
      BY <2>1 DEF Packet
    <3> QED BY <1>0, <3>1, <3>2 DEF TypeOK
  <2> QED BY <1>0, <1>2, <2>2 DEF WritePacket, TypeOK, shared
<1>3. CASE WriteHeader
  BY <1>0, <1>3 DEF WriteHeader, TypeOK, shared, DecoderPoint, WriterPoint
<1>4. CASE Copy
  <2>1. incoming \in Packet
    BY <1>4 DEF Copy, IInv, Numbered
  <2>2. CASE Enqueue(incoming) /\ UNCHANGED errored
    <3>1. queue' \in Seq(Packet) /\ Len(queue') <= MaxQueue
      BY <1>0, <2>1, <2>2, Enqueued
    <3>2. dropped' \subseteq 1 .. MaxPackets
      <4>1. CASE dropped' = dropped
        BY <1>0, <4>1 DEF TypeOK
      <4>2. CASE Victim(queue) \in DOMAIN queue /\ dropped' = dropped \cup {queue[Victim(queue)].n}
        <5>1. queue[Victim(queue)] \in Packet
          BY <1>0, <4>2 DEF TypeOK
        <5> QED BY <1>0, <4>2, <5>1 DEF TypeOK, Packet
      <4> QED BY <1>0, <2>1, <2>2, <4>1, <4>2, Enqueued
    <3>3. accepted' \subseteq Packet /\ writer' \in WriterPoint
      BY <1>0, <2>1, <2>2 DEF Enqueue, TypeOK, Notified, WriterPoint
    <3> QED BY <1>0, <1>4, <2>2, <3>1, <3>2, <3>3 DEF Copy, TypeOK, container, DecoderPoint
  <2>3. CASE errored' = TRUE /\ UNCHANGED <<queue, dropped, accepted, writer>>
    BY <1>0, <1>4, <2>3 DEF Copy, TypeOK, container, DecoderPoint, WriterPoint
  <2> QED BY <1>4, <2>2, <2>3 DEF Copy
<1>5. CASE Stop
  BY <1>0, <1>5 DEF Stop, Signal, Notified, TypeOK, container, DecoderPoint, WriterPoint
<1>6. CASE StopJoined
  <2>1. queue' = <<>> /\ Len(queue') = 0 /\ queue' \in Seq(Packet)
    BY <1>6 DEF StopJoined
  <2> QED
    BY <1>0, <1>6, <2>1, RecorderAssumption
    DEF StopJoined, TypeOK, container, DecoderPoint, WriterPoint
<1>7. CASE Cleanup
  BY <1>0, <1>7 DEF Cleanup, TypeOK, shared, DecoderPoint, WriterPoint
<1>8. CASE WriterEnds \/ WriterSleeps
  BY <1>0, <1>8 DEF WriterEnds, WriterSleeps, TypeOK, container, shared, DecoderPoint, WriterPoint
<1>9. CASE WriterTakes
  <2>1. /\ Tail(queue) \in Seq(Packet) /\ Len(Tail(queue)) <= MaxQueue
        /\ <<Head(queue)>> \in Seq(Packet)
    BY <1>0, <1>9, RecorderAssumption DEF WriterTakes, TypeOK
  <2> QED BY <1>0, <1>9, <2>1 DEF WriterTakes, TypeOK, container, DecoderPoint, WriterPoint
<1>10. CASE WriterWrites
  <2>1. file \o inHand \in Seq(Packet)
    BY <1>0 DEF TypeOK
  <2> QED
    BY <1>0, <1>10, <2>1 DEF WriterWrites, TypeOK, container, shared, DecoderPoint, WriterPoint
<1> QED
  BY <1>1, <1>2, <1>3, <1>4, <1>5, <1>6, <1>7, <1>8, <1>9, <1>10
  DEF Next, Decode, Stopping, Write

\* Nothing that was accepted is newer than the packet the decode thread hands
\* over (writePacket runs on one thread).
LEMMA NumbersKept == ASSUME IInv, Next PROVE Numbered'
<1>0. /\ TypeOK /\ Numbered /\ packets \in Nat
      /\ \A p \in accepted : p.n \in Nat
      /\ \A n \in dropped : n \in Nat
      /\ \A p \in Elements(queue) : p.n \in Nat
  <2>1. TypeOK /\ Numbered /\ packets \in Nat
    BY DEF IInv, Numbered
  <2>2. \A p \in Packet : p.n \in Nat
    BY DEF Packet
  <2>3. \A p \in Elements(queue) : p \in Packet
    BY <2>1 DEF TypeOK, Elements
  <2> QED BY <2>1, <2>2, <2>3 DEF TypeOK
<1>1. CASE Start
  BY <1>0, <1>1 DEF Start, Numbered, Elements
<1>2. CASE WritePacket
  <2>1. /\ packets' = packets + 1 /\ packets' \in 1 .. MaxPackets
        /\ accepted' = accepted /\ dropped' = dropped /\ Elements(queue)' = Elements(queue)
    BY <1>0, <1>2, RecorderAssumption DEF WritePacket, shared, Elements
  <2>2. /\ \A p \in accepted' : p.n < packets'
        /\ \A n \in dropped' : n < packets'
        /\ \A p \in Elements(queue)' : p.n < packets'
    BY <1>0, <2>1 DEF Numbered
  <2>3. decoder' \in {"header", "copying"} => incoming' \in Packet /\ incoming'.n = packets'
    <3>1. PICK key \in BOOLEAN :
            \/ UNCHANGED <<gotKey, decoder, incoming>>
            \/ incoming' = [n |-> packets + 1, key |-> key]
      BY <1>2 DEF WritePacket
    <3>2. [n |-> packets + 1, key |-> key] \in Packet
      BY <2>1 DEF Packet
    <3> QED BY <1>2, <2>1, <3>1, <3>2 DEF WritePacket
  <2> QED BY <1>0, <2>1, <2>2, <2>3 DEF Numbered
<1>3. CASE WriteHeader
  BY <1>0, <1>3 DEF WriteHeader, Numbered, shared, Elements
<1>4. CASE Copy
  <2>1. incoming \in Packet /\ incoming.n = packets
    BY <1>4 DEF Copy, IInv, Numbered
  <2>2. CASE Enqueue(incoming)
    <3>1. accepted' = accepted \cup {incoming}
      BY <2>2 DEF Enqueue
    <3>2. \A n \in dropped' : n <= packets
      <4>1. CASE dropped' = dropped
        BY <4>1 DEF IInv, Numbered
      <4>2. CASE Victim(queue) \in DOMAIN queue /\ dropped' = dropped \cup {queue[Victim(queue)].n}
        <5>1. queue[Victim(queue)] \in Elements(queue)
          BY <4>2 DEF Elements
        <5> QED BY <4>2, <5>1 DEF IInv, Numbered
      <4> QED BY <1>0, <2>1, <2>2, <4>1, <4>2, Enqueued
    <3>4. incoming \in accepted' /\ incoming.n \notin dropped'
      <4>1. \A n \in dropped : n < packets
        BY <1>0, <1>4 DEF Copy, Numbered
      <4>2. Victim(queue) \in DOMAIN queue => queue[Victim(queue)].n < packets
        BY <1>0, <1>4 DEF Copy, Numbered, Elements
      <4>3. packets \in Nat
        BY <1>0
      <4> QED BY <1>0, <2>1, <2>2, <3>1, <4>1, <4>2, <4>3, Enqueued
    <3>3. \A p \in Elements(queue') : p.n <= packets
      BY <1>0, <2>1, <2>2, EnqueuedElements DEF Numbered, Packet
    <3> QED BY <1>0, <1>4, <2>1, <3>1, <3>2, <3>3, <3>4 DEF Copy, Numbered
  <2>3. CASE UNCHANGED <<queue, dropped, accepted, writer>>
    BY <1>0, <1>4, <2>3 DEF Copy, Numbered, Elements
  <2> QED BY <1>4, <2>2, <2>3 DEF Copy
<1>5. CASE Stop \/ Cleanup
  BY <1>0, <1>5 DEF Stop, Cleanup, Numbered, shared, Elements
<1>6. CASE StopJoined
  <2>1. Elements(queue)' = {}
    BY <1>6 DEF StopJoined, Elements
  <2> QED BY <1>0, <1>6, <2>1 DEF StopJoined, Numbered
<1>7. CASE WriterEnds \/ WriterSleeps \/ WriterWrites
  BY <1>0, <1>7 DEF WriterEnds, WriterSleeps, WriterWrites, Numbered, shared, Elements
<1>8. CASE WriterTakes
  <2>1. Elements(queue)' \subseteq Elements(queue)
    <3>1. /\ queue' = Tail(queue) /\ queue # <<>> /\ queue \in Seq(Packet)
      BY <1>0, <1>8 DEF WriterTakes, TypeOK
    <3>2. ASSUME NEW i \in DOMAIN Tail(queue)
          PROVE  i + 1 \in DOMAIN queue /\ Tail(queue)[i] = queue[i + 1]
      BY <3>1
    <3> QED BY <3>1, <3>2 DEF Elements
  <2> QED BY <1>0, <1>8, <2>1 DEF WriterTakes, Numbered
<1> QED
  BY <1>1, <1>2, <1>3, <1>4, <1>5, <1>6, <1>7, <1>8 DEF Next, Decode, Stopping, Write

-----------------------------------------------------------------------------
(* From hand to hand. *)

\* The writer ends on a stop and an empty queue only, and after stop nothing is
\* queued.
LEMMA HandsKept == ASSUME IInv, Next PROVE HandedOver'
<1>0. HandedOver /\ ThreadsAgree /\ writerStop \in BOOLEAN /\ open \in BOOLEAN
  BY DEF IInv, TypeOK
<1>1. CASE Start
  BY <1>0, <1>1 DEF Start, HandedOver, ThreadsAgree
<1>2. CASE WritePacket
  BY <1>0, <1>2 DEF WritePacket, HandedOver, shared
<1>3. CASE WriteHeader
  BY <1>0, <1>3 DEF WriteHeader, HandedOver, shared
<1>4. CASE Copy
  <2>1. open /\ ~writerStop /\ writer # "none"
    BY <1>0, <1>4 DEF Copy, HandedOver, ThreadsAgree
  <2>2. (writer' = "none" <=> writer = "none") /\ (writer' = "writing" <=> writer = "writing")
    BY <1>4, SignalWakes DEF Copy, Enqueue
  <2> QED BY <1>0, <1>4, <2>1, <2>2 DEF Copy, HandedOver, container
<1>5. CASE Stop
  <2>1. open /\ ~writerStop /\ writer # "none"
    BY <1>0, <1>5 DEF Stop, HandedOver
  <2> QED BY <1>0, <1>5, <2>1, SignalWakes DEF Stop, Signal, HandedOver, container
<1>6. CASE StopJoined
  BY <1>0, <1>6 DEF StopJoined, Joined, HandedOver, container
<1>7. CASE Cleanup
  BY <1>0, <1>7 DEF Cleanup, HandedOver, shared
<1>8. CASE WriterEnds \/ WriterSleeps
  BY <1>0, <1>8 DEF WriterEnds, WriterSleeps, MayEnd, HandedOver, container, shared
<1>9. CASE WriterTakes
  BY <1>0, <1>9 DEF WriterTakes, HandedOver, container
<1>10. CASE WriterWrites
  BY <1>0, <1>10 DEF WriterWrites, HandedOver, container, shared
<1> QED
  BY <1>1, <1>2, <1>3, <1>4, <1>5, <1>6, <1>7, <1>8, <1>9, <1>10
  DEF Next, Decode, Stopping, Write

-----------------------------------------------------------------------------
(* Nothing is lost. *)

\* All the packets there are of a segment, in the order of the file.
Kept == file \o inHand \o queue

LEMMA LossRestated ==
    NothingIsLost <=>
        (~errored => /\ Elements(Kept) = {p \in accepted : p.n \notin dropped}
                     /\ Ascending(Kept))
  BY DEF NothingIsLost, Kept, Elements, Ascending

\* A packet that goes from the queue to the hand, or from the hand to the file,
\* changes nothing in their order.
LEMMA Passed ==
    ASSUME NEW f \in Seq(Packet), NEW q \in Seq(Packet)
    PROVE  /\ q # <<>> => f \o <<Head(q)>> \o Tail(q) = f \o <<>> \o q
           /\ \A h \in Seq(Packet) : (f \o h) \o <<>> \o q = f \o h \o q
<1>1. ASSUME q # <<>> PROVE f \o <<Head(q)>> \o Tail(q) = f \o <<>> \o q
  <2>1. <<Head(q)>> \o Tail(q) = q
    BY <1>1
  <2>2. /\ <<Head(q)>> \in Seq(Packet) /\ Tail(q) \in Seq(Packet) /\ <<>> \in Seq(Packet)
        /\ f \o <<>> = f
    BY <1>1
  <2>3. (f \o <<Head(q)>>) \o Tail(q) = f \o (<<Head(q)>> \o Tail(q))
    BY <2>2, ConcatAssociative
  <2> QED BY <2>1, <2>2, <2>3
<1>2. ASSUME NEW h \in Seq(Packet) PROVE (f \o h) \o <<>> \o q = f \o h \o q
  <2>1. f \o h \in Seq(Packet)
    OBVIOUS
  <2>2. (f \o h) \o <<>> = f \o h
    BY <2>1
  <2> QED BY <2>2
<1> QED BY <1>1, <1>2

\* A packet that is put into the queue, or dropped from it, is so in the whole.
LEMMA TailChanges ==
    ASSUME NEW f \in Seq(Packet), NEW q \in Seq(Packet), NEW p \in Packet
    PROVE  /\ f \o Append(q, p) = Append(f \o q, p)
           /\ \A v \in DOMAIN q :
                 /\ Len(f) + v \in DOMAIN (f \o q) /\ (f \o q)[Len(f) + v] = q[v]
                 /\ f \o RemoveAt(q, v) = RemoveAt(f \o q, Len(f) + v)
<1>1. f \o Append(q, p) = Append(f \o q, p)
  OBVIOUS
<1>2. ASSUME NEW v \in DOMAIN q
      PROVE  /\ Len(f) + v \in DOMAIN (f \o q) /\ (f \o q)[Len(f) + v] = q[v]
             /\ f \o RemoveAt(q, v) = RemoveAt(f \o q, Len(f) + v)
  <2> DEFINE s == f \o q
             w == Len(f) + v
             r == RemoveAt(q, v)
             t == RemoveAt(s, w)
  <2>1. /\ Len(f) \in Nat /\ Len(q) \in Nat /\ v \in 1 .. Len(q)
        /\ s \in Seq(Packet) /\ Len(s) = Len(f) + Len(q)
        /\ \A i \in 1 .. Len(f) : s[i] = f[i]
        /\ \A i \in 1 .. Len(q) : s[Len(f) + i] = q[i]
    OBVIOUS
  <2> HIDE DEF s
  <2>2. w \in DOMAIN s /\ s[w] = q[v]
    <3>1. DOMAIN s = 1 .. Len(f) + Len(q)
      BY <2>1
    <3> QED BY <2>1, <3>1
  <2>3. /\ r \in Seq(Packet) /\ Len(r) = Len(q) - 1
        /\ \A i \in 1 .. Len(q) - 1 : r[i] = IF i < v THEN q[i] ELSE q[i + 1]
    BY RemoveShape
  <2>4. /\ t \in Seq(Packet) /\ Len(t) = Len(s) - 1
        /\ \A i \in 1 .. Len(s) - 1 : t[i] = IF i < w THEN s[i] ELSE s[i + 1]
    BY <2>1, <2>2, RemoveShape
  <2> HIDE DEF r, t
  <2>5. f \o r \in Seq(Packet) /\ Len(f \o r) = Len(t)
    <3>1. f \o r \in Seq(Packet) /\ Len(f \o r) = Len(f) + Len(r)
      BY <2>3, ConcatProperties
    <3> QED BY <2>1, <2>3, <2>4, <3>1
  <2>6. ASSUME NEW i \in 1 .. Len(t) PROVE (f \o r)[i] = t[i]
    <3>1. CASE i <= Len(f)
      <4>1. (f \o r)[i] = f[i]
        BY <2>1, <2>3, <3>1
      <4>2. t[i] = s[i] /\ s[i] = f[i]
        BY <2>1, <2>4, <3>1
      <4> QED BY <4>1, <4>2
    <3>2. CASE i > Len(f)
      <4> DEFINE k == i - Len(f)
      <4>1. k \in 1 .. Len(q) - 1 /\ i = Len(f) + k /\ i + 1 = Len(f) + (k + 1)
        BY <2>1, <2>4, <3>2
      <4>0. k \in 1 .. Len(q) /\ k + 1 \in 1 .. Len(q)
        BY <2>1, <4>1
      <4>2. (f \o r)[i] = r[k]
        BY <2>1, <2>3, <3>2, <4>1
      <4> HIDE DEF k
      <4>3. s[i] = q[k] /\ s[i + 1] = q[k + 1]
        BY <2>1, <4>0, <4>1
      <4>4. i < w <=> k < v
        BY <2>1, <4>1
      <4>5. r[k] = IF k < v THEN q[k] ELSE q[k + 1]
        BY <2>3, <4>1
      <4>6. t[i] = IF i < w THEN s[i] ELSE s[i + 1]
        BY <2>4
      <4>7. CASE k < v
        BY <4>2, <4>3, <4>4, <4>5, <4>6, <4>7
      <4>8. CASE ~(k < v)
        BY <4>2, <4>3, <4>4, <4>5, <4>6, <4>8
      <4> QED BY <4>7, <4>8
    <3>3. i <= Len(f) \/ i > Len(f)
      BY <2>1, <2>4
    <3> QED BY <3>1, <3>2, <3>3
  <2>7. f \o r = t
    BY <2>4, <2>5, <2>6, SeqEqual
  <2> QED BY <2>2, <2>7 DEF s, r, t
<1> QED BY <1>1, <1>2

\* Until something fails no packet that was accepted is missing or out of order.
LEMMA NothingLost == ASSUME IInv, Next PROVE NothingIsLost'
<1>0. /\ TypeOK /\ Numbered /\ HandedOver /\ ThreadsAgree /\ NothingIsLost
      /\ file \in Seq(Packet) /\ inHand \in Seq(Packet) /\ queue \in Seq(Packet)
      /\ file \o inHand \in Seq(Packet) /\ Kept \in Seq(Packet)
  BY DEF IInv, TypeOK, Kept
<1>1. (~errored => /\ Elements(Kept) = {p \in accepted : p.n \notin dropped}
                   /\ Ascending(Kept))
      <=> NothingIsLost
  BY LossRestated
<1>2. SUFFICES ASSUME ~errored'
               PROVE  /\ Elements(Kept') = {p \in accepted' : p.n \notin dropped'}
                      /\ Ascending(Kept')
  BY DEF NothingIsLost, Kept, Elements, Ascending
<1>3. ASSUME ~errored, Kept' = Kept, accepted' = accepted, dropped' = dropped
      PROVE  /\ Elements(Kept') = {p \in accepted' : p.n \notin dropped'}
             /\ Ascending(Kept')
  BY <1>0, <1>1, <1>3
<1>4. CASE Start
  <2>1. file' = <<>> /\ accepted' = {} /\ dropped' = {} /\ inHand' = inHand /\ queue' = queue
    BY <1>2, <1>4 DEF Start
  <2>2. inHand = <<>> /\ queue = <<>>
    BY <1>0, <1>4 DEF Start, HandedOver, ThreadsAgree, Nothing
  <2>3. Kept' = <<>>
    BY <2>1, <2>2 DEF Kept
  <2> QED BY <2>1, <2>3 DEF Elements, Ascending
<1>5. CASE WritePacket \/ WriteHeader \/ Stop \/ Cleanup \/ WriterEnds \/ WriterSleeps
  <2>1. /\ ~errored /\ file' = file /\ inHand' = inHand /\ queue' = queue
        /\ accepted' = accepted /\ dropped' = dropped
    BY <1>0, <1>2, <1>5
    DEF WritePacket, WriteHeader, Stop, Cleanup, WriterEnds, WriterSleeps, shared, TypeOK
  <2> QED BY <1>3, <2>1 DEF Kept
<1>6. CASE Copy
  <2>1. Enqueue(incoming) /\ ~errored /\ file' = file /\ inHand' = inHand
    BY <1>2, <1>6 DEF Copy
  <2>2. /\ incoming \in Packet /\ incoming.n = packets
        /\ \A p \in accepted : p.n < packets
        /\ \A n \in dropped : n < packets
        /\ packets \in Nat
    BY <1>0, <1>6 DEF Copy, Numbered
  <2>3. accepted' = accepted \cup {incoming}
    BY <2>1 DEF Enqueue
  <2>4. /\ Elements(Kept) = {p \in accepted : p.n \notin dropped}
        /\ Ascending(Kept)
    BY <1>0, <1>1, <2>1
  <2>5. CASE dropped' = dropped /\ queue' = Append(queue, incoming)
    <3>1. Kept' = Append(Kept, incoming)
      BY <1>0, <2>1, <2>2, <2>5, TailChanges DEF Kept
    <3>2. \A e \in Elements(Kept) : e.n < incoming.n
      BY <2>2, <2>4
    <3>3. Ascending(Kept') /\ Elements(Kept') = Elements(Kept) \cup {incoming}
      BY <1>0, <2>2, <2>4, <3>1, <3>2, AppendKeeps
    <3>4. incoming.n \notin dropped
      BY <2>2
    <3> QED BY <2>3, <2>4, <2>5, <3>3, <3>4
  <2>6. CASE /\ Victim(queue) \in DOMAIN queue
             /\ dropped' = dropped \cup {queue[Victim(queue)].n}
             /\ queue' = Append(RemoveAt(queue, Victim(queue)), incoming)
    <3> DEFINE v == Victim(queue)
               w == Len(file \o inHand) + v
               rest == RemoveAt(Kept, w)
    <3>1. RemoveAt(queue, v) \in Seq(Packet)
      BY <1>0, <2>6, RemoveShape
    <3>2. /\ w \in DOMAIN Kept /\ Kept[w] = queue[v]
          /\ (file \o inHand) \o RemoveAt(queue, v) = rest
      BY <1>0, <2>2, <2>6, TailChanges DEF Kept
    <3>3. Kept' = Append(rest, incoming)
      <4> DEFINE f == file \o inHand
                 q == RemoveAt(queue, v)
      <4>1. Kept' = f \o Append(q, incoming)
        BY <2>1, <2>6 DEF Kept
      <4>2. f \in Seq(Packet) /\ q \in Seq(Packet) /\ f \o q = rest
        BY <1>0, <3>1, <3>2
      <4> HIDE DEF f, q, rest
      <4>3. f \o Append(q, incoming) = Append(f \o q, incoming)
        BY <2>2, <4>2, TailChanges
      <4> QED BY <4>1, <4>2, <4>3
    <3> HIDE DEF v, w
    <3>4. /\ rest \in Seq(Packet) /\ Ascending(rest)
          /\ Elements(rest) = {e \in Elements(Kept) : e.n # queue[v].n}
      BY <1>0, <2>4, <3>2, RemoveKeeps
    <3> HIDE DEF rest
    <3>5. \A e \in Elements(rest) : e.n < incoming.n
      BY <2>2, <2>4, <3>4
    <3>6. Ascending(Kept') /\ Elements(Kept') = Elements(rest) \cup {incoming}
      BY <2>2, <3>3, <3>4, <3>5, AppendKeeps
    <3>7. queue[v].n < packets
      <4>1. queue[v] \in Elements(Kept)
        BY <3>2 DEF Elements
      <4> QED BY <2>2, <2>4, <4>1
    <3>8. dropped' = dropped \cup {queue[v].n}
      BY <2>6 DEF v
    <3>9. incoming.n \notin dropped'
      BY <2>2, <3>7, <3>8
    <3> QED BY <2>3, <2>4, <3>4, <3>6, <3>8, <3>9
  <2> QED BY <1>0, <2>1, <2>2, <2>5, <2>6, Enqueued
<1>7. CASE StopJoined
  <2>1. queue = <<>>
    BY <1>0, <1>7 DEF StopJoined, Joined, HandedOver, ThreadsAgree
  <2> QED BY <1>2, <1>3, <1>7, <2>1 DEF StopJoined, Kept
<1>8. CASE WriterTakes
  <2>1. ~errored /\ inHand = <<>> /\ queue # <<>>
    BY <1>0, <1>2, <1>8 DEF WriterTakes, HandedOver, Nothing
  <2>2. inHand' = <<Head(queue)>> /\ queue' = Tail(queue) /\ file' = file
    BY <1>8, <2>1 DEF WriterTakes
  <2>3. Kept' = Kept
    BY <1>0, <2>1, <2>2, Passed DEF Kept
  <2> QED BY <1>3, <1>8, <2>1, <2>3 DEF WriterTakes
<1>9. CASE WriterWrites
  <2>1. ~errored /\ file' = file \o inHand /\ inHand' = <<>> /\ queue' = queue
    BY <1>2, <1>9 DEF WriterWrites, shared, Nothing
  <2>2. Kept' = Kept
    BY <1>0, <2>1, Passed DEF Kept
  <2> QED BY <1>3, <1>9, <2>1, <2>2 DEF WriterWrites, shared
<1> QED
  BY <1>4, <1>5, <1>6, <1>7, <1>8, <1>9 DEF Next, Decode, Stopping, Write

-----------------------------------------------------------------------------
(* The first packet of a file. *)

\* What reaches an empty file is a keyframe, whatever was dropped before.
LEMMA KeysKept == ASSUME IInv, Next PROVE KeyIsNext'
<1>0. /\ TypeOK /\ Numbered /\ HandedOver /\ ThreadsAgree /\ NothingIsLost /\ KeyIsNext
      /\ file \in Seq(Packet) /\ inHand \in Seq(Packet) /\ queue \in Seq(Packet)
      /\ errored \in BOOLEAN
  BY DEF IInv, TypeOK
<1>1. CASE Start
  <2>1. inHand = <<>> /\ queue = <<>> /\ inHand' = inHand /\ queue' = queue /\ decoder' = "idle"
    BY <1>0, <1>1 DEF Start, HandedOver, ThreadsAgree, Nothing
  <2>2. file' = <<>> \/ file' = file
    BY <1>1 DEF Start
  <2>3. gotKey' = FALSE
    BY <1>1 DEF Start
  <2> QED BY <1>0, <2>1, <2>2, <2>3 DEF KeyIsNext, FileBeginsWithKeyframe
<1>2. CASE WritePacket
  <2>1. /\ file' = file /\ inHand' = inHand /\ queue' = queue
        /\ accepted' = accepted /\ errored' = errored /\ decoder = "idle"
    BY <1>2 DEF WritePacket, shared
  <2>2. ASSUME ~errored, accepted = {}
        PROVE  /\ decoder' \in {"header", "copying"} => incoming'.key
               /\ decoder' = "idle" => ~gotKey'
    <3>1. ~gotKey
      BY <1>0, <2>1, <2>2 DEF KeyIsNext
    <3>2. PICK key \in BOOLEAN :
            IF errored \/ ~(gotKey \/ key)
            THEN UNCHANGED <<gotKey, decoder, incoming>>
            ELSE /\ gotKey' = TRUE
                 /\ incoming' = [n |-> packets + 1, key |-> key]
                 /\ decoder' = IF header THEN "copying" ELSE "header"
      BY <1>2 DEF WritePacket
    <3>3. CASE key
      <4>1. incoming' = [n |-> packets + 1, key |-> key] /\ decoder' \in {"copying", "header"}
        BY <2>2, <3>2, <3>3
      <4> QED BY <3>3, <4>1
    <3>4. CASE ~key
      BY <2>1, <3>1, <3>2, <3>4
    <3> QED BY <3>3, <3>4
  <2> QED BY <1>0, <2>1, <2>2 DEF KeyIsNext, FileBeginsWithKeyframe
<1>3. CASE WriteHeader
  BY <1>0, <1>3 DEF WriteHeader, KeyIsNext, FileBeginsWithKeyframe, shared
<1>4. CASE Copy
  <2>1. file' = file /\ inHand' = inHand /\ incoming \in Packet /\ decoder = "copying"
    BY <1>0, <1>4 DEF Copy, Numbered
  <2>2. CASE Enqueue(incoming) /\ UNCHANGED errored
    <3>1. accepted' # {}
      BY <2>2 DEF Enqueue
    <3>2. ASSUME ~errored, file = <<>>, inHand = <<>> PROVE queue'[1].key
      <4>1. CASE queue = <<>>
        <5>1. DOMAIN (file \o inHand \o queue) = {}
            BY <3>2, <4>1
        <5>2. {p \in accepted : p.n \notin dropped} = {}
          BY <1>0, <3>2, <5>1 DEF NothingIsLost
        <5>3. queue' = <<incoming>>
          BY <1>0, <2>1, <2>2, <4>1, Enqueued
        <5>4. accepted = {}
          BY <1>0, <5>2 DEF Numbered
        <5>5. incoming.key
          BY <1>0, <2>1, <3>2, <5>4 DEF KeyIsNext
        <5> QED BY <5>3, <5>5
      <4>2. CASE queue # <<>>
        BY <1>0, <2>1, <2>2, <3>2, <4>2, Enqueued DEF KeyIsNext
      <4> QED BY <4>1, <4>2
    <3> QED BY <1>0, <2>1, <2>2, <3>1, <3>2 DEF KeyIsNext, FileBeginsWithKeyframe
  <2>3. CASE errored' = TRUE /\ UNCHANGED <<queue, dropped, accepted, writer>>
    BY <1>0, <2>1, <2>3 DEF KeyIsNext, FileBeginsWithKeyframe
  <2> QED BY <1>4, <2>2, <2>3 DEF Copy
<1>5. CASE Stop
  BY <1>0, <1>5 DEF Stop, KeyIsNext, FileBeginsWithKeyframe, container
<1>6. CASE StopJoined
  BY <1>0, <1>6 DEF StopJoined, KeyIsNext, FileBeginsWithKeyframe, container
<1>7. CASE Cleanup
  BY <1>0, <1>7 DEF Cleanup, KeyIsNext, FileBeginsWithKeyframe, shared
<1>8. CASE WriterEnds \/ WriterSleeps
  BY <1>0, <1>8 DEF WriterEnds, WriterSleeps, KeyIsNext, FileBeginsWithKeyframe, container, shared
<1>9. CASE WriterTakes
  <2>1. /\ file' = file /\ errored' = errored /\ accepted' = accepted
        /\ gotKey' = gotKey /\ decoder' = decoder /\ incoming' = incoming
        /\ inHand = <<>> /\ queue # <<>>
    BY <1>0, <1>9 DEF WriterTakes, HandedOver, Nothing, container
  <2>2. CASE errored
    BY <1>0, <1>9, <2>1, <2>2 DEF WriterTakes, KeyIsNext, FileBeginsWithKeyframe
  <2>3. CASE ~errored
    <3>0. inHand' = <<Head(queue)>>
      BY <1>9, <2>3 DEF WriterTakes
    <3>1. inHand'[1] = queue[1] /\ inHand' # <<>>
      BY <1>0, <2>1, <3>0
    <3> QED BY <1>0, <2>1, <2>3, <3>1 DEF KeyIsNext, FileBeginsWithKeyframe
  <2> QED BY <2>2, <2>3
<1>10. CASE WriterWrites
  <2>1. /\ queue' = queue /\ accepted' = accepted /\ inHand' = <<>>
        /\ gotKey' = gotKey /\ decoder' = decoder /\ incoming' = incoming
    BY <1>10 DEF WriterWrites, container, shared, Nothing
  <2>2. CASE errored' = TRUE /\ file' = file
    BY <1>0, <2>1, <2>2 DEF KeyIsNext, FileBeginsWithKeyframe
  <2>3. CASE errored' = errored /\ file' = file \o inHand
    <3>1. file # <<>> => file' # <<>> /\ file'[1] = file[1]
      BY <1>0, <2>3
    <3>2. file = <<>> => file' = inHand
      BY <1>0, <2>3
    <3>3. file' = <<>> => file = <<>> /\ inHand = <<>>
      BY <1>0, <2>3, <3>1, <3>2
    <3> QED BY <1>0, <2>1, <2>3, <3>1, <3>2, <3>3 DEF KeyIsNext, FileBeginsWithKeyframe
  <2> QED BY <1>10, <2>2, <2>3 DEF WriterWrites
<1> QED
  BY <1>1, <1>2, <1>3, <1>4, <1>5, <1>6, <1>7, <1>8, <1>9, <1>10
  DEF Next, Decode, Stopping, Write

-----------------------------------------------------------------------------
(* The theorems. *)

LEMMA IInvStart == Init => IInv
<1> SUFFICES ASSUME Init PROVE IInv
  OBVIOUS
<1>1. /\ Len(queue) = 0 /\ DOMAIN queue = {} /\ queue \in Seq(Packet)
      /\ file \in Seq(Packet) /\ inHand \in Seq(Packet)
  BY DEF Init, Nothing
<1>2. TypeOK
  <2>1. Len(queue) <= MaxQueue
    BY <1>1, RecorderAssumption
  <2>2. accepted \subseteq Packet /\ dropped \subseteq 1 .. MaxPackets
    BY DEF Init
  <2>3. /\ open \in BOOLEAN /\ header \in BOOLEAN /\ gotKey \in BOOLEAN /\ errored \in BOOLEAN
        /\ writerStop \in BOOLEAN /\ incoming \in Packet \cup {NoPacket}
        /\ decoder \in DecoderPoint /\ writer \in WriterPoint
    BY DEF Init, DecoderPoint, WriterPoint
  <2> QED BY <1>1, <2>1, <2>2, <2>3 DEF TypeOK
<1>3. Numbered
  BY <1>1 DEF Init, Numbered, Elements
<1>4. HandedOver
  BY DEF Init, HandedOver
<1>5. NothingIsLost
  <2>1. file \o inHand \o queue = <<>>
    BY DEF Init, Nothing
  <2> QED BY <2>1 DEF Init, NothingIsLost
<1>6. KeyIsNext
  BY DEF Init, KeyIsNext, FileBeginsWithKeyframe, Nothing
<1> QED BY <1>2, <1>3, <1>4, <1>5, <1>6, ThreadsStart DEF IInv

\* The strengthening holds in every state, for any bound of the queue.
THEOREM Invariance == Spec => []IInv
<1>1. IInv /\ [Next]_vars => IInv'
  <2> SUFFICES ASSUME IInv, [Next]_vars PROVE IInv'
    OBVIOUS
  <2>1. CASE Next
    <3>1. ThreadsAgree'
      BY <2>1, DecodeKeeps, StoppingKeeps, WriteKeeps DEF Next, IInv
    <3> QED BY <2>1, <3>1, TypesKept, NumbersKept, HandsKept, NothingLost, KeysKept DEF IInv
  <2>2. CASE UNCHANGED vars
    <3>1. ThreadsAgree'
      BY <2>2, StutterKeeps DEF IInv
    <3>2. TypeOK' /\ HandedOver'
      BY <2>2 DEF IInv, vars, container, shared, TypeOK, HandedOver
    <3>3. Numbered'
      BY <2>2 DEF IInv, vars, container, shared, Numbered, Elements
    <3>4. NothingIsLost'
      BY <2>2 DEF IInv, vars, container, shared, NothingIsLost
    <3>5. KeyIsNext'
      BY <2>2 DEF IInv, vars, container, shared, KeyIsNext, FileBeginsWithKeyframe
    <3> QED BY <3>1, <3>2, <3>3, <3>4, <3>5 DEF IInv
  <2> QED BY <2>1, <2>2
<1> QED BY <1>1, IInvStart, PTL DEF Spec

\* The queue of the recorder never outgrows kMaxQueue.
THEOREM TypeCorrect == Spec => []TypeOK
<1>1. IInv => TypeOK
  BY DEF IInv
<1> QED BY <1>1, Invariance, PTL

\* Until a call fails, every packet writePacket has taken and the queue has not
\* dropped is in the file, in the writer's hand or in the queue, once and in
\* order; stop leaves all of them in the file.
THEOREM NoPacketIsLost == Spec => []NothingIsLost
<1>1. IInv => NothingIsLost
  BY DEF IInv
<1> QED BY <1>1, Invariance, PTL

\* dropOldestNonKeyLocked never lets a file begin with anything but a keyframe.
THEOREM KeyframeComesFirst == Spec => []FileBeginsWithKeyframe
<1>1. IInv => FileBeginsWithKeyframe
  BY DEF IInv, KeyIsNext
<1> QED BY <1>1, Invariance, PTL
=============================================================================
