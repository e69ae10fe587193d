------------------------------ MODULE Recorder ------------------------------
(***************************************************************************)
(* One FfmpegRecorder (src/infra/ffmpeg/FfmpegRecorder.cpp): the decode    *)
(* thread starts it, hands it packets and stops it; a thread of its own    *)
(* writes them to the file, from a queue of bounded length.                *)
(*                                                                         *)
(* A packet is its number in the order of the calls of writePacket, and    *)
(* whether it is a keyframe.  The steps are those of the mutex m_qMu and   *)
(* of the condition variable m_qCv; a call of FFmpeg on the container      *)
(* takes the time between two steps.                                       *)
(***************************************************************************)
EXTENDS Integers, Sequences, SequencesExt

CONSTANTS MaxQueue,   \* kMaxQueue
          MaxPackets, \* bound: packets of a run
          MaxStarts   \* bound: segments

\* With room for one packet only, a keyframe could be dropped for what follows it.
ASSUME RecorderAssumption ==
    MaxQueue \in Nat \ {0, 1} /\ MaxPackets \in Nat /\ MaxStarts \in Nat

Packet == [n : 1 .. MaxPackets, key : BOOLEAN]

VARIABLES
    open,        \* m_open, and m_fmt is there
    header,      \* m_headerWritten
    gotKey,      \* m_gotKeyframe
    errored,     \* m_errored
    queue,       \* m_queue
    dropped,     \* m_droppedPackets, by packet
    writerStop,  \* m_writerStop
    decoder,     \* where the decode thread is
    incoming,    \* the packet it hands over
    writer,      \* where the writer thread is
    inHand,      \* the packet the writer has taken from the queue
    file,        \* packets in the file, since its header
    accepted,    \* ghost: the packets that went into the queue
    packets,     \* packets so far
    starts       \* starts so far

container == <<open, header, gotKey>>
shared == <<queue, dropped, writerStop>>  \* under m_qMu
vars == <<container, errored, shared, decoder, incoming, writer, inHand,
          file, accepted, packets, starts>>

DecoderPoint == {"idle", "header", "copying", "joining", "trailer"}
WriterPoint == {"none", "checking", "asleep", "writing"}

Nothing == <<>>
NoPacket == [n |-> 0, key |-> FALSE]

Init ==
    /\ open = FALSE /\ header = FALSE /\ gotKey = FALSE /\ errored = FALSE
    /\ queue = <<>> /\ dropped = {} /\ writerStop = FALSE
    /\ decoder = "idle" /\ incoming = NoPacket
    /\ writer = "none" /\ inHand = Nothing
    /\ file = <<>> /\ accepted = {}
    /\ packets = 0 /\ starts = 0

\* notify_one: the writer looks at its condition again.
Notified(at) == IF at = "asleep" THEN "checking" ELSE at

-----------------------------------------------------------------------------
(* The decode thread. *)

\* start: a container is allocated, no file is opened yet, and the writer is
\* started; a failure leaves nothing but the mark.
Start ==
    /\ decoder = "idle" /\ ~open /\ starts < MaxStarts
    /\ starts' = starts + 1
    /\ header' = FALSE /\ gotKey' = FALSE
    /\ \/ /\ open' = TRUE /\ errored' = FALSE /\ writer' = "checking"
          /\ writerStop' = FALSE /\ dropped' = {}
          /\ file' = <<>> /\ accepted' = {}
       \/ /\ errored' = TRUE
          /\ UNCHANGED <<open, writer, writerStop, dropped, file, accepted>>
    /\ UNCHANGED <<queue, decoder, incoming, inHand, packets>>

\* Mutant: the oldest packet is dropped, whatever it is.
MutVictim(q) == 1
\* dropOldestNonKeyLocked: the oldest packet that is no keyframe, else the oldest.
Victim(q) ==
    LET others == {i \in DOMAIN q : ~q[i].key}
    IN IF others = {} THEN 1 ELSE CHOOSE i \in others : \A j \in others : i <= j

IsFull == Len(queue) >= MaxQueue

Enqueue(p) ==
    /\ IF IsFull
       THEN /\ queue' = Append(RemoveAt(queue, Victim(queue)), p)
            /\ dropped' = dropped \cup {queue[Victim(queue)].n}
       ELSE queue' = Append(queue, p) /\ UNCHANGED dropped
    /\ accepted' = accepted \cup {p}
    /\ writer' = Notified(writer)

\* writePacket, to the end of its checks: nothing is taken after an error or
\* before the first keyframe, and the first keyframe opens the file.
WritePacket ==
    /\ decoder = "idle" /\ open /\ packets < MaxPackets
    /\ packets' = packets + 1
    /\ \E key \in BOOLEAN :
          IF errored \/ ~(gotKey \/ key)
          THEN UNCHANGED <<gotKey, decoder, incoming>>
          ELSE /\ gotKey' = TRUE
               /\ incoming' = [n |-> packets + 1, key |-> key]
               /\ decoder' = IF header THEN "copying" ELSE "header"
    /\ UNCHANGED <<open, header, errored, shared, writer, inHand, file, accepted, starts>>

\* avio_open and write_header, each of which may fail.
WriteHeader ==
    /\ decoder = "header"
    /\ \/ header' = TRUE /\ decoder' = "copying" /\ UNCHANGED errored
       \/ errored' = TRUE /\ decoder' = "idle" /\ UNCHANGED header
    /\ UNCHANGED <<open, gotKey, shared, incoming, writer, inHand, file, accepted,
                   packets, starts>>

\* The copy goes into the queue, even if the writer has met an error meanwhile;
\* or it cannot be made.
Copy ==
    /\ decoder = "copying"
    /\ decoder' = "idle"
    /\ \/ Enqueue(incoming) /\ UNCHANGED errored
       \/ errored' = TRUE /\ UNCHANGED <<queue, dropped, accepted, writer>>
    /\ UNCHANGED <<container, writerStop, incoming, inHand, file, packets, starts>>

\* Mutants: the flag is set without a signal; the writer is not waited for.
MutSignal == writer
MutJoined == decoder = "joining"
\* stop: m_writerStop is set under the lock and signalled, the writer joined.
Signal == Notified(writer)
Joined == decoder = "joining" /\ writer = "none"

Stop ==
    /\ decoder = "idle"
    /\ open
    /\ writerStop' = TRUE
    /\ writer' = Signal
    /\ decoder' = "joining"
    /\ UNCHANGED <<container, errored, queue, dropped, incoming, inHand, file, accepted, packets, starts>>

\* After the join: what is left is freed, and the trailer written if there is
\* a header.
StopJoined ==
    /\ Joined
    /\ queue' = <<>>
    /\ decoder' = "trailer"
    /\ UNCHANGED <<container, errored, dropped, writerStop, incoming, writer, inHand,
                   file, accepted, packets, starts>>

\* cleanup: the file is closed and the container freed.
Cleanup ==
    /\ decoder = "trailer"
    /\ errored' \in IF header THEN {errored, TRUE} ELSE {errored}
    /\ open' = FALSE /\ header' = FALSE /\ gotKey' = FALSE
    /\ decoder' = "idle"
    /\ UNCHANGED <<shared, incoming, writer, inHand, file, accepted, packets, starts>>

Decode == Start \/ WritePacket \/ WriteHeader \/ Copy
Stopping == Stop \/ StopJoined \/ Cleanup

-----------------------------------------------------------------------------
(* The writer thread: writerLoop. *)

\* Mutant: a stop is obeyed before the queue is empty.
MutMayEnd == writerStop
\* Only an empty queue ends the thread.
MayEnd == queue = <<>> /\ writerStop

WriterEnds ==
    /\ writer = "checking" /\ MayEnd
    /\ writer' = "none"
    /\ UNCHANGED <<container, errored, shared, decoder, incoming, inHand,
                   file, accepted, packets, starts>>

WriterSleeps ==
    /\ writer = "checking" /\ queue = <<>> /\ ~writerStop
    /\ writer' = "asleep"
    /\ UNCHANGED <<container, errored, shared, decoder, incoming, inHand,
                   file, accepted, packets, starts>>

\* A packet is taken, and muxed outside the lock unless an error is marked.
WriterTakes ==
    /\ writer = "checking" /\ queue # <<>> /\ ~MayEnd
    /\ queue' = Tail(queue)
    /\ IF errored THEN UNCHANGED <<writer, inHand>>
                  ELSE writer' = "writing" /\ inHand' = <<Head(queue)>>
    /\ UNCHANGED <<container, errored, dropped, writerStop, decoder, incoming,
                   file, accepted, packets, starts>>

WriterWrites ==
    /\ writer = "writing"
    /\ writer' = "checking"
    /\ inHand' = Nothing
    /\ \/ file' = file \o inHand /\ UNCHANGED errored
       \/ errored' = TRUE /\ UNCHANGED file
    /\ UNCHANGED <<container, shared, decoder, incoming, accepted, packets, starts>>

Write == WriterEnds \/ WriterSleeps \/ WriterTakes \/ WriterWrites

Next == Decode \/ Stopping \/ Write

Spec == Init /\ [][Next]_vars

\* Both threads run, and calls of FFmpeg return; a stop may never come.
FairSpec == Spec /\ WF_vars(StopJoined \/ Cleanup) /\ WF_vars(Write)

-----------------------------------------------------------------------------
\* The members have their types, and the queue is never longer than kMaxQueue
\* however slow the disk is.
TypeOK ==
    /\ open \in BOOLEAN /\ header \in BOOLEAN /\ gotKey \in BOOLEAN /\ errored \in BOOLEAN
    /\ queue \in Seq(Packet) /\ Len(queue) <= MaxQueue
    /\ dropped \subseteq 1 .. MaxPackets
    /\ writerStop \in BOOLEAN
    /\ incoming \in Packet \cup {NoPacket}
    /\ decoder \in DecoderPoint /\ writer \in WriterPoint
    /\ inHand \in Seq(Packet) /\ file \in Seq(Packet) /\ accepted \subseteq Packet

\* Until something fails, the file, the packet in hand and the queue are what
\* was accepted without what was dropped, in the order it came; so at the
\* trailer, after the flush, the file holds every packet that was not dropped.
NothingIsLost ==
    ~errored =>
        LET kept == file \o inHand \o queue
        IN /\ {kept[i] : i \in DOMAIN kept} = {p \in accepted : p.n \notin dropped}
           /\ \A i, j \in DOMAIN kept : i < j => kept[i].n < kept[j].n

\* The two threads are never in the container at once: while the writer muxes
\* the decode thread writes no header and no trailer and frees nothing ("only
\* after the end of the writer thread", FfmpegRecorder.h), and a header is
\* there before the first packet is muxed.
ContainerIsNotShared ==
    writer = "writing" => decoder \in {"idle", "copying", "joining"} /\ open /\ header

\* A file begins with a keyframe, whatever a slow disk made the queue drop.
FileBeginsWithKeyframe == file # <<>> => file[1].key

\* stop comes back: the join does not wait for a writer that sleeps.
StopReturns == decoder = "joining" ~> decoder = "idle"
=============================================================================
