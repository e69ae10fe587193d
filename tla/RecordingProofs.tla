-------------------------- MODULE RecordingProofs ---------------------------
(***************************************************************************)
(* Proofs about the recording of one channel (Recording), for every set of *)
(* closes, every limit and every number of paths.                          *)
(*                                                                         *)
(* RequestFollowsEntry speaks of the moments at which no handler of the    *)
(* control thread is under way.  It is not inductive: a segment begins and *)
(* rolls over in two steps, between which the decode thread may take the   *)
(* request back, and a channel that was erased has none.  Requested says   *)
(* what holds of a request at every point of every handler.                *)
(***************************************************************************)
EXTENDS Recording, TLAPS

Recorder == [path : Paths \cup {NoPath}, header : BOOLEAN, errored : BOOLEAN]
Thread == [at : ThreadPoint, packet : BOOLEAN, path : Paths \cup {NoPath}]
Files == [Paths -> {"none", "open", "closed", "overwritten"}]

\* The request is for the segment of the entry, or has lost its path to a
\* start of the recorder that failed.
OfEntry == sink.pending \in {entry.path, NoPath}

Requested ==
    sink.requested => /\ phase # "gone" /\ control # "rollover"
                      /\ OfEntry
                      /\ control # "confirm" => Busy(entry)

\* The inductive invariant.
IInv == TypeOK /\ Requested /\ OpenFilesAreOwned

-----------------------------------------------------------------------------
(* Types. *)

LEMMA FreshPathIsFresh == TypeOK => FreshPath \in Paths /\ FreshPath \notin InUse
<1> SUFFICES ASSUME TypeOK PROVE \E p \in Paths : p \notin InUse
  BY DEF FreshPath
<1>1. /\ entry.path \in Paths \cup {NoPath} /\ sink.pending \in Paths \cup {NoPath}
      /\ recorder.path \in Paths \cup {NoPath} /\ thread.path \in Paths \cup {NoPath}
  BY DEF TypeOK, Entry, Sink
<1>2. Paths \ {entry.path, sink.pending, recorder.path, thread.path} # {}
  BY <1>1, PathAssumption
<1> QED BY <1>2 DEF InUse

\* What the members of an entry, a sink, a recorder and a thread are.
LEMMA Members ==
    ASSUME TypeOK
    PROVE  /\ entry \in Entry /\ sink \in Sink /\ recorder \in Recorder /\ thread \in Thread
           /\ files \in Files
  BY DEF TypeOK, Recorder, Thread, Files

LEMMA NewTypes ==
    /\ NewEntry \in Entry /\ NewEntry.state = "Idle"
    /\ NewSink \in Sink /\ NewSink.requested = FALSE
    /\ NoRecorder \in Recorder /\ NoRecorder.header = FALSE
    /\ NoThread \in Thread /\ NewThread \in Thread
<1>1. /\ 0 \in 0 .. MaxDuration /\ 0 \in 0 .. MaxStartFailures /\ 0 \in 0 .. MaxDiskErrors
  BY RecordingAssumption
<1>2. NewEntry \in Entry /\ NewEntry.state = "Idle"
  BY <1>1 DEF NewEntry, Entry
<1>3. NewSink \in Sink /\ NewSink.requested = FALSE
  BY DEF NewSink, Sink
<1>4. NoRecorder \in Recorder /\ NoRecorder.header = FALSE
  BY DEF NoRecorder, Recorder
<1>5. NoThread \in Thread
  BY DEF NoThread, Thread, ThreadPoint
<1>6. NewThread \in Thread
  BY <1>5 DEF NewThread, Thread, ThreadPoint
<1> QED BY <1>2, <1>3, <1>4, <1>5, <1>6

\* A request that is withdrawn, and one that is made.
LEMMA Requests ==
    ASSUME TypeOK, NEW p \in Paths
    PROVE  /\ Withdrawn \in Sink /\ Withdrawn.requested = FALSE
           /\ RequestAt(p) \in Sink /\ RequestAt(p).pending = p
  BY Members DEF Withdrawn, RequestAt, Sink

\* The end of a segment, by hand or by itself.
LEMMA IdleEntry ==
    ASSUME NEW e \in Entry
    PROVE  /\ Idle(e) \in Entry /\ Idle(e).state = "Idle"
           /\ Stopped(e) \in Entry /\ Stopped(e).state = "Idle"
<1>1. 0 \in 0 .. MaxDuration
  BY RecordingAssumption
<1>2. \A x \in Entry : Idle(x) \in Entry /\ Idle(x).state = "Idle"
  BY <1>1 DEF Idle, Entry
<1>3. [e EXCEPT !.retryStart = FALSE] \in Entry
  BY DEF Entry
<1> QED BY <1>2, <1>3 DEF Stopped

LEMMA CappedCounter ==
    ASSUME NEW max \in Nat, NEW n \in 0 .. max
    PROVE  Capped(n, max) \in 0 .. max
  BY DEF Capped

\* The error that is counted does not touch the segment.
LEMMA DiskErrorEntry ==
    ASSUME NEW e \in Entry
    PROVE  DiskErrorCounted(e) \in Entry
<1>1. Capped(e.diskErrors, MaxDiskErrors) \in 0 .. MaxDiskErrors
  BY RecordingAssumption, CappedCounter DEF Entry
<1> QED BY <1>1 DEF DiskErrorCounted, Entry

-----------------------------------------------------------------------------
(* The control thread. *)

\* doStart: a request for the segment of the entry, or nothing where there is
\* no source.
LEMMA StartStep ==
    ASSUME IInv, NEW e \in Entry, Start(e),
           phase' = phase \/ (phase = "trying" /\ phase' = "up"),
           UNCHANGED <<recorder, thread, disk>>
    PROVE  IInv'
<1>1. /\ TypeOK /\ FreshPath \in Paths /\ 0 \in 0 .. MaxDuration /\ 0 \in 0 .. MaxStartFailures
      /\ files \in Files /\ sink \in Sink /\ phase' \in {"gone", "trying", "up", "fastWait", "slowWait"}
      /\ (phase' = "gone" <=> phase = "gone")
  BY FreshPathIsFresh, RecordingAssumption, Members DEF IInv, TypeOK
<1>2. CASE Exists
  <2>1. /\ sink' = RequestAt(FreshPath) /\ files' = FilesInUse /\ control' = "confirm"
        /\ entry' = [e EXCEPT !.path = FreshPath, !.age = 0, !.startFailures = 0,
                              !.retryStart = FALSE]
    BY <1>2 DEF Start
  <2>2. entry' \in Entry /\ entry'.path = FreshPath
    BY <1>1, <2>1 DEF Entry
  <2>3. sink' \in Sink /\ sink'.pending = FreshPath
    BY <1>1, <2>1, Requests
  <2>4. files' \in Files /\ \A p \in Paths : files'[p] = "open" => files[p] = "open"
    BY <1>1, <2>1 DEF FilesInUse, Files
  <2>5. TypeOK'
    BY <1>1, <2>1, <2>2, <2>3, <2>4 DEF TypeOK, ControlPoint, Files
  <2>6. Requested'
    BY <1>1, <1>2, <2>1, <2>2, <2>3 DEF Requested, OfEntry, Exists
  <2>7. OpenFilesAreOwned'
    BY <2>4 DEF IInv, OpenFilesAreOwned
  <2> QED BY <2>5, <2>6, <2>7 DEF IInv
<1>3. CASE ~Exists
  <2>1. /\ control' = "ready" /\ UNCHANGED <<sink, files>> /\ ~sink.requested
        /\ entry' = [e EXCEPT !.state = "Idle", !.path = NoPath, !.age = 0,
                         !.startFailures = Capped(@, MaxStartFailures),
                         !.armed = @ /\ e.startFailures + 1 < MaxStartFailures]
    BY <1>3 DEF Start, IInv, Requested, Exists
  <2>2. entry' \in Entry
    <3>1. Capped(e.startFailures, MaxStartFailures) \in 0 .. MaxStartFailures
      BY RecordingAssumption, CappedCounter DEF Entry
    <3>2. (e.armed /\ e.startFailures + 1 < MaxStartFailures) \in BOOLEAN
      BY DEF Entry
    <3> QED BY <1>1, <2>1, <3>1, <3>2 DEF Entry
  <2>3. TypeOK'
    BY <1>1, <2>1, <2>2 DEF TypeOK, ControlPoint
  <2> QED BY <2>1, <2>3 DEF IInv, Requested, OpenFilesAreOwned
<1> QED BY <1>2, <1>3

\* A step of the control thread after which there is no request.
LEMMA WithdrawnStep ==
    ASSUME IInv, entry' \in Entry, sink' \in Sink, ~sink'.requested, control' \in ControlPoint,
           phase' \in {"gone", "trying", "up", "fastWait", "slowWait"}, thread' \in Thread,
           UNCHANGED <<recorder, files, disk>>
    PROVE  IInv'
  BY DEF IInv, TypeOK, Requested, OpenFilesAreOwned, Thread

\* A step of the control thread that keeps the segment and its request.
LEMMA KeptStep ==
    ASSUME IInv, entry' \in Entry, entry'.path = entry.path, Busy(entry) => Busy(entry'),
           control # "confirm" \/ Busy(entry'), control' \in ControlPoint \ {"rollover"},
           phase' \in {"gone", "trying", "up", "fastWait", "slowWait"},
           phase' # "gone" \/ phase = "gone", thread' \in Thread,
           UNCHANGED <<sink, recorder, files, disk>>
    PROVE  IInv'
<1>1. TypeOK'
  BY DEF IInv, TypeOK, ControlPoint, Thread
<1>2. Requested'
  BY DEF IInv, Requested, OfEntry, Busy
<1> QED BY <1>1, <1>2 DEF IInv, OpenFilesAreOwned

\* Where a request is withdrawn, there is none afterwards: without a source
\* there was none before.
LEMMA NoneLeft ==
    ASSUME IInv, sink' = IF Exists THEN Withdrawn ELSE sink
    PROVE  sink' \in Sink /\ ~sink'.requested
<1>1. Withdrawn \in Sink /\ Withdrawn.requested = FALSE /\ sink \in Sink
  <2>1. sink \in Sink
    BY DEF IInv, TypeOK
  <2> QED BY <2>1 DEF Withdrawn, Sink
<1> QED BY <1>1 DEF IInv, Requested, Exists

LEMMA Unchanged ==
    ASSUME IInv
    PROVE  /\ entry \in Entry /\ sink \in Sink /\ thread \in Thread /\ control \in ControlPoint
           /\ phase \in {"gone", "trying", "up", "fastWait", "slowWait"}
           /\ recorder \in Recorder /\ files \in Files
  BY Members DEF IInv, TypeOK

LEMMA ConfirmStep == IInv /\ Confirm => IInv'
<1> SUFFICES ASSUME IInv, Confirm PROVE IInv'
  OBVIOUS
<1>1. /\ entry' = [entry EXCEPT !.state = IF IsRecording THEN "Recording" ELSE "Starting"]
      /\ control' = "ready" /\ UNCHANGED <<phase, sink, recorder, thread, files, disk>>
  BY DEF Confirm
<1>2. entry' \in Entry /\ entry'.path = entry.path /\ Busy(entry')
  BY <1>1, Unchanged DEF Entry, Busy
<1> QED BY <1>1, <1>2, Unchanged, KeptStep DEF ControlPoint

LEMMA ToggleStep == IInv /\ Toggle => IInv'
<1> SUFFICES ASSUME IInv, Toggle PROVE IInv'
  OBVIOUS
<1>1. \A b \in BOOLEAN : [entry EXCEPT !.armed = b] \in Entry
  BY Unchanged DEF Entry
<1>2. CASE entry.armed \/ Busy(entry)
  <2>1. /\ entry' = Stopped([entry EXCEPT !.armed = FALSE])
        /\ sink' = IF Exists THEN Withdrawn ELSE sink
        /\ UNCHANGED <<phase, control, recorder, thread, files, disk>>
    BY <1>2 DEF Toggle
  <2>2. entry' \in Entry
    BY <1>1, <2>1, IdleEntry
  <2> QED BY <2>1, <2>2, NoneLeft, Unchanged, WithdrawnStep
<1>3. CASE ~(entry.armed \/ Busy(entry))
  BY <1>1, <1>3, StartStep DEF Toggle
<1> QED BY <1>2, <1>3

LEMMA TickStep == IInv /\ Tick => IInv'
<1> SUFFICES ASSUME IInv, Tick PROVE IInv'
  OBVIOUS
<1>1. control = "ready" /\ UNCHANGED <<phase, recorder, thread, disk>>
  BY DEF Tick
<1>2. CASE TickRetry
  BY <1>1, <1>2, Unchanged, StartStep DEF TickRetry
<1>3. CASE TickStarting
  <2>1. UNCHANGED <<control, files>> /\ entry.state = "Starting"
    BY <1>3 DEF TickStarting
  <2>2. CASE entry' = [entry EXCEPT !.state = "Recording"] /\ UNCHANGED sink
    <3>1. entry' \in Entry /\ entry'.path = entry.path /\ Busy(entry')
      BY <2>2, Unchanged DEF Entry, Busy
    <3> QED BY <1>1, <2>1, <2>2, <3>1, Unchanged, KeptStep
  <2>3. CASE entry' = Idle(entry) /\ sink' = IF Exists THEN Withdrawn ELSE sink
    <3>1. entry' \in Entry
      BY <2>3, Unchanged, IdleEntry
    <3> QED BY <1>1, <2>1, <2>3, <3>1, NoneLeft, Unchanged, WithdrawnStep
  <2>4. CASE UNCHANGED <<entry, sink>>
    BY <1>1, <2>1, <2>4, Unchanged, KeptStep
  <2> QED BY <1>3, <2>2, <2>3, <2>4 DEF TickStarting
<1>4. CASE TickReconcile
  <2>1. entry' = Idle(entry) /\ sink' = (IF Exists THEN Withdrawn ELSE sink) /\ UNCHANGED <<control, files>>
    BY <1>4 DEF TickReconcile
  <2>2. entry' \in Entry
    BY <2>1, Unchanged, IdleEntry
  <2> QED BY <1>1, <2>1, <2>2, NoneLeft, Unchanged, WithdrawnStep
<1>5. CASE TickDiskError
  <2>1. entry' = Idle(DiskErrorCounted(entry)) /\ sink' = Withdrawn /\ UNCHANGED <<control, files>>
    BY <1>5 DEF TickDiskError
  <2>2. entry' \in Entry
    BY <2>1, Unchanged, DiskErrorEntry, IdleEntry
  <2>3. sink' \in Sink /\ ~sink'.requested
    BY <2>1, Unchanged DEF Withdrawn, Sink
  <2> QED BY <1>1, <2>1, <2>2, <2>3, Unchanged, WithdrawnStep
<1>6. CASE TickHealthy
  <2> DEFINE e == IF entry.age >= HealthyWindow /\ IsRecording
                  THEN [entry EXCEPT !.diskErrors = 0] ELSE entry
  <2>1. e \in Entry /\ e.path = entry.path /\ e.state = entry.state
    BY Unchanged, RecordingAssumption DEF Entry
  <2>2. /\ UNCHANGED files /\ entry.state = "Recording"
        /\ \/ /\ entry' = [e EXCEPT !.state = "Idle", !.age = 0, !.retryStart = TRUE]
              /\ sink' = IF Exists THEN Withdrawn ELSE sink
              /\ control' = "rollover"
           \/ entry' = e /\ UNCHANGED <<sink, control>>
    BY <1>6 DEF TickHealthy
  <2> HIDE DEF e
  <2>3. CASE /\ entry' = [e EXCEPT !.state = "Idle", !.age = 0, !.retryStart = TRUE]
             /\ sink' = IF Exists THEN Withdrawn ELSE sink
             /\ control' = "rollover"
    <3>1. entry' \in Entry
      <4>1. 0 \in 0 .. MaxDuration
        BY RecordingAssumption
      <4> QED BY <2>1, <2>3, <4>1 DEF Entry
    <3> QED BY <1>1, <2>2, <2>3, <3>1, NoneLeft, Unchanged, WithdrawnStep DEF ControlPoint
  <2>4. CASE entry' = e /\ UNCHANGED <<sink, control>>
    <3>1. Busy(entry')
      BY <2>1, <2>2, <2>4 DEF Busy
    <3> QED BY <1>1, <2>1, <2>2, <2>4, <3>1, Unchanged, KeptStep
  <2> QED BY <2>2, <2>3, <2>4
<1> QED BY <1>2, <1>3, <1>4, <1>5, <1>6 DEF Tick

\* A drop withdraws the request of an armed channel.
LEMMA ReconnectFits ==
    ASSUME IInv, OnReconnect
    PROVE  /\ entry' \in Entry /\ sink' \in Sink
           /\ ~sink'.requested \/ UNCHANGED <<entry, sink>>
<1>1. CASE entry' = Stopped(entry) /\ sink' = Withdrawn
  <2>1. entry' \in Entry
    BY <1>1, Unchanged, IdleEntry
  <2>2. sink' \in Sink /\ ~sink'.requested
    BY <1>1, Unchanged DEF Withdrawn, Sink
  <2> QED BY <2>1, <2>2
<1>2. CASE UNCHANGED <<entry, sink>>
  BY <1>2, Unchanged
<1> QED BY <1>1, <1>2 DEF OnReconnect

\* The connection moves and the segment stays or ends.
LEMMA ConnectionStep ==
    IInv /\ (ComeUp \/ Reopen \/ BeginClose \/ ClosedForFastWait \/ ClosedForSlowWait
             \/ ClosedForRestart \/ Add) => IInv'
<1> SUFFICES ASSUME IInv,
                    ComeUp \/ Reopen \/ BeginClose \/ ClosedForFastWait \/ ClosedForSlowWait
                      \/ ClosedForRestart \/ Add
             PROVE  IInv'
  OBVIOUS
<1>1. /\ entry \in Entry /\ thread \in Thread /\ control \in ControlPoint
      /\ NewThread \in Thread /\ NoThread \in Thread /\ "ready" \in ControlPoint \ {"rollover"}
  BY Unchanged, NewTypes DEF ControlPoint
<1>2. CASE ComeUp
  <2>1. CASE Start(entry)
    BY <1>1, <1>2, <2>1, StartStep DEF ComeUp
  <2>2. CASE UNCHANGED <<entry, sink, files, control>>
    BY <1>1, <1>2, <2>2, KeptStep DEF ComeUp
  <2> QED BY <1>2, <2>1, <2>2 DEF ComeUp, OnStreaming
<1>3. CASE Reopen
  BY <1>1, <1>3, KeptStep DEF Reopen
<1>4. CASE BeginClose
  <2>1. control' \in ControlPoint \ {"rollover"}
    BY <1>4, RecordingAssumption DEF BeginClose, ControlPoint
  <2> QED BY <1>1, <1>4, <2>1, KeptStep DEF BeginClose
<1>5. CASE ClosedForFastWait
  <2>1. /\ control' = "ready" /\ phase' = "fastWait" /\ thread' = NoThread
        /\ control = "closeForFastWait" /\ OnReconnect /\ UNCHANGED <<recorder, files, disk>>
    BY <1>5 DEF ClosedForFastWait
  <2>2. CASE ~sink'.requested
    BY <1>1, <2>1, <2>2, ReconnectFits, WithdrawnStep
  <2>3. CASE UNCHANGED <<entry, sink>>
    BY <1>1, <2>1, <2>3, KeptStep
  <2> QED BY <2>1, <2>2, <2>3, ReconnectFits
<1>6. CASE ClosedForSlowWait
  BY <1>1, <1>6, KeptStep DEF ClosedForSlowWait
<1>7. CASE ClosedForRestart
  BY <1>1, <1>7, KeptStep DEF ClosedForRestart
<1>8. CASE Add
  BY <1>1, <1>8, KeptStep DEF Add
<1> QED BY <1>2, <1>3, <1>4, <1>5, <1>6, <1>7, <1>8

\* No file is open once the recorder has been finished.
LEMMA FilesAreFinished ==
    ASSUME IInv
    PROVE  FinishedFiles \in Files /\ \A p \in Paths : FinishedFiles[p] # "open"
  BY Unchanged DEF FinishedFiles, Files, IInv, OpenFilesAreOwned

\* The source goes, with its request and its recorder.
LEMMA DestroyedStep ==
    ASSUME IInv, SourceDestroyed, entry' \in Entry, control' \in ControlPoint,
           phase' \in {"gone", "trying", "up", "fastWait", "slowWait"}, thread' \in Thread,
           UNCHANGED disk
    PROVE  IInv'
<1>1. /\ sink' \in Sink /\ ~sink'.requested /\ recorder' \in Recorder
      /\ files' \in Files /\ \A p \in Paths : files'[p] # "open"
  BY NewTypes, FilesAreFinished DEF SourceDestroyed
<1>2. TypeOK'
  BY <1>1 DEF IInv, TypeOK, Recorder, Thread, Files
<1> QED BY <1>1, <1>2 DEF IInv, Requested, OpenFilesAreOwned

LEMMA ClosedForRebuildStep == IInv /\ ClosedForRebuild => IInv'
<1> SUFFICES ASSUME IInv, ClosedForRebuild PROVE IInv'
  OBVIOUS
<1>1. control' = "ready" /\ phase' = "trying" /\ thread' = NewThread /\ SourceDestroyed
      /\ UNCHANGED <<entry, disk>>
  BY DEF ClosedForRebuild
<1> QED BY <1>1, NewTypes, Unchanged, DestroyedStep DEF ControlPoint

LEMMA ErasedStep == IInv /\ Erased => IInv'
<1> SUFFICES ASSUME IInv, Erased PROVE IInv'
  OBVIOUS
<1>1. control' = "ready" /\ phase' = "gone" /\ thread' = NoThread /\ SourceDestroyed
      /\ UNCHANGED <<entry, disk>>
  BY DEF Erased
<1> QED BY <1>1, NewTypes, Unchanged, DestroyedStep DEF ControlPoint

\* The entry of a removed channel is Idle, so its request has to go.
LEMMA RemoveStep == IInv /\ Remove => IInv'
<1> SUFFICES ASSUME IInv, Remove PROVE IInv'
  OBVIOUS
<1>1. /\ control = "ready" /\ control' = "closeForErase" /\ entry' = NewEntry
      /\ sink' = (IF Busy(entry) THEN Withdrawn ELSE sink)
      /\ UNCHANGED <<phase, recorder, thread, files, disk>>
  BY DEF Remove
<1>2. sink' \in Sink /\ ~sink'.requested
  <2>1. CASE Busy(entry)
    BY <1>1, <2>1, Unchanged DEF Withdrawn, Sink
  <2>2. CASE ~Busy(entry)
    BY <1>1, <2>2, Unchanged DEF IInv, Requested
  <2> QED BY <2>1, <2>2
<1> QED BY <1>1, <1>2, NewTypes, Unchanged, WithdrawnStep DEF ControlPoint

LEMMA RolloverStep == IInv /\ Rollover => IInv'
  BY Unchanged, StartStep DEF Rollover

-----------------------------------------------------------------------------
(* The decode thread and the disk. *)

\* A step of the decode thread raises no request and gives it no path.
LEMMA DecodeStep ==
    ASSUME IInv, ThreadOnly, sink' \in Sink, sink'.requested => sink.requested,
           sink'.pending \in {sink.pending, NoPath}, recorder' \in Recorder,
           thread' \in Thread, files' \in Files, OpenFilesAreOwned'
    PROVE  IInv'
<1>1. TypeOK'
  BY DEF IInv, TypeOK, ThreadOnly, Recorder, Thread, Files
<1>2. Requested'
  BY DEF IInv, Requested, OfEntry, ThreadOnly, Busy
<1> QED BY <1>1, <1>2 DEF IInv

\* Of those that touch neither the recorder nor the files.
LEMMA DecodeOnlyStep ==
    ASSUME IInv, ThreadOnly, sink' \in Sink, sink'.requested => sink.requested,
           sink'.pending \in {sink.pending, NoPath}, thread' \in Thread,
           UNCHANGED <<recorder, files>>
    PROVE  IInv'
<1>1. OpenFilesAreOwned'
  BY DEF IInv, OpenFilesAreOwned
<1> QED BY <1>1, Unchanged, DecodeStep

LEMMA FinishStep ==
    ASSUME IInv, ThreadOnly, Finish, thread' \in Thread
    PROVE  IInv'
<1>1. /\ recorder' \in Recorder /\ files' \in Files /\ OpenFilesAreOwned'
  BY NewTypes, FilesAreFinished DEF Finish, OpenFilesAreOwned
<1>2. /\ sink' \in Sink /\ sink'.requested = sink.requested /\ sink'.pending = sink.pending
  BY Unchanged DEF Finish, Sink
<1> QED BY <1>1, <1>2, DecodeStep

\* Where the decode thread goes next.
LEMMA ThreadMoves ==
    ASSUME IInv
    PROVE  /\ \A a \in ThreadPoint : [thread EXCEPT !.at = a] \in Thread
           /\ \A a \in ThreadPoint, p \in Paths \cup {NoPath} :
                 [thread EXCEPT !.at = a, !.path = p] \in Thread
           /\ [thread EXCEPT !.at = "service", !.packet = TRUE] \in Thread
  BY Unchanged DEF Thread, ThreadPoint

\* The steps that only move the decode thread on.
LEMMA MovesStep ==
    IInv /\ (OpenOk \/ OpenFails \/ Packet \/ ServiceWanted \/ ServicePath \/ Throws) => IInv'
<1> SUFFICES ASSUME IInv,
                    OpenOk \/ OpenFails \/ Packet \/ ServiceWanted \/ ServicePath \/ Throws
             PROVE  IInv'
  OBVIOUS
<1>1. ThreadOnly /\ UNCHANGED <<sink, recorder, files>>
  BY DEF OpenOk, OpenFails, Packet, ServiceWanted, ServicePath, Throws
<1>2. thread' \in Thread
  <2>1. sink.pending \in Paths \cup {NoPath}
    BY Unchanged DEF Sink
  <2>2. {"reading", "ended", "wanted", "path"} \subseteq ThreadPoint
    BY DEF ThreadPoint
  <2>3. \/ \E a \in {"reading", "ended", "wanted", "path"} :
              \/ thread' = [thread EXCEPT !.at = a]
              \/ \E p \in Paths \cup {NoPath} : thread' = [thread EXCEPT !.at = a, !.path = p]
        \/ thread' = [thread EXCEPT !.at = "service", !.packet = TRUE]
    BY <2>1 DEF OpenOk, OpenFails, Packet, ServiceWanted, ServicePath, Throws, Step
  <2> QED BY <2>2, <2>3, ThreadMoves
<1> QED BY <1>1, <1>2, Unchanged, DecodeOnlyStep

LEMMA ServiceUnwantedStep == IInv /\ ServiceUnwanted => IInv'
<1> SUFFICES ASSUME IInv, ServiceUnwanted PROVE IInv'
  OBVIOUS
<1>1. ThreadOnly /\ thread' \in Thread
  BY ThreadMoves DEF ServiceUnwanted, Step, ThreadPoint
<1>2. CASE Finish
  BY <1>1, <1>2, FinishStep
<1>3. CASE UNCHANGED <<sink, recorder, files>>
  BY <1>1, <1>3, Unchanged, DecodeOnlyStep
<1> QED BY <1>2, <1>3 DEF ServiceUnwanted

\* The segment ends for the next one, or with the loop.
LEMMA EndStep == IInv /\ (SwitchSegment \/ Ends) => IInv'
<1> SUFFICES ASSUME IInv, SwitchSegment \/ Ends PROVE IInv'
  OBVIOUS
<1>1. thread' \in Thread
  BY ThreadMoves, Unchanged DEF SwitchSegment, Ends, ThreadPoint
<1> QED BY <1>1, FinishStep DEF SwitchSegment, Ends

LEMMA StartOkStep == IInv /\ StartOk => IInv'
<1> SUFFICES ASSUME IInv, StartOk PROVE IInv'
  OBVIOUS
<1>1. /\ recorder = NoRecorder /\ recorder' = [NoRecorder EXCEPT !.path = thread.path]
      /\ sink' = [sink EXCEPT !.recording = TRUE, !.error = FALSE]
      /\ ThreadOnly /\ UNCHANGED <<thread, files>>
  BY DEF StartOk
<1>2. recorder' \in Recorder
  BY <1>1, NewTypes, Unchanged DEF Recorder, Thread
<1>3. sink' \in Sink /\ sink'.requested = sink.requested /\ sink'.pending = sink.pending
  BY <1>1, Unchanged DEF Sink
<1>4. OpenFilesAreOwned'
  BY <1>1, NewTypes DEF IInv, OpenFilesAreOwned
<1> QED BY <1>1, <1>2, <1>3, <1>4, Unchanged, DecodeStep

\* A start that fails lowers the latch first and clears the path then.
LEMMA StartFailsStep == IInv /\ (StartFails \/ ClearPending) => IInv'
<1> SUFFICES ASSUME IInv, StartFails \/ ClearPending PROVE IInv'
  OBVIOUS
<1>1. thread' \in Thread
  BY ThreadMoves DEF StartFails, ClearPending, Step, ThreadPoint
<1>2. /\ sink' \in Sink /\ (sink'.requested => sink.requested)
      /\ sink'.pending \in {sink.pending, NoPath}
  BY Unchanged DEF StartFails, ClearPending, Sink
<1> QED BY <1>1, <1>2, DecodeOnlyStep DEF StartFails, ClearPending

\* A write raises at most the error, and opens the recorder's own file.
LEMMA WriteStep == IInv /\ (WritePacket \/ WriteKeyframe) => IInv'
<1> SUFFICES ASSUME IInv, WritePacket \/ WriteKeyframe PROVE IInv'
  OBVIOUS
<1>1. ThreadOnly
  BY DEF WritePacket, WriteKeyframe
<1>2. ASSUME NEW r \in Recorder, NEW f, Written(r, f)
      PROVE  /\ recorder' = r /\ files' = f /\ thread' \in Thread
             /\ sink' \in Sink /\ sink'.requested = sink.requested
             /\ sink'.pending = sink.pending
  <2>1. thread' \in Thread
    BY <1>2, ThreadMoves DEF Written, ThreadPoint
  <2>2. sink' = [sink EXCEPT !.error = sink.error \/ r.errored] /\ recorder' = r /\ files' = f
    BY <1>2, Unchanged DEF Written, Sink
  <2>3. (sink.error \/ r.errored) \in BOOLEAN
    BY Unchanged DEF Sink, Recorder
  <2>4. /\ sink' \in Sink /\ sink'.requested = sink.requested /\ sink'.pending = sink.pending
    BY <2>2, <2>3, Unchanged DEF Sink
  <2> QED BY <2>1, <2>2, <2>4
<1>3. CASE Written(recorder, files)
  BY <1>1, <1>2, <1>3, Unchanged, DecodeOnlyStep
<1>4. CASE ~recorder.header /\ Written([recorder EXCEPT !.header = TRUE], OpenedFiles(recorder.path))
  <2> DEFINE r == [recorder EXCEPT !.header = TRUE]
             f == OpenedFiles(recorder.path)
  <2>1. r \in Recorder /\ r.path = recorder.path /\ r.header = TRUE
    BY Unchanged DEF Recorder
  <2>2. /\ f \in Files /\ \A p \in Paths \ {recorder.path} : f[p] = files[p]
    BY Unchanged DEF OpenedFiles, Files
  <2>3. Written(r, f)
    BY <1>4
  <2> HIDE DEF r, f
  <2>4. \A p \in Paths : files[p] # "open"
    BY <1>4 DEF IInv, OpenFilesAreOwned
  <2>5. recorder' = r /\ files' = f
    BY <1>2, <2>1, <2>3
  <2>6. OpenFilesAreOwned'
    BY <2>1, <2>2, <2>4, <2>5 DEF OpenFilesAreOwned
  <2> QED BY <1>1, <1>2, <2>1, <2>2, <2>3, <2>5, <2>6, DecodeStep
<1>5. CASE Written([recorder EXCEPT !.errored = TRUE], files)
  <2> DEFINE r == [recorder EXCEPT !.errored = TRUE]
  <2>1. r \in Recorder /\ r.path = recorder.path /\ r.header = recorder.header
    BY Unchanged DEF Recorder
  <2>2. Written(r, files)
    BY <1>5
  <2> HIDE DEF r
  <2>3. recorder' = r /\ files' = files
    BY <1>2, <2>1, <2>2
  <2>4. OpenFilesAreOwned'
    BY <2>1, <2>3 DEF IInv, OpenFilesAreOwned
  <2> QED BY <1>1, <1>2, <2>1, <2>2, <2>3, <2>4, Unchanged, DecodeStep
<1> QED BY <1>3, <1>4, <1>5 DEF WritePacket, WriteKeyframe

LEMMA EnvironmentStep == IInv /\ (WriterFails \/ DiskChanges \/ Elapse) => IInv'
<1> SUFFICES ASSUME IInv, WriterFails \/ DiskChanges \/ Elapse PROVE IInv'
  OBVIOUS
<1>1. CASE WriterFails
  <2>1. /\ recorder' = [recorder EXCEPT !.errored = TRUE]
        /\ UNCHANGED <<phase, control, entry, sink, thread, files, disk>>
    BY <1>1 DEF WriterFails
  <2>2. recorder' \in Recorder /\ recorder'.path = recorder.path
        /\ recorder'.header = recorder.header
    BY <2>1, Unchanged DEF Recorder
  <2>3. OpenFilesAreOwned'
    BY <2>1, <2>2 DEF IInv, OpenFilesAreOwned
  <2> QED BY <2>1, <2>2, <2>3, Unchanged, DecodeStep DEF ThreadOnly
<1>2. CASE DiskChanges
  BY <1>2 DEF DiskChanges, IInv, TypeOK, Requested, OfEntry, Busy, OpenFilesAreOwned
<1>3. CASE Elapse
  <2>1. /\ entry' = [entry EXCEPT !.age = entry.age + 1] /\ entry.age < MaxDuration
        /\ UNCHANGED <<phase, control, sink, recorder, thread, files, disk>>
        /\ entry.age \in 0 .. MaxDuration
    BY <1>3, Unchanged DEF Elapse, Entry
  <2>2. entry.age + 1 \in 0 .. MaxDuration
    BY <2>1, RecordingAssumption
  <2>3. entry' \in Entry /\ entry'.path = entry.path /\ entry'.state = entry.state
    BY <2>1, <2>2, Unchanged DEF Entry
  <2>4. TypeOK'
    BY <2>1, <2>3 DEF IInv, TypeOK
  <2> QED BY <2>1, <2>3, <2>4 DEF IInv, Requested, OfEntry, Busy, OpenFilesAreOwned
<1> QED BY <1>1, <1>2, <1>3

-----------------------------------------------------------------------------
(* The theorems. *)

LEMMA InitIInv == Init => IInv
<1> SUFFICES ASSUME Init PROVE IInv
  OBVIOUS
<1>1. TypeOK
  BY NewTypes DEF Init, TypeOK, ControlPoint, Recorder, Thread
<1>2. Requested
  BY NewTypes DEF Init, Requested
<1>3. OpenFilesAreOwned
  BY DEF Init, OpenFilesAreOwned
<1> QED BY <1>1, <1>2, <1>3 DEF IInv

LEMMA StepIInv == IInv /\ [Next]_vars => IInv'
<1> SUFFICES ASSUME IInv, [Next]_vars PROVE IInv'
  OBVIOUS
<1>1. CASE UNCHANGED vars
  BY <1>1 DEF vars, IInv, TypeOK, Requested, OfEntry, Busy, OpenFilesAreOwned
<1>2. CASE Resume
  BY <1>2, ConfirmStep, RolloverStep, ConnectionStep, ClosedForRebuildStep, ErasedStep DEF Resume
<1>3. CASE Decode
  BY <1>3, MovesStep, ServiceUnwantedStep, EndStep, StartOkStep, StartFailsStep, WriteStep
     DEF Decode
<1>4. CASE ComeUp \/ Reopen \/ BeginClose \/ Add
  BY <1>4, ConnectionStep
<1>5. CASE Throws
  BY <1>5, MovesStep
<1> QED BY <1>1, <1>2, <1>3, <1>4, <1>5, ToggleStep, TickStep, RemoveStep, EnvironmentStep
        DEF Next

\* IInv holds of every reachable state.
THEOREM Invariance == Spec => []IInv
  BY InitIInv, StepIInv, PTL DEF Spec

\* No request survives the segment it was made for: what the decode thread
\* may see between two handlers is the segment the controller shows
\* (RecordingController.cpp, FfmpegStreamSource.cpp:114-135).
THEOREM RequestsFollowTheEntry == Spec => []RequestFollowsEntry
<1>1. IInv => RequestFollowsEntry
  BY DEF IInv, Requested, OfEntry, RequestFollowsEntry
<1> QED BY <1>1, Invariance, PTL

\* An open file always has the recorder that will write its trailer
\* (finishRecorder, FfmpegStreamSource.cpp).
THEOREM OpenFilesHaveOwners == Spec => []OpenFilesAreOwned
<1>1. IInv => OpenFilesAreOwned
  BY DEF IInv
<1> QED BY <1>1, Invariance, PTL
=============================================================================
