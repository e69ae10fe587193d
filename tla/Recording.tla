----------------------------- MODULE Recording ------------------------------
(***************************************************************************)
(* The recording of one channel, across its three threads of control:      *)
(*                                                                         *)
(*   - the control thread: src/app/RecordingController.cpp, driven by the  *)
(*     user, the tick and the edges of the connection that src/ui/main.cpp *)
(*     derives from the snapshots;                                         *)
(*   - the decode thread: serviceRecording of                              *)
(*     src/infra/ffmpeg/FfmpegStreamSource.cpp, which alone owns the       *)
(*     recorder and learns of a request from a latch and a pending path;   *)
(*   - the recorder's writer thread, here only the moment its writes start *)
(*     to fail.                                                            *)
(*                                                                         *)
(* The connection is seen through the phases of ReconnectPolicy, plus      *)
(* "gone" for a channel that is not in the manager.  A path is the file of *)
(* one segment; makePath never gives out a path twice, here it takes one   *)
(* that nothing refers to any more.                                        *)
(***************************************************************************)
EXTENDS Integers, FiniteSets

CONSTANTS Paths,            \* segment files
          ReconcileGrace,   \* RecordingController::tick
          HealthyWindow,    \* kDiskHealthyResetWindow
          MaxDuration,      \* SegmentPolicy::maxDuration
          MaxStartFailures, \* kMaxStartFailures
          MaxDiskErrors,    \* kMaxDiskErrors
          ErrorsSurface,    \* a write error shows within HealthyWindow
          Closings          \* bound: the closes of the source that happen

NoPath == "no path"

\* There is always a path that the four places which hold one do not name.
ASSUME PathAssumption ==
    /\ NoPath \notin Paths
    /\ \A a, b, c, d \in Paths \cup {NoPath} : Paths \ {a, b, c, d} # {}

ASSUME RecordingAssumption ==
    /\ ReconcileGrace \in Nat /\ HealthyWindow \in Nat /\ MaxDuration \in Nat
    /\ MaxStartFailures \in Nat \ {0} /\ MaxDiskErrors \in Nat \ {0}
    /\ ErrorsSurface \in BOOLEAN
    /\ Closings \subseteq {"closeForFastWait", "closeForSlowWait", "closeForRestart",
                           "closeForRebuild", "closeForErase"}

VARIABLES phase,     \* of the connection
          control,   \* where the control thread is in a handler
          entry,     \* RecordingController::ChannelRec
          sink,      \* the members both threads use
          recorder,  \* the decode thread's recorder
          thread,    \* the decode thread
          files,     \* what became of each segment
          disk       \* "ok" or "full"

vars == <<phase, control, entry, sink, recorder, thread, files, disk>>

ControlPoint == {"ready", "confirm", "rollover", "closeForFastWait",
                 "closeForSlowWait", "closeForRestart", "closeForRebuild",
                 "closeForErase"}

ThreadPoint == {"none", "opening", "reading", "service", "wanted", "path",
                "startFailed", "ended"}

Entry == [state         : {"Idle", "Starting", "Recording"},
          armed         : BOOLEAN,
          age           : 0 .. MaxDuration,        \* of the segment
          path          : Paths \cup {NoPath},     \* currentPath
          startFailures : 0 .. MaxStartFailures,
          retryStart    : BOOLEAN,
          diskErrors    : 0 .. MaxDiskErrors]

Sink == [requested : BOOLEAN, pending : Paths \cup {NoPath},
         recording : BOOLEAN, error : BOOLEAN]

NoRecorder == [path |-> NoPath, header |-> FALSE, errored |-> FALSE]

TypeOK ==
    /\ phase \in {"gone", "trying", "up", "fastWait", "slowWait"}
    /\ control \in ControlPoint
    /\ entry \in Entry
    /\ sink \in Sink
    /\ recorder \in [path : Paths \cup {NoPath}, header : BOOLEAN, errored : BOOLEAN]
    /\ thread \in [at : ThreadPoint, packet : BOOLEAN, path : Paths \cup {NoPath}]
    /\ files \in [Paths -> {"none", "open", "closed", "overwritten"}]
    /\ disk \in {"ok", "full"}

NewEntry == [state |-> "Idle", armed |-> FALSE, age |-> 0, path |-> NoPath,
             startFailures |-> 0, retryStart |-> FALSE,
             diskErrors |-> 0]

NewSink == [requested |-> FALSE, pending |-> NoPath, recording |-> FALSE,
            error |-> FALSE]

NoThread == [at |-> "none", packet |-> FALSE, path |-> NoPath]
NewThread == [NoThread EXCEPT !.at = "opening"]

Init ==
    /\ phase = "trying"
    /\ control = "ready"
    /\ entry = NewEntry
    /\ sink = NewSink
    /\ recorder = NoRecorder
    /\ thread = NewThread
    /\ files = [p \in Paths |-> "none"]
    /\ disk = "ok"

-----------------------------------------------------------------------------
(* The sink, as the control thread calls it. *)

Exists == phase # "gone"

\* true from the request on, before the recorder is open.
IsRecording == Exists /\ (sink.recording \/ sink.requested)
HasRecordingError == Exists /\ sink.error

InUse == {entry.path, sink.pending, recorder.path, thread.path}
FreshPath == CHOOSE p \in Paths : p \notin InUse

\* A file that nothing refers to is history; its name stands for a new one.
FilesInUse == [p \in Paths |-> IF p \in InUse THEN files[p] ELSE "none"]

RequestAt(p) == [sink EXCEPT !.requested = TRUE, !.pending = p]

MutWithdrawn == [sink EXCEPT !.pending = NoPath]

Withdrawn == [sink EXCEPT !.requested = FALSE, !.pending = NoPath]

-----------------------------------------------------------------------------
(* RecordingController. *)

Capped(n, limit) == IF n < limit THEN n + 1 ELSE n

\* doStart, up to the question whether the sink records by now.
Start(e) ==
    IF Exists
    THEN /\ sink' = RequestAt(FreshPath)
         /\ files' = FilesInUse
         /\ entry' = [e EXCEPT !.path = FreshPath, !.age = 0, !.startFailures = 0,
                               !.retryStart = FALSE]
         /\ control' = "confirm"
    ELSE /\ entry' = [e EXCEPT !.state = "Idle", !.path = NoPath, !.age = 0,
                         !.startFailures = Capped(@, MaxStartFailures),
                         !.armed = @ /\ e.startFailures + 1 < MaxStartFailures]
         /\ control' = "ready"
         /\ UNCHANGED <<sink, files>>

Confirm ==
    /\ control = "confirm"
    /\ control' = "ready"
    /\ entry' = [entry EXCEPT !.state = IF IsRecording THEN "Recording" ELSE "Starting"]
    /\ UNCHANGED <<phase, sink, recorder, thread, files, disk>>

\* The end of a segment: notify(Idle) after stopRecording.
Idle(e) == [e EXCEPT !.state = "Idle", !.path = NoPath, !.age = 0]

Stopped(e) == Idle([e EXCEPT !.retryStart = FALSE])

Busy(e) == e.state \in {"Recording", "Starting"}

Toggle ==
    /\ control = "ready"
    /\ IF entry.armed \/ Busy(entry)
       THEN /\ entry' = Stopped([entry EXCEPT !.armed = FALSE])
            /\ sink' = IF Exists THEN Withdrawn ELSE sink
            /\ UNCHANGED <<control, files>>
       ELSE Start([entry EXCEPT !.armed = TRUE])
    /\ UNCHANGED <<phase, recorder, thread, disk>>

\* A drop: the segment ends, the intent stays.
OnReconnect ==
    IF entry.armed /\ Busy(entry)
    THEN entry' = Stopped(entry) /\ sink' = Withdrawn
    ELSE UNCHANGED <<entry, sink>>

\* A recovery: an armed channel starts a new segment.
OnStreaming ==
    IF entry.armed /\ ~Busy(entry)
    THEN Start(entry)
    ELSE UNCHANGED <<entry, sink, files, control>>

TickRetry ==
    /\ entry.armed /\ entry.state = "Idle" /\ entry.retryStart
    /\ Start(entry)

TickStarting ==
    /\ entry.state = "Starting"
    /\ CASE IsRecording ->
              entry' = [entry EXCEPT !.state = "Recording"] /\ UNCHANGED sink
         [] ~IsRecording /\ entry.age >= ReconcileGrace ->
              entry' = Idle(entry) /\ sink' = IF Exists THEN Withdrawn ELSE sink
         [] OTHER -> UNCHANGED <<entry, sink>>
    /\ UNCHANGED <<control, files>>

SinkLost == entry.age >= ReconcileGrace /\ ~IsRecording

\* The sink gave the recording up by itself.
TickReconcile ==
    /\ entry.state = "Recording" /\ SinkLost
    /\ entry' = Idle(entry)
    /\ sink' = IF Exists THEN Withdrawn ELSE sink
    /\ UNCHANGED <<control, files>>

MutDiskErrorCounted(e) == [e EXCEPT !.retryStart = TRUE]

\* MaxDiskErrors segments in a row that ended in an error lower the intent.
DiskErrorCounted(e) ==
    IF e.armed /\ e.diskErrors + 1 >= MaxDiskErrors
    THEN [e EXCEPT !.diskErrors = Capped(@, MaxDiskErrors), !.armed = FALSE,
                   !.retryStart = FALSE]
    ELSE [e EXCEPT !.diskErrors = Capped(@, MaxDiskErrors), !.retryStart = TRUE]

TickDiskError ==
    /\ entry.state = "Recording" /\ ~SinkLost /\ HasRecordingError
    /\ entry' = Idle(DiskErrorCounted(entry))
    /\ sink' = Withdrawn
    /\ UNCHANGED <<control, files>>

\* A lasting segment clears the error count; one that is long enough is
\* followed by the next one.
TickHealthy ==
    /\ entry.state = "Recording" /\ ~SinkLost /\ ~HasRecordingError
    /\ LET e == IF entry.age >= HealthyWindow /\ IsRecording
                THEN [entry EXCEPT !.diskErrors = 0] ELSE entry
       IN IF entry.age >= MaxDuration
          THEN /\ entry' = [e EXCEPT !.state = "Idle", !.age = 0, !.retryStart = TRUE]
               /\ sink' = IF Exists THEN Withdrawn ELSE sink
               /\ control' = "rollover"
          ELSE entry' = e /\ UNCHANGED <<sink, control>>
    /\ UNCHANGED files

Rollover ==
    /\ control = "rollover"
    /\ Start(entry)
    /\ UNCHANGED <<phase, recorder, thread, disk>>

Tick ==
    /\ control = "ready"
    /\ TickRetry \/ TickStarting \/ TickReconcile \/ TickDiskError \/ TickHealthy
    /\ UNCHANGED <<phase, recorder, thread, disk>>

-----------------------------------------------------------------------------
(* The connection, as the control thread drives it.                        *)

\* The first packet's event is handled.
ComeUp ==
    /\ control = "ready" /\ phase = "trying" /\ thread.packet
    /\ phase' = "up"
    /\ OnStreaming
    /\ UNCHANGED <<recorder, thread, disk>>

\* The end of a wait: a new decode thread.
Reopen ==
    /\ control = "ready" /\ phase \in {"fastWait", "slowWait"}
    /\ phase' = "trying"
    /\ thread' = NewThread
    /\ UNCHANGED <<control, entry, sink, recorder, files, disk>>

\* A failure or a new URL: close the source.
BeginClose ==
    /\ control = "ready" /\ phase \in {"trying", "up"}
    /\ control' \in Closings \ {"closeForErase"}
    /\ UNCHANGED <<phase, entry, sink, recorder, thread, files, disk>>

Closing == control \notin {"ready", "confirm", "rollover"}

Running == thread.at \notin {"none", "ended"}

Joined == thread.at \in {"none", "ended"}

\* Reconnecting or Stalled, the only edge that tells the recording.
ClosedForFastWait ==
    /\ control = "closeForFastWait" /\ Joined
    /\ control' = "ready"
    /\ phase' = "fastWait"
    /\ thread' = NoThread
    /\ OnReconnect
    /\ UNCHANGED <<recorder, files, disk>>

ClosedForSlowWait ==
    /\ control = "closeForSlowWait" /\ Joined
    /\ control' = "ready"
    /\ phase' = "slowWait"
    /\ thread' = NoThread
    /\ UNCHANGED <<entry, sink, recorder, files, disk>>

ClosedForRestart ==
    /\ control = "closeForRestart" /\ Joined
    /\ control' = "ready"
    /\ phase' = "trying"
    /\ thread' = NewThread
    /\ UNCHANGED <<entry, sink, recorder, files, disk>>

FinishedFiles ==
    [p \in Paths |-> IF p = recorder.path /\ files[p] = "open" THEN "closed" ELSE files[p]]

\* The source is destroyed, its recorder with it; a new one starts afresh.
SourceDestroyed ==
    /\ sink' = NewSink
    /\ recorder' = NoRecorder
    /\ files' = FinishedFiles

\* The other relay mode: another source.
ClosedForRebuild ==
    /\ control = "closeForRebuild" /\ Joined
    /\ control' = "ready"
    /\ phase' = "trying"
    /\ thread' = NewThread
    /\ SourceDestroyed
    /\ UNCHANGED <<entry, disk>>

\* onChannelRemoved, then removeChannel.
Remove ==
    /\ control = "ready" /\ Exists
    /\ control' \in Closings \cap {"closeForErase"}
    /\ entry' = NewEntry
    /\ sink' = IF Busy(entry) THEN Withdrawn ELSE sink
    /\ UNCHANGED <<phase, recorder, thread, files, disk>>

Erased ==
    /\ control = "closeForErase" /\ Joined
    /\ control' = "ready"
    /\ phase' = "gone"
    /\ thread' = NoThread
    /\ SourceDestroyed
    /\ UNCHANGED <<entry, disk>>

Add ==
    /\ control = "ready" /\ phase = "gone"
    /\ phase' = "trying"
    /\ thread' = NewThread
    /\ UNCHANGED <<control, entry, sink, recorder, files, disk>>

-----------------------------------------------------------------------------
(* The decode thread. *)

Step(at) == thread' = [thread EXCEPT !.at = at]

ThreadOnly == UNCHANGED <<phase, control, entry, disk>>

OpenOk ==
    /\ thread.at = "opening" /\ Step("reading")
    /\ ThreadOnly /\ UNCHANGED <<sink, recorder, files>>

\* The early returns of run: no recorder is finished on them.
OpenFails ==
    /\ thread.at = "opening" /\ Step("ended")
    /\ ThreadOnly /\ UNCHANGED <<sink, recorder, files>>

\* while (!m_stop): a packet read just before the stop is one of before.
Packet ==
    /\ thread.at = "reading" /\ ~Closing
    /\ thread' = [thread EXCEPT !.at = "service", !.packet = TRUE]
    /\ ThreadOnly /\ UNCHANGED <<sink, recorder, files>>

MutFinishForgets == recorder' = NoRecorder /\ UNCHANGED <<sink, files>>

\* finishRecorder: the trailer is written, the mirrors are cleared.
Finish ==
    /\ recorder' = NoRecorder
    /\ files' = FinishedFiles
    /\ sink' = [sink EXCEPT !.recording = FALSE, !.error = FALSE]

ServiceUnwanted ==
    /\ thread.at = "service" /\ ~sink.requested
    /\ IF recorder # NoRecorder THEN Finish ELSE UNCHANGED <<sink, recorder, files>>
    /\ Step("reading")
    /\ ThreadOnly

ServiceWanted ==
    /\ thread.at = "service" /\ sink.requested
    /\ Step("wanted")
    /\ ThreadOnly /\ UNCHANGED <<sink, recorder, files>>

ServicePath ==
    /\ thread.at = "wanted"
    /\ thread' = IF sink.pending = NoPath
                 THEN [thread EXCEPT !.at = "reading"]
                 ELSE [thread EXCEPT !.at = "path", !.path = sink.pending]
    /\ ThreadOnly /\ UNCHANGED <<sink, recorder, files>>

\* Another path is asked for: the segment ends.
SwitchSegment ==
    /\ thread.at = "path" /\ recorder.path \notin {NoPath, thread.path}
    /\ Finish
    /\ UNCHANGED thread
    /\ ThreadOnly

StartOk ==
    /\ thread.at = "path" /\ recorder = NoRecorder
    /\ recorder' = [NoRecorder EXCEPT !.path = thread.path]
    /\ sink' = [sink EXCEPT !.recording = TRUE, !.error = FALSE]
    /\ ThreadOnly /\ UNCHANGED <<thread, files>>

\* The latch is lowered and the path cleared, one after the other.
StartFails ==
    /\ thread.at = "path" /\ recorder = NoRecorder
    /\ sink' = [sink EXCEPT !.requested = FALSE]
    /\ Step("startFailed")
    /\ ThreadOnly /\ UNCHANGED <<recorder, files>>

ClearPending ==
    /\ thread.at = "startFailed"
    /\ sink' = [sink EXCEPT !.pending = NoPath]
    /\ thread' = [thread EXCEPT !.at = "reading", !.path = NoPath]
    /\ ThreadOnly /\ UNCHANGED <<recorder, files>>

\* The file is opened, and truncated, at the first keyframe; opening may fail.
Written(r, f) ==
    /\ recorder' = r
    /\ files' = f
    /\ sink' = [sink EXCEPT !.error = @ \/ r.errored]
    /\ thread' = [thread EXCEPT !.at = "reading", !.path = NoPath]

OpenedFiles(p) ==
    [files EXCEPT ![p] = IF @ = "none" THEN "open" ELSE "overwritten"]

WritePacket ==
    /\ thread.at = "path" /\ recorder.path = thread.path
    /\ Written(recorder, files)
    /\ ThreadOnly

WriteKeyframe ==
    /\ thread.at = "path" /\ recorder.path = thread.path
    /\ ~recorder.header /\ ~recorder.errored
    /\ \/ Written([recorder EXCEPT !.header = TRUE], OpenedFiles(recorder.path))
       \/ /\ disk = "full"
          /\ Written([recorder EXCEPT !.errored = TRUE], files)
    /\ ThreadOnly

\* The end of the loop, by an error of the source or a close.
Ends ==
    /\ thread.at = "reading"
    /\ Finish
    /\ thread' = [thread EXCEPT !.at = "ended", !.path = NoPath]
    /\ ThreadOnly

\* An exception leaves the recorder as it is.
Throws ==
    /\ thread.at \in {"reading", "service", "path"}
    /\ thread' = [thread EXCEPT !.at = "ended", !.path = NoPath]
    /\ ThreadOnly /\ UNCHANGED <<sink, recorder, files>>

Decode ==
    \/ OpenOk \/ OpenFails \/ Packet \/ ServiceUnwanted \/ ServiceWanted
    \/ ServicePath \/ SwitchSegment \/ StartOk \/ StartFails \/ ClearPending
    \/ WritePacket \/ WriteKeyframe \/ Ends

-----------------------------------------------------------------------------
(* The disk and time. *)

WriterFails ==
    /\ disk = "full" /\ recorder.header /\ ~recorder.errored
    /\ recorder' = [recorder EXCEPT !.errored = TRUE]
    /\ UNCHANGED <<phase, control, entry, sink, thread, files, disk>>

DiskChanges ==
    /\ disk' \in {"ok", "full"} \ {disk}
    /\ UNCHANGED <<phase, control, entry, sink, recorder, thread, files>>

Elapse ==
    /\ entry.state # "Idle" /\ entry.age < MaxDuration
    /\ ErrorsSurface /\ disk = "full" /\ sink.pending # NoPath =>
            \/ entry.age + 1 < HealthyWindow
            \/ sink.error /\ recorder.path = entry.path
    /\ entry' = [entry EXCEPT !.age = @ + 1]
    /\ UNCHANGED <<phase, control, sink, recorder, thread, files, disk>>

Resume == Confirm \/ Rollover \/ ClosedForFastWait \/ ClosedForSlowWait
          \/ ClosedForRestart \/ ClosedForRebuild \/ Erased

Next == Toggle \/ Tick \/ Resume \/ ComeUp \/ Reopen \/ BeginClose \/ Remove \/ Add
        \/ Decode \/ Throws \/ WriterFails \/ DiskChanges \/ Elapse

Spec == Init /\ [][Next]_vars

\* The control thread finishes its handlers and ticks; the decode thread gets
\* on, and a stream has keyframes; a full disk fails the writes; time goes by.
FairSpec ==
    Spec /\ WF_vars(Resume) /\ WF_vars(Tick) /\ WF_vars(Decode) /\ SF_vars(WriteKeyframe)
         /\ WF_vars(WriterFails) /\ WF_vars(Elapse)

-----------------------------------------------------------------------------
(* Safety. *)

\* The request the decode thread sees is the segment the controller shows: no
\* request survives the segment it was made for, whichever way that ended.
RequestFollowsEntry ==
    control \in {"ready", "closeForErase"} /\ sink.requested =>
        Busy(entry) /\ sink.pending \in {entry.path, NoPath}

\* A file that is open has the recorder that will write its trailer.
OpenFilesAreOwned ==
    \A p \in Paths : files[p] = "open" => recorder.path = p /\ recorder.header

\* What main.cpp says of a new segment: it never overwrites the last one.
SegmentsAreKept == \A p \in Paths : files[p] # "overwritten"

-----------------------------------------------------------------------------
(* Liveness. *)

\* Stop stops: once the controller is Idle, the recorder closes its file or a
\* new segment begins, unless the decode thread dies of an exception.
StopStops ==
    (entry.state = "Idle" /\ recorder # NoRecorder /\ Running) ~>
        (recorder = NoRecorder \/ entry.state # "Idle" \/ ~Running)

\* No endless churn: on a disk that stays full, a stream that stays up and
\* recorders that start, the recording gives up unless the user insists.
FullDiskGivesUp ==
    /\ <>[](disk = "full")
    /\ <>[](phase = "up" /\ Running)
    /\ <>[][~(Toggle \/ StartFails)]_vars
    => <>[]~sink.requested
=============================================================================
