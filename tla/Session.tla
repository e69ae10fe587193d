------------------------------ MODULE Session -------------------------------
(***************************************************************************)
(* One channel at run time: its controller, the executor's task queue and  *)
(* control thread, the marshalling proxy, the decode thread of the source  *)
(* and the tile that paints its frames.                                    *)
(*                                                                         *)
(*   src/app/MarshallingStreamSource.h   the proxy, open and close         *)
(*   src/infra/ffmpeg/FfmpegStreamSource.cpp   open, close and run         *)
(*   src/infra/system/ControlExecutor.cpp      queue first, then the tick  *)
(*   src/app/ChannelManager.cpp, src/ui/main.cpp   commands by channel id  *)
(*                                                                         *)
(* `session' tells an event of the session that is open from one of an     *)
(* earlier session; the program keeps no such mark, it is there for the    *)
(* properties and for what detach reaches.                                 *)
(***************************************************************************)
EXTENDS ChannelController, Sequences

CONSTANTS OpenErrors,   \* reasons an attempt to open ends with
          MaxQueue,     \* bound: tasks queued by the decode thread and the tile
          MaxCommands   \* bound: commands of the user and of the relay

ASSUME SessionAssumption ==
    /\ OpenErrors \subseteq DiagnosisReason \ {"None"}
    /\ MaxQueue \in Nat
    /\ MaxCommands \in Nat

VARIABLES c,        \* the controller
          exists,   \* the channel is in the manager
          queue,    \* the executor's tasks
          control,  \* what the control thread is doing
          thread,   \* the decode thread
          slot,     \* whose frame the tile has not painted yet
          left      \* commands left

vars == <<c, exists, queue, control, thread, slot, left>>

SourceEvents == {"sessionOpened", "packet", "decoded", "error"}
Commands == {"update", "rebuild", "retry", "remove", "add", "relayUp", "relayDown"}

Task == [kind : SourceEvents \cup Commands \cup {"presented", "restore"},
         reason : DiagnosisReason, session : {"this", "old"}, detached : BOOLEAN]

EventOf(kind, reason) ==
    [kind |-> kind, reason |-> reason, session |-> "this", detached |-> FALSE]
TaskOf(kind) == EventOf(kind, "None")

\* While the control thread closes the source it is blocked in join; then it
\* goes on with the rest of its task.
ControlPoint == {"ready", "close", "closeThenConnect", "closeThenRebuild",
                 "closeThenErase"}

ThreadPoint == {"none", "opening", "reading", "decoding", "publishing", "closing"}

\* passed: a check of m_stop may have been passed before the close, so one more
\* event may still be posted.
NoThread == [at |-> "none", stop |-> TRUE, passed |-> FALSE]
NewThread == [at |-> "opening", stop |-> FALSE, passed |-> TRUE]

TypeOK ==
    /\ c \in Controller
    /\ exists \in BOOLEAN
    /\ queue \in Seq(Task)
    /\ control \in ControlPoint
    /\ thread \in [at : ThreadPoint, stop : BOOLEAN, passed : BOOLEAN]
    /\ slot \in {"none", "this", "old"}
    /\ left \in 0 .. MaxCommands

\* A channel of the saved list; restore connects it when it is autoConnect.
Init ==
    /\ \E useRelay \in BOOLEAN : c = NewController(useRelay)
    /\ queue \in {<<>>, <<TaskOf("restore")>>}
    /\ exists = TRUE
    /\ control = "ready"
    /\ thread = NoThread
    /\ slot = "none"
    /\ left = MaxCommands

-----------------------------------------------------------------------------
(* The control thread: MarshallingStreamSource called through the          *)
(* controller.                                                             *)

Aging(tasks) == [i \in DOMAIN tasks |-> [tasks[i] EXCEPT !.session = "old"]]

\* open: a new proxy, a new decode thread.  What is queued is of the past now.
Open(rest) ==
    /\ queue' = Aging(rest)
    /\ thread' = NewThread
    /\ slot' = IF slot = "none" THEN "none" ELSE "old"
    /\ control' = "ready"

\* close, up to the join.
Close(rest, next) ==
    /\ queue' = rest
    /\ thread' = [thread EXCEPT !.stop = TRUE]
    /\ control' = next
    /\ UNCHANGED slot

\* Make the call the controller asks for.
CarryOut(result, rest) ==
    /\ c' = result.controller
    /\ CASE result.action = "OpenSource" -> Open(rest)
         [] result.action = "CloseSource" -> Close(rest, "close")
         [] OTHER -> queue' = rest /\ UNCHANGED <<control, thread, slot>>
    /\ UNCHANGED <<exists, left>>

\* close, after the join: the queued events of this proxy are detached.
MutNotDetached(tasks) == tasks

Detached(tasks) ==
    [i \in DOMAIN tasks |->
        [tasks[i] EXCEPT !.detached = @ \/ ( /\ tasks[i].kind \in SourceEvents
                                             /\ tasks[i].session = "this")]]

Finished == thread.at = "none"

MutJoinedEarly == control # "ready"

Joined == control # "ready" /\ Finished

Closed ==
    /\ Joined
    /\ control = "close"
    /\ control' = "ready"
    /\ queue' = Detached(queue)
    /\ UNCHANGED <<c, exists, thread, slot, left>>

\* updateChannel with a new URL: disconnect, setUrl, connect.
ClosedThenConnect ==
    /\ Joined
    /\ control = "closeThenConnect"
    /\ c' = Connect(c).controller
    /\ Open(Detached(queue))
    /\ UNCHANGED <<exists, left>>

\* updateChannel with the other relay mode: disconnect, destroy controller and
\* source, make them again, connect.
ClosedThenRebuild ==
    /\ Joined
    /\ control = "closeThenRebuild"
    /\ c' = Connect(NewController(~c.useRelay)).controller
    /\ queue' = Aging(Detached(queue))
    /\ thread' = NewThread
    /\ slot' = "none"
    /\ control' = "ready"
    /\ UNCHANGED <<exists, left>>

\* removeChannel: disconnect, destroy controller and source.
ClosedThenErase ==
    /\ Joined
    /\ control = "closeThenErase"
    /\ exists' = FALSE
    /\ queue' = Detached(queue)
    /\ slot' = "none"
    /\ control' = "ready"
    /\ UNCHANGED <<c, thread, left>>

-----------------------------------------------------------------------------
(* The control thread: one task. *)

Begin(kind) == control = "ready" /\ queue # <<>> /\ Head(queue).kind = kind

\* A task posted for a channel id that is not in the manager does nothing.
Skip == queue' = Tail(queue) /\ UNCHANGED <<c, exists, control, thread, slot, left>>

HandleEvent(kind, result) ==
    /\ Begin(kind)
    /\ IF Head(queue).detached THEN Skip ELSE CarryOut(result, Tail(queue))

HandleOpened == HandleEvent("sessionOpened", OnSessionOpened(c))
HandlePacket == HandleEvent("packet", OnPacketReceived(c))
HandleDecoded == HandleEvent("decoded", OnFrameDecoded(c))
HandleError == HandleEvent("error", OnSourceError(c, Head(queue).reason))

HandleById(kind, result) ==
    /\ Begin(kind)
    /\ IF exists THEN CarryOut(result, Tail(queue)) ELSE Skip

HandlePresented == HandleById("presented", OnFramePresented(c))
HandleRestore == HandleById("restore", Connect(c))
HandleRetry == HandleById("retry", Retry(c))
HandleRelayUp == HandleById("relayUp", OnRelayHealth(c, TRUE, "None"))
HandleRelayDown == HandleById("relayDown", OnRelayHealth(c, FALSE, "RelayNoSource"))

\* The commands that start with a disconnect.
DisconnectFirst(kind, next) ==
    /\ Begin(kind)
    /\ IF exists
       THEN /\ c' = Disconnect(c).controller
            /\ Close(Tail(queue), next)
            /\ UNCHANGED <<exists, left>>
       ELSE Skip

\* In relay mode a new URL does not touch the connection.
HandleUpdate ==
    \/ ~c.useRelay /\ DisconnectFirst("update", "closeThenConnect")
    \/ c.useRelay /\ Begin("update") /\ Skip
HandleRebuild == DisconnectFirst("rebuild", "closeThenRebuild")
HandleRemove == DisconnectFirst("remove", "closeThenErase")

\* The id of a removed channel can be given to the next one.
HandleAdd ==
    /\ Begin("add")
    /\ IF exists
       THEN Skip
       ELSE /\ exists' = TRUE
            /\ \E useRelay \in BOOLEAN : c' = Connect(NewController(useRelay)).controller
            /\ Open(Tail(queue))
            /\ UNCHANGED left

\* The tick runs only when the queue is empty.
HandleTick ==
    /\ control = "ready"
    /\ queue = <<>>
    /\ exists
    /\ CarryOut(ControllerTick(c), queue)

Control ==
    \/ Closed \/ ClosedThenConnect \/ ClosedThenRebuild \/ ClosedThenErase
    \/ HandleOpened \/ HandlePacket \/ HandleDecoded \/ HandleError
    \/ HandlePresented \/ HandleRestore \/ HandleRetry
    \/ HandleRelayUp \/ HandleRelayDown
    \/ HandleUpdate \/ HandleRebuild \/ HandleRemove \/ HandleAdd

-----------------------------------------------------------------------------
(* The decode thread: FfmpegStreamSource::run. *)

At(point) == thread.at = point

\* if (!m_stop) listener->...: a check, then a post.  A close between the two
\* lets one event through.
Report(event, next) ==
    /\ \/ /\ ~thread.stop \/ thread.passed
          /\ queue' = Append(queue, event)
          /\ thread' = [thread EXCEPT !.at = next, !.passed = ~thread.stop]
       \/ /\ thread.stop
          /\ thread' = [thread EXCEPT !.at = next, !.passed = FALSE]
          /\ UNCHANGED queue
    /\ UNCHANGED <<c, exists, control, slot, left>>

Goto(next) ==
    /\ thread' = [thread EXCEPT !.at = next]
    /\ UNCHANGED <<c, exists, queue, control, slot, left>>

OpenFails ==
    /\ At("opening")
    /\ \E reason \in OpenErrors : Report(EventOf("error", reason), "closing")

OpenSucceeds == At("opening") /\ Report(TaskOf("sessionOpened"), "reading")

\* An error, the end of the stream, or the interrupt of a close.
ReadFails == At("reading") /\ Report(EventOf("error", "NoPackets"), "closing")

ReadPacket ==
    /\ At("reading")
    /\ Len(queue) < MaxQueue
    /\ Report(TaskOf("packet"), "decoding")

\* while (!m_stop)
MutNextRound == "reading"

NextRound == IF thread.stop THEN "closing" ELSE "reading"

DecodeNothing == At("decoding") /\ Goto(NextRound)
DecodeFrame ==
    /\ At("decoding")
    /\ Len(queue) < MaxQueue
    /\ Report(TaskOf("decoded"), "publishing")
DecodeFails == At("decoding") /\ Report(EventOf("error", "DecodeError"), "closing")

Publish ==
    /\ At("publishing")
    /\ slot' = "this"
    /\ thread' = [thread EXCEPT !.at = NextRound]
    /\ UNCHANGED <<c, exists, queue, control, left>>

DropFrame == At("publishing") /\ Goto(NextRound)

\* Anything on the way may throw; the boundary reports it.
MutThrowSilently ==
    /\ \E point \in {"opening", "reading", "decoding", "publishing"} : At(point)
    /\ Goto("none")

Throw ==
    /\ \E point \in {"opening", "reading", "decoding", "publishing"} : At(point)
    /\ Report(EventOf("error", "DecodeError"), "none")

\* The teardown handshake, within its grace.
Teardown == At("closing") /\ Goto("none")

Decode ==
    \/ OpenFails \/ OpenSucceeds \/ ReadFails \/ ReadPacket
    \/ DecodeNothing \/ DecodeFrame \/ DecodeFails \/ Publish \/ DropFrame
    \/ Throw \/ Teardown

-----------------------------------------------------------------------------
(* The environment. *)

\* The tile paints the latest frame once and reports it by channel id.
Paint ==
    /\ slot # "none"
    /\ Len(queue) < MaxQueue
    /\ queue' = Append(queue, [TaskOf("presented") EXCEPT !.session = slot])
    /\ slot' = "none"
    /\ UNCHANGED <<c, exists, control, thread, left>>

Command ==
    /\ left > 0
    /\ left' = left - 1
    /\ \E kind \in Commands : queue' = Append(queue, TaskOf(kind))
    /\ UNCHANGED <<c, exists, control, thread, slot>>

Elapse ==
    /\ c' = [c EXCEPT !.sm = Aged(@)]
    /\ UNCHANGED <<exists, queue, control, thread, slot, left>>

Next == Control \/ HandleTick \/ Decode \/ Paint \/ Command \/ Elapse

Spec == Init /\ [][Next]_vars

\* The control thread serves its queue and ticks; FFmpeg's calls return, by
\* their socket timeout or the interrupt; time goes by.
FairSpec == Spec /\ WF_vars(Control) /\ WF_vars(HandleTick) /\ WF_vars(Decode)
                 /\ WF_vars(Elapse)

-----------------------------------------------------------------------------
(* Safety. *)

\* An event that will reach the controller is one of the session that is open:
\* nothing an earlier source had to say is heard after its close, and nothing
\* reaches a controller that was destroyed.
OnlyThisSessionIsHeard ==
    control = "ready" =>
        \A i \in DOMAIN queue :
            queue[i].kind \in SourceEvents /\ ~queue[i].detached =>
                queue[i].session = "this" /\ c.sourceAlive /\ exists

\* No decode thread outlives its session: whenever the control thread is not
\* inside close, a running thread is the one of the attempt or stream the
\* state machine is in.
NoGhostSession ==
    control = "ready" /\ ~Finished =>
        /\ ~thread.stop
        /\ exists
        /\ c.sm.state \in {"Connecting", "SessionOpen", "Streaming"}

\* The diagnosis fits the state: a wait names the stage that failed and why,
\* and a stream has reached the packet stage.
HealthExplainsState ==
    /\ c.sm.state \in {"Reconnecting", "Stalled", "Failed"} =>
          /\ c.failedReason # "None"
          /\ \E s \in HealthStage : c.health[s] = "Failed"
    /\ c.sm.state = "Streaming" =>
          c.health[RtspSession] = "Ok" /\ c.health[PacketFlow] = "Ok"

\* The channel as a whole is a connection: all it does to the state machine
\* and the source is a behaviour of Connection.
Machinery == INSTANCE Connection WITH
    m <- c.sm, source <- IF c.sourceAlive THEN "open" ELSE "closed",
    SourceErrors <- DiagnosisReason
ImplementsConnection == Machinery!Spec

-----------------------------------------------------------------------------
(* Liveness. *)

\* No attempt hangs: Connecting has no timer of its own and relies on the
\* decode thread to report how it ended.
AttemptsEnd == c.sm.state = "Connecting" ~> c.sm.state # "Connecting"

\* close returns.
ClosingEnds == control # "ready" ~> control = "ready"

\* A channel that waits is tried again, unless it is removed.
WaitsEnd ==
    c.sm.state \in {"Reconnecting", "Stalled", "Failed"} ~>
        c.sm.state \in {"Connecting", "Idle"}
=============================================================================
