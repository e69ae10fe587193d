------------------------- MODULE ChannelController --------------------------
(***************************************************************************)
(* src/app/ChannelController.{h,cpp} with src/domain/health/StreamHealth.h: *)
(* the orchestrator of one channel.  It feeds the state machine, keeps the *)
(* six diagnosis stages, and calls the source.                             *)
(*                                                                         *)
(* A controller is a record; every handler returns the new record and the  *)
(* call made to the source, which is the state machine's action.  Only the *)
(* control thread touches a controller, so what a handler does before and  *)
(* after its call to the source is one value.  The traffic counters of the *)
(* snapshot are left out.                                                  *)
(***************************************************************************)
EXTENDS ConnectionStateMachine

DeviceReach == 0
RelayIntake == 1
RtspSession == 2
PacketFlow  == 3
Decoding    == 4
Presenting  == 5

HealthStage == DeviceReach .. Presenting

StageState == {"Unknown", "Ok", "Failed", "NotApplicable"}

Controller == [sm           : Machine,
               sourceAlive  : BOOLEAN,
               health       : [HealthStage -> StageState],
               failedReason : DiagnosisReason,
               useRelay     : BOOLEAN]

NewController(useRelay) ==
    [sm           |-> InitialMachine,
     sourceAlive  |-> FALSE,
     health       |-> [s \in HealthStage |->
                          IF s = RelayIntake /\ ~useRelay THEN "NotApplicable"
                                                          ELSE "Unknown"],
     failedReason |-> "None",
     useRelay     |-> useRelay]

-----------------------------------------------------------------------------
(* StreamHealth. *)

\* Every applicable stage up to stage is reached.
MarkReached(c, stage) ==
    [c EXCEPT !.health = [s \in HealthStage |->
        IF s <= stage /\ @[s] # "NotApplicable" THEN "Ok" ELSE @[s]]]

MarkFailed(c, stage, reason) ==
    [c EXCEPT !.health[stage] = "Failed", !.failedReason = reason]

ResetHealth(c) ==
    [c EXCEPT !.health = [s \in HealthStage |->
                  IF @[s] = "NotApplicable" THEN @[s] ELSE "Unknown"],
              !.failedReason = "None"]

-----------------------------------------------------------------------------
(* Carrying out a transition. *)

Result(c, action) == [controller |-> c, action |-> action]
Ignored(c) == Result(c, "None")

MutApplyKeepsAlive(c, t) ==
    LET d == [c EXCEPT !.sm = t.machine]
    IN CASE t.action = "OpenSource" ->
                Result([ResetHealth(d) EXCEPT !.sourceAlive = TRUE], t.action)
         [] OTHER -> Result(d, t.action)

Apply(c, t) ==
    LET d == [c EXCEPT !.sm = t.machine]
    IN CASE t.action = "OpenSource" ->
                Result([ResetHealth(d) EXCEPT !.sourceAlive = TRUE], t.action)
         [] t.action = "CloseSource" ->
                Result([d EXCEPT !.sourceAlive = FALSE], t.action)
         [] OTHER -> Result(d, t.action)

-----------------------------------------------------------------------------
(* Commands. *)

Connect(c) == Apply(c, ConnectRequested(c.sm))
Disconnect(c) == Apply(c, DisconnectRequested(c.sm))
Retry(c) == Apply(c, RetryRequested(c.sm))
NotifySourceAvailable(c) == Apply(c, SourceAvailableHint(c.sm))

\* The relay's view of its leg to the device.
OnRelayHealth(c, deviceLegUp, reasonIfDown) ==
    CASE ~c.useRelay -> Ignored(c)
      [] c.useRelay /\ deviceLegUp ->
            NotifySourceAvailable(MarkReached(c, RelayIntake))
      [] OTHER -> Ignored(MarkFailed(c, RelayIntake, reasonIfDown))

\* A timeout is recorded as a failure of the packet stage before the action
\* is carried out, so that a reopening wipes it.
MutControllerTickUnmarked(c) == Apply(c, Tick(c.sm))

ControllerTick(c) ==
    LET t == Tick(c.sm)
        failed == /\ t.machine.state # c.sm.state
                  /\ t.machine.state \in {"Reconnecting", "Stalled", "Failed"}
    IN Apply(IF failed THEN MarkFailed(c, PacketFlow, t.machine.lastReason)
                       ELSE c, t)

-----------------------------------------------------------------------------
(* Events of the source and of the display. *)

OnSessionOpened(c) ==
    IF ~c.sourceAlive THEN Ignored(c)
    ELSE LET r == Apply(c, SessionOpened(c.sm))
         IN IF r.controller.sm.state = "SessionOpen"
            THEN Result(MarkReached(r.controller, RtspSession), r.action)
            ELSE r

OnPacketReceived(c) ==
    IF ~c.sourceAlive THEN Ignored(c)
    ELSE LET r == Apply(c, PacketReceived(c.sm))
         IN Result(MarkReached(r.controller, PacketFlow), r.action)

OnFrameDecoded(c) ==
    Ignored(IF c.sourceAlive THEN MarkReached(c, Decoding) ELSE c)

OnFramePresented(c) ==
    IF ~c.sourceAlive THEN Ignored(c)
    ELSE LET r == Apply(c, FramePresented(c.sm))
         IN Result(MarkReached(r.controller, Presenting), r.action)

\* In relay mode an unreachable peer is the local relay, not the device.
ReportedReason(c, reason) ==
    IF c.useRelay /\ reason = "DeviceUnreachable" THEN "RelayDown" ELSE reason

OnSourceError(c, reason) ==
    IF ~c.sourceAlive THEN Ignored(c)
    ELSE LET cause == ReportedReason(c, reason)
             stage == IF c.sm.state = "Streaming" THEN PacketFlow ELSE RtspSession
             r == Apply(c, ErrorOccurred(c.sm, cause))
         IN Result(MarkFailed(r.controller, stage, cause), r.action)
=============================================================================
