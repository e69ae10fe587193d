----------------------- MODULE ConnectionStateMachine -----------------------
(***************************************************************************)
(* src/domain/connection/ConnectionStateMachine.{h,cpp}: the reconnect     *)
(* policy of one channel.  The class owns no thread and executes nothing:  *)
(* every input returns the Action the caller has to carry out.  It is      *)
(* therefore modelled as operators from the machine's members (a record)   *)
(* to a Transition (the new members and the action), which the modules     *)
(* that own a machine apply to their own variables.                        *)
(*                                                                         *)
(* Time.  The class only compares differences of time points with its      *)
(* policies, so an instant is kept as its distance from now: a deadline as *)
(* the time left until it (0 once passed), a past instant as its age,      *)
(* which saturates at the only threshold it is compared with.  Aged is one *)
(* unit of time going by.  Unset is an empty std::optional.                *)
(***************************************************************************)
EXTENDS Integers

CONSTANTS MaxAttempts,           \* ReconnectPolicy::maxAttempts
          RetryDelay,            \* ReconnectPolicy::retryDelay
          SlowRetryDelay,        \* ReconnectPolicy::slowRetryDelay
          StreamingStableReset,  \* ReconnectPolicy::streamingStableReset
          DataConfirmTimeout,    \* StallPolicy::dataConfirmTimeout
          StallTimeout           \* StallPolicy::stallTimeout

ASSUME PolicyAssumption ==
    /\ MaxAttempts \in Nat
    /\ RetryDelay \in Nat \ {0}
    /\ SlowRetryDelay \in Nat \ {0}
    /\ StreamingStableReset \in Nat \ {0}
    /\ DataConfirmTimeout \in Nat \ {0}
    /\ StallTimeout \in Nat \ {0}

ConnState == {"Idle", "Connecting", "SessionOpen", "Streaming",
              "Stalled", "Reconnecting", "Failed"}

DiagnosisReason == {"None", "DeviceUnreachable", "RelayDown", "RelayNoSource",
                    "SessionRefused", "NoPackets", "DecodeError", "DiskLow",
                    "DiskFull", "GaveUp"}

Action == {"None", "OpenSource", "CloseSource"}

Unset == -1

LongestDelay == IF RetryDelay > SlowRetryDelay THEN RetryDelay ELSE SlowRetryDelay

Machine == [state          : ConnState,
            attempts       : 0 .. MaxAttempts + 1,
            lastReason     : DiagnosisReason,
            dataDeadline   : Unset .. DataConfirmTimeout,
            lastPacketAt   : Unset .. StallTimeout,
            retryAt        : Unset .. LongestDelay,
            streamingSince : Unset .. StreamingStableReset]

InitialMachine == [state |-> "Idle", attempts |-> 0, lastReason |-> "None",
                   dataDeadline |-> Unset, lastPacketAt |-> Unset,
                   retryAt |-> Unset, streamingSince |-> Unset]

To(m, action) == [machine |-> m, action |-> action]
Stay(m) == To(m, "None")

-----------------------------------------------------------------------------
(* Passing time. *)

Earlier(left) == IF left > 0 THEN left - 1 ELSE left

Older(age, threshold) ==
    IF age # Unset /\ age < threshold THEN age + 1 ELSE age

Aged(m) == [m EXCEPT !.dataDeadline   = Earlier(@),
                     !.retryAt        = Earlier(@),
                     !.lastPacketAt   = Older(@, StallTimeout),
                     !.streamingSince = Older(@, StreamingStableReset)]

-----------------------------------------------------------------------------
(* User commands and the relay's hint. *)

\* Each resets the members the other resets: a user command starts over.
ConnectRequested(m) ==
    To([InitialMachine EXCEPT !.state = "Connecting"], "OpenSource")

DisconnectRequested(m) == To(InitialMachine, "CloseSource")

RetryRequested(m) ==
    IF m.state = "Failed" THEN ConnectRequested(m) ELSE Stay(m)

\* Keeps the attempts: a probe that fails goes straight back to Failed.
SourceAvailableHint(m) ==
    IF m.state = "Failed"
    THEN To([m EXCEPT !.state = "Connecting", !.retryAt = Unset], "OpenSource")
    ELSE Stay(m)

-----------------------------------------------------------------------------
(* Events of the stream source. *)

MutResetsOnSession(m) ==
    IF m.state = "Connecting"
    THEN Stay([m EXCEPT !.state = "SessionOpen", !.attempts = 0,
                        !.dataDeadline = DataConfirmTimeout])
    ELSE Stay(m)

MutStallTimeoutForData(m) ==
    IF m.state = "Connecting"
    THEN Stay([m EXCEPT !.state = "SessionOpen", !.dataDeadline = StallTimeout])
    ELSE Stay(m)

SessionOpened(m) ==
    IF m.state = "Connecting"
    THEN Stay([m EXCEPT !.state = "SessionOpen",
                        !.dataDeadline = DataConfirmTimeout])
    ELSE Stay(m)

\* The first packet confirms the session; every packet feeds the stall clock;
\* a stream that has lasted for StreamingStableReset has proved itself.
PacketReceived(m) ==
    IF m.state = "SessionOpen"
    THEN Stay([m EXCEPT !.state = "Streaming", !.dataDeadline = Unset,
                        !.streamingSince = 0, !.lastPacketAt = 0])
    ELSE IF m.state = "Streaming"
    THEN IF m.streamingSince # Unset /\ m.streamingSince >= StreamingStableReset
         THEN Stay([m EXCEPT !.lastPacketAt = 0, !.attempts = 0,
                             !.lastReason = "None"])
         ELSE Stay([m EXCEPT !.lastPacketAt = 0])
    ELSE Stay(m)

FramePresented(m) ==
    IF m.state = "Streaming"
    THEN Stay([m EXCEPT !.attempts = 0, !.lastReason = "None"])
    ELSE Stay(m)

\* m_attempts is only compared with maxAttempts and reset to 0, so the count
\* saturates at MaxAttempts + 1.
OneMoreAttempt(m) == IF m.attempts > MaxAttempts THEN m.attempts ELSE m.attempts + 1

Failing(m, reason) ==
    [m EXCEPT !.lastReason = reason, !.attempts = OneMoreAttempt(m),
              !.dataDeadline = Unset, !.lastPacketAt = Unset,
              !.streamingSince = Unset]

MutGiveUpForGood(f) ==
    To([f EXCEPT !.state = "Failed", !.lastReason = "GaveUp"], "CloseSource")

GiveUp(f) ==
    To([f EXCEPT !.state = "Failed", !.lastReason = "GaveUp",
                 !.retryAt = SlowRetryDelay], "CloseSource")

MutKeepsSession(f, retryState) ==
    Stay([f EXCEPT !.state = retryState, !.retryAt = RetryDelay])

TryLater(f, retryState) ==
    To([f EXCEPT !.state = retryState, !.retryAt = RetryDelay], "CloseSource")

MutGivesUpEarly(m, reason, retryState) ==
    LET f == Failing(m, reason)
    IN IF f.attempts >= MaxAttempts THEN GiveUp(f) ELSE TryLater(f, retryState)

\* Within the limit to retryState, beyond it to Failed, the slow mode.
BeginRetryOrFail(m, reason, retryState) ==
    LET f == Failing(m, reason)
    IN IF f.attempts > MaxAttempts THEN GiveUp(f) ELSE TryLater(f, retryState)

ErrorOccurred(m, reason) ==
    CASE m.state \in {"Connecting", "SessionOpen"} ->
            BeginRetryOrFail(m, reason, "Reconnecting")
      [] m.state = "Streaming" -> BeginRetryOrFail(m, reason, "Stalled")
      [] OTHER -> Stay(m)

-----------------------------------------------------------------------------
(* The periodic input. *)

DataIsLate(m) == m.state = "SessionOpen" /\ m.dataDeadline = 0
StreamIsSilent(m) == m.state = "Streaming" /\ m.lastPacketAt >= StallTimeout
RetryIsDue(m) == m.state \in {"Reconnecting", "Stalled", "Failed"} /\ m.retryAt = 0

Reopen(m) ==
    To([m EXCEPT !.state = "Connecting", !.retryAt = Unset], "OpenSource")

MutTickIgnoresSilence(m) ==
    CASE DataIsLate(m) -> BeginRetryOrFail(m, "NoPackets", "Reconnecting")
      [] RetryIsDue(m) -> Reopen(m)
      [] OTHER -> Stay(m)

MutTickLeavesFailed(m) ==
    CASE DataIsLate(m) -> BeginRetryOrFail(m, "NoPackets", "Reconnecting")
      [] StreamIsSilent(m) -> BeginRetryOrFail(m, "NoPackets", "Stalled")
      [] RetryIsDue(m) /\ m.state # "Failed" -> Reopen(m)
      [] OTHER -> Stay(m)

Tick(m) ==
    CASE DataIsLate(m) -> BeginRetryOrFail(m, "NoPackets", "Reconnecting")
      [] StreamIsSilent(m) -> BeginRetryOrFail(m, "NoPackets", "Stalled")
      [] RetryIsDue(m) -> Reopen(m)
      [] OTHER -> Stay(m)
=============================================================================
