---------------------------- MODULE Connection ------------------------------
(***************************************************************************)
(* One connection state machine driven through its whole interface, every  *)
(* input at any time, as its owner may call it.  `source' is what the      *)
(* returned actions, carried out by the owner, have done to the source.    *)
(***************************************************************************)
EXTENDS ConnectionStateMachine

CONSTANT SourceErrors  \* the reasons a source reports

ASSUME SourceErrorsAssumption == SourceErrors \subseteq DiagnosisReason

VARIABLES m,       \* the machine's members
          source   \* "open" or "closed"

vars == <<m, source>>

TypeOK ==
    /\ m \in Machine
    /\ source \in {"open", "closed"}

Init == m = InitialMachine /\ source = "closed"

\* Carry out a transition: ChannelController::apply.
Take(transition) ==
    /\ m' = transition.machine
    /\ source' = CASE transition.action = "OpenSource" -> "open"
                   [] transition.action = "CloseSource" -> "closed"
                   [] OTHER -> source

Connect == Take(ConnectRequested(m))
Disconnect == Take(DisconnectRequested(m))
Retry == Take(RetryRequested(m))
Hint == Take(SourceAvailableHint(m))
Opened == Take(SessionOpened(m))
Packet == Take(PacketReceived(m))
Presented == Take(FramePresented(m))
Error == \E reason \in SourceErrors : Take(ErrorOccurred(m, reason))
TickDue == Take(Tick(m))

Elapse == m' = Aged(m) /\ UNCHANGED source

Next == \/ Connect \/ Disconnect \/ Retry \/ Hint
        \/ Opened \/ Packet \/ Presented \/ Error
        \/ TickDue \/ Elapse

Spec == Init /\ [][Next]_vars

\* The control thread ticks once a second and time goes by.
FairSpec == Spec /\ WF_vars(TickDue) /\ WF_vars(Elapse)

-----------------------------------------------------------------------------
(* Safety. *)

Waiting == m.state \in {"Reconnecting", "Stalled", "Failed"}

\* Each timer is set exactly in the states that consult it.  A waiting state
\* without retryAt, or SessionOpen without dataDeadline, would never be left
\* by tick; a timer that survives its state would fire in a later cycle.
TimersFollowState ==
    /\ (m.retryAt # Unset) <=> Waiting
    /\ (m.dataDeadline # Unset) <=> m.state = "SessionOpen"
    /\ (m.lastPacketAt # Unset) <=> m.state = "Streaming"
    /\ (m.streamingSince # Unset) <=> m.state = "Streaming"
    /\ m.retryAt <= IF m.state = "Failed" THEN SlowRetryDelay ELSE RetryDelay

\* The source is open exactly while the machine tries or streams: no action
\* is lost on any path, so a wait never holds a session and an attempt never
\* runs without one.
SourceFollowsState ==
    source = "open" <=> m.state \in {"Connecting", "SessionOpen", "Streaming"}

\* Failed (the slow mode) is entered exactly when the fast retries are spent,
\* and a fast wait always has some accounted for (D1).
SlowModeIsEarned ==
    /\ m.state = "Failed" => m.attempts > MaxAttempts /\ m.lastReason = "GaveUp"
    /\ m.state \in {"Reconnecting", "Stalled"} => m.attempts \in 1 .. MaxAttempts

\* The inductive invariant.
Inv == TypeOK /\ TimersFollowState /\ SourceFollowsState /\ SlowModeIsEarned

-----------------------------------------------------------------------------
(* The promise to the operator, kept. *)

Phase == CASE m.state = "Idle" -> "off"
           [] m.state \in {"Connecting", "SessionOpen"} -> "trying"
           [] m.state = "Streaming" -> "up"
           [] m.state \in {"Reconnecting", "Stalled"} -> "fastWait"
           [] m.state = "Failed" -> "slowWait"

RetriesLeft == IF m.attempts > MaxAttempts THEN 0 ELSE MaxAttempts - m.attempts

Policy == INSTANCE ReconnectPolicy WITH
    Budget <- MaxAttempts, FastDelay <- RetryDelay, SlowDelay <- SlowRetryDelay,
    phase <- Phase, budget <- RetriesLeft, wait <- m.retryAt

\* The machine implements the reconnect policy.
ImplementsPolicy == Policy!Spec

-----------------------------------------------------------------------------
(* Liveness, under the fairness of the tick. *)

\* Once packets stop for good, a channel does not stay SessionOpen or
\* Streaming, whatever else the source still reports.
SilenceIsNoticed ==
    (<>[][~Packet]_vars) =>
        (m.state \in {"SessionOpen", "Streaming"} ~>
            m.state \notin {"SessionOpen", "Streaming"})

\* A source that accepts sessions without ever streaming wears out the fast
\* retries: opening a session counts for nothing (D2).
FakeSessionsWearOut ==
    /\ <>[][~(Connect \/ Disconnect \/ Retry)]_vars
    /\ <>[](m.state # "Streaming")
    => <>[](m.state \notin {"Reconnecting", "Stalled"})
=============================================================================
