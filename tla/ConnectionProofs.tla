-------------------------- MODULE ConnectionProofs --------------------------
(***************************************************************************)
(* Theorems about Connection, for every value of the policies and of the   *)
(* reasons a source reports.                                               *)
(***************************************************************************)
EXTENDS Connection, TLAPS

USE DEF Unset

\* Inv without the variables: what a machine satisfies before and after every
\* input.
Sound(x) ==
    /\ x \in Machine
    /\ (x.retryAt # Unset) <=> x.state \in {"Reconnecting", "Stalled", "Failed"}
    /\ (x.dataDeadline # Unset) <=> x.state = "SessionOpen"
    /\ (x.lastPacketAt # Unset) <=> x.state = "Streaming"
    /\ (x.streamingSince # Unset) <=> x.state = "Streaming"
    /\ x.retryAt <= IF x.state = "Failed" THEN SlowRetryDelay ELSE RetryDelay
    /\ x.state = "Failed" => x.attempts > MaxAttempts /\ x.lastReason = "GaveUp"
    /\ x.state \in {"Reconnecting", "Stalled"} => x.attempts \in 1 .. MaxAttempts

\* The returned action fits the move: it opens on the way into an active
\* state, closes on the way out of one, and is None while that does not change.
Active(x) == x.state \in {"Connecting", "SessionOpen", "Streaming"}
Fits(x, t) ==
    \/ t.action = "OpenSource" /\ Active(t.machine)
    \/ t.action = "CloseSource" /\ ~Active(t.machine)
    \/ t.action = "None" /\ (Active(t.machine) <=> Active(x))

SoundStep(x, t) == Sound(t.machine) /\ Fits(x, t)

Members(st, at, reason, deadline, packet, retry, since) ==
    [state |-> st, attempts |-> at, lastReason |-> reason, dataDeadline |-> deadline,
     lastPacketAt |-> packet, retryAt |-> retry, streamingSince |-> since]

-----------------------------------------------------------------------------
(* What each operator returns, member by member. *)

LEMMA ConnectShape ==
    \A x : ConnectRequested(x) =
              To(Members("Connecting", 0, "None", Unset, Unset, Unset, Unset),
                 "OpenSource")
  BY DEF ConnectRequested, InitialMachine, Members

LEMMA DisconnectShape ==
    \A x : DisconnectRequested(x) =
              To(Members("Idle", 0, "None", Unset, Unset, Unset, Unset), "CloseSource")
  BY DEF DisconnectRequested, InitialMachine, Members

LEMMA FailureShape ==
    ASSUME NEW x, Sound(x), Active(x), NEW reason, NEW next
    PROVE  /\ OneMoreAttempt(x) > MaxAttempts =>
                BeginRetryOrFail(x, reason, next) =
                   To(Members("Failed", OneMoreAttempt(x), "GaveUp", Unset, Unset,
                              SlowRetryDelay, Unset), "CloseSource")
           /\ ~(OneMoreAttempt(x) > MaxAttempts) =>
                BeginRetryOrFail(x, reason, next) =
                   To(Members(next, OneMoreAttempt(x), reason, Unset, Unset,
                              RetryDelay, Unset), "CloseSource")
<1> DEFINE n == OneMoreAttempt(x)
           f == Failing(x, reason)
<1>1. x \in Machine /\ x.retryAt = Unset
  BY DEF Sound, Active, Machine
<1>2. f = Members(x.state, n, reason, Unset, Unset, Unset, Unset)
  <2>1. ASSUME NEW y, y = [x EXCEPT !.lastReason = reason, !.attempts = n,
                                    !.dataDeadline = Unset, !.lastPacketAt = Unset,
                                    !.streamingSince = Unset]
        PROVE  y = Members(x.state, n, reason, Unset, Unset, Unset, Unset)
    BY <1>1, <2>1 DEF Members, Machine
  <2> QED BY <2>1 DEF Failing
<1> HIDE DEF f, n
<1>3. GiveUp(f) = To(Members("Failed", n, "GaveUp", Unset, Unset, SlowRetryDelay, Unset),
                     "CloseSource")
  <2>1. ASSUME NEW y, y = [f EXCEPT !.state = "Failed", !.lastReason = "GaveUp",
                                    !.retryAt = SlowRetryDelay]
        PROVE  y = Members("Failed", n, "GaveUp", Unset, Unset, SlowRetryDelay, Unset)
    BY <1>2, <2>1 DEF Members
  <2> QED BY <2>1 DEF GiveUp
<1>4. TryLater(f, next) = To(Members(next, n, reason, Unset, Unset, RetryDelay, Unset),
                             "CloseSource")
  <2>1. ASSUME NEW y, y = [f EXCEPT !.state = next, !.retryAt = RetryDelay]
        PROVE  y = Members(next, n, reason, Unset, Unset, RetryDelay, Unset)
    BY <1>2, <2>1 DEF Members
  <2> QED BY <2>1 DEF TryLater
<1>5. f.attempts = n
  BY <1>2 DEF Members
<1> QED BY <1>3, <1>4, <1>5 DEF BeginRetryOrFail, f, n

LEMMA ReopenShape ==
    ASSUME NEW x, Sound(x), x.state \in {"Reconnecting", "Stalled", "Failed"}
    PROVE  Reopen(x) = To(Members("Connecting", x.attempts, x.lastReason,
                                  Unset, Unset, Unset, Unset), "OpenSource")
<1>1. ASSUME NEW y, y = [x EXCEPT !.state = "Connecting", !.retryAt = Unset]
      PROVE  y = Members("Connecting", x.attempts, x.lastReason, Unset, Unset, Unset,
                         Unset)
  BY <1>1 DEF Members, Sound, Machine
<1> QED BY <1>1 DEF Reopen

LEMMA SessionOpenedShape ==
    ASSUME NEW x, Sound(x), x.state = "Connecting"
    PROVE  SessionOpened(x) =
              Stay(Members("SessionOpen", x.attempts, x.lastReason, DataConfirmTimeout,
                           Unset, Unset, Unset))
<1>1. ASSUME NEW y, y = [x EXCEPT !.state = "SessionOpen",
                                  !.dataDeadline = DataConfirmTimeout]
      PROVE  y = Members("SessionOpen", x.attempts, x.lastReason,
                         DataConfirmTimeout, Unset, Unset, Unset)
  BY <1>1 DEF Members, Sound, Machine
<1> QED BY <1>1 DEF SessionOpened

LEMMA FirstPacketShape ==
    ASSUME NEW x, Sound(x), x.state = "SessionOpen"
    PROVE  PacketReceived(x) =
              Stay(Members("Streaming", x.attempts, x.lastReason, Unset, 0, Unset, 0))
<1>1. ASSUME NEW y, y = [x EXCEPT !.state = "Streaming", !.dataDeadline = Unset,
                                  !.streamingSince = 0, !.lastPacketAt = 0]
      PROVE  y = Members("Streaming", x.attempts, x.lastReason, Unset, 0, Unset, 0)
  BY <1>1 DEF Members, Sound, Machine
<1> QED BY <1>1 DEF PacketReceived

LEMMA NextPacketShape ==
    ASSUME NEW x, Sound(x), x.state = "Streaming"
    PROVE  \E a \in {x.attempts, 0}, r \in {x.lastReason, "None"} :
              PacketReceived(x) =
                 Stay(Members("Streaming", a, r, Unset, 0, Unset, x.streamingSince))
<1>1. CASE x.streamingSince >= StreamingStableReset
  <2>1. ASSUME NEW y, y = [x EXCEPT !.lastPacketAt = 0, !.attempts = 0,
                                    !.lastReason = "None"]
        PROVE  y = Members("Streaming", 0, "None", Unset, 0, Unset, x.streamingSince)
    BY <2>1 DEF Members, Sound, Machine
  <2>2. PacketReceived(x) =
           Stay(Members("Streaming", 0, "None", Unset, 0, Unset, x.streamingSince))
    BY <1>1, <2>1 DEF PacketReceived, Sound
  <2> QED BY <2>2
<1>2. CASE ~(x.streamingSince >= StreamingStableReset)
  <2>1. ASSUME NEW y, y = [x EXCEPT !.lastPacketAt = 0]
        PROVE  y = Members("Streaming", x.attempts, x.lastReason, Unset, 0, Unset,
                           x.streamingSince)
    BY <2>1 DEF Members, Sound, Machine
  <2>2. PacketReceived(x) =
           Stay(Members("Streaming", x.attempts, x.lastReason, Unset, 0, Unset,
                        x.streamingSince))
    BY <1>2, <2>1 DEF PacketReceived
  <2> QED BY <2>2
<1> QED BY <1>1, <1>2

LEMMA PresentedShape ==
    ASSUME NEW x, Sound(x), x.state = "Streaming"
    PROVE  FramePresented(x) =
              Stay(Members("Streaming", 0, "None", Unset, x.lastPacketAt, Unset,
                           x.streamingSince))
<1>1. ASSUME NEW y, y = [x EXCEPT !.attempts = 0, !.lastReason = "None"]
      PROVE  y = Members("Streaming", 0, "None", Unset, x.lastPacketAt, Unset,
                         x.streamingSince)
  BY <1>1 DEF Members, Sound, Machine
<1> QED BY <1>1 DEF FramePresented

LEMMA AgedShape ==
    ASSUME NEW x, Sound(x)
    PROVE  Aged(x) = Members(x.state, x.attempts, x.lastReason, Earlier(x.dataDeadline),
                             Older(x.lastPacketAt, StallTimeout), Earlier(x.retryAt),
                             Older(x.streamingSince, StreamingStableReset))
<1> DEFINE d == Earlier(x.dataDeadline)
           p == Older(x.lastPacketAt, StallTimeout)
           r == Earlier(x.retryAt)
           s == Older(x.streamingSince, StreamingStableReset)
<1> HIDE DEF d, p, r, s
<1>1. ASSUME NEW y, y = [x EXCEPT !.dataDeadline = d, !.retryAt = r,
                                  !.lastPacketAt = p, !.streamingSince = s]
      PROVE  y = Members(x.state, x.attempts, x.lastReason, d, p, r, s)
  BY <1>1 DEF Members, Sound, Machine
<1> QED BY <1>1 DEF Aged, d, p, r, s

-----------------------------------------------------------------------------
(* Every input keeps the machine sound and returns a fitting action. *)

USE DEF SoundStep, Fits, Active, To, Stay

LEMMA InitialMachineSound == Sound(InitialMachine)
  BY PolicyAssumption
     DEF Sound, InitialMachine, Machine, ConnState, DiagnosisReason, LongestDelay

\* A failure of an active machine counts one attempt, cancels the timers of
\* the session and sets the delay that fits the attempts left.
LEMMA FailureSound ==
    ASSUME NEW x, Sound(x), Active(x),
           NEW reason \in DiagnosisReason,
           NEW next \in {"Reconnecting", "Stalled"}
    PROVE  SoundStep(x, BeginRetryOrFail(x, reason, next))
<1>1. OneMoreAttempt(x) \in 1 .. MaxAttempts + 1
  BY PolicyAssumption DEF OneMoreAttempt, Sound, Machine
<1>2. CASE OneMoreAttempt(x) > MaxAttempts
  BY <1>1, <1>2, FailureShape, PolicyAssumption
     DEF Sound, Members, Machine, ConnState, DiagnosisReason, LongestDelay
<1>3. CASE ~(OneMoreAttempt(x) > MaxAttempts)
  BY <1>1, <1>3, FailureShape, PolicyAssumption
     DEF Sound, Members, Machine, ConnState, LongestDelay
<1> QED BY <1>2, <1>3

LEMMA ConnectSound ==
    ASSUME NEW x, Sound(x)
    PROVE  SoundStep(x, ConnectRequested(x))
  BY ConnectShape, PolicyAssumption
     DEF Sound, Members, Machine, ConnState, DiagnosisReason, LongestDelay

LEMMA DisconnectSound ==
    ASSUME NEW x, Sound(x)
    PROVE  SoundStep(x, DisconnectRequested(x))
  BY DisconnectShape, PolicyAssumption
     DEF Sound, Members, Machine, ConnState, DiagnosisReason, LongestDelay

LEMMA RetrySound ==
    ASSUME NEW x, Sound(x)
    PROVE  SoundStep(x, RetryRequested(x))
  BY ConnectSound DEF RetryRequested

\* Opening the source again after a wait: the attempts are kept.
LEMMA ReopenSound ==
    ASSUME NEW x, Sound(x), x.state \in {"Reconnecting", "Stalled", "Failed"}
    PROVE  SoundStep(x, Reopen(x))
<1>1. x.attempts \in 0 .. MaxAttempts + 1 /\ x.lastReason \in DiagnosisReason
  BY DEF Sound, Machine
<1> QED
  BY <1>1, ReopenShape, PolicyAssumption
     DEF Sound, Members, Machine, ConnState, LongestDelay

LEMMA HintSound ==
    ASSUME NEW x, Sound(x)
    PROVE  SoundStep(x, SourceAvailableHint(x))
  BY ReopenSound DEF SourceAvailableHint, Reopen

LEMMA SessionOpenedSound ==
    ASSUME NEW x, Sound(x)
    PROVE  SoundStep(x, SessionOpened(x))
<1>1. x.attempts \in 0 .. MaxAttempts + 1 /\ x.lastReason \in DiagnosisReason
  BY DEF Sound, Machine
<1>2. CASE x.state = "Connecting"
  BY <1>1, <1>2, SessionOpenedShape, PolicyAssumption
     DEF Sound, Members, Machine, ConnState, LongestDelay
<1>3. CASE x.state # "Connecting"
  BY <1>3 DEF SessionOpened
<1> QED BY <1>2, <1>3

LEMMA PacketSound ==
    ASSUME NEW x, Sound(x)
    PROVE  SoundStep(x, PacketReceived(x))
<1>1. /\ x.attempts \in 0 .. MaxAttempts + 1
      /\ x.lastReason \in DiagnosisReason
      /\ x.streamingSince \in Unset .. StreamingStableReset
  BY DEF Sound, Machine
<1>2. CASE x.state = "SessionOpen"
  BY <1>1, <1>2, FirstPacketShape, PolicyAssumption
     DEF Sound, Members, Machine, ConnState, LongestDelay
<1>3. CASE x.state = "Streaming"
  <2>1. PICK a \in {x.attempts, 0}, r \in {x.lastReason, "None"} :
           PacketReceived(x) =
              Stay(Members("Streaming", a, r, Unset, 0, Unset, x.streamingSince))
    BY <1>3, NextPacketShape
  <2>2. x.streamingSince # Unset
    BY <1>3 DEF Sound
  <2> QED
    BY <1>1, <1>3, <2>1, <2>2, PolicyAssumption
       DEF Sound, Members, Machine, ConnState, DiagnosisReason, LongestDelay
<1>4. CASE x.state \notin {"SessionOpen", "Streaming"}
  BY <1>4 DEF PacketReceived
<1> QED BY <1>2, <1>3, <1>4

LEMMA PresentedSound ==
    ASSUME NEW x, Sound(x)
    PROVE  SoundStep(x, FramePresented(x))
<1>1. CASE x.state = "Streaming"
  <2>1. /\ x.lastPacketAt \in Unset .. StallTimeout
        /\ x.streamingSince \in Unset .. StreamingStableReset
        /\ x.lastPacketAt # Unset /\ x.streamingSince # Unset
    BY <1>1 DEF Sound, Machine
  <2> QED
    BY <1>1, <2>1, PresentedShape, PolicyAssumption
       DEF Sound, Members, Machine, ConnState, DiagnosisReason, LongestDelay
<1>2. CASE x.state # "Streaming"
  BY <1>2 DEF FramePresented
<1> QED BY <1>1, <1>2

LEMMA ErrorSound ==
    ASSUME NEW x, Sound(x), NEW reason \in DiagnosisReason
    PROVE  SoundStep(x, ErrorOccurred(x, reason))
<1>1. CASE x.state \in {"Connecting", "SessionOpen"}
  BY <1>1, FailureSound DEF ErrorOccurred
<1>2. CASE x.state = "Streaming"
  BY <1>2, FailureSound DEF ErrorOccurred
<1>3. CASE x.state \notin {"Connecting", "SessionOpen", "Streaming"}
  BY <1>3 DEF ErrorOccurred
<1> QED BY <1>1, <1>2, <1>3

LEMMA TickSound ==
    ASSUME NEW x, Sound(x)
    PROVE  SoundStep(x, Tick(x))
<1> USE DEF DataIsLate, StreamIsSilent, RetryIsDue
<1>1. "NoPackets" \in DiagnosisReason
  BY DEF DiagnosisReason
<1>2. CASE DataIsLate(x)
  BY <1>1, <1>2, FailureSound DEF Tick
<1>3. CASE StreamIsSilent(x)
  BY <1>1, <1>3, FailureSound DEF Tick
<1>4. CASE RetryIsDue(x)
  BY <1>4, ReopenSound DEF Tick
<1>5. CASE ~DataIsLate(x) /\ ~StreamIsSilent(x) /\ ~RetryIsDue(x)
  BY <1>5 DEF Tick
<1> QED BY <1>2, <1>3, <1>4, <1>5

LEMMA AgedSound ==
    ASSUME NEW x, Sound(x)
    PROVE  Sound(Aged(x)) /\ Aged(x).state = x.state
<1>1. /\ x.state \in ConnState /\ x.attempts \in 0 .. MaxAttempts + 1
      /\ x.lastReason \in DiagnosisReason
      /\ x.dataDeadline \in Unset .. DataConfirmTimeout
      /\ x.lastPacketAt \in Unset .. StallTimeout
      /\ x.retryAt \in Unset .. LongestDelay
      /\ x.streamingSince \in Unset .. StreamingStableReset
  BY DEF Sound, Machine
<1>2. LongestDelay \in Nat
  BY PolicyAssumption DEF LongestDelay
<1>3. /\ Earlier(x.dataDeadline) \in Unset .. DataConfirmTimeout
      /\ (Earlier(x.dataDeadline) # Unset) <=> (x.dataDeadline # Unset)
      /\ Earlier(x.retryAt) \in Unset .. LongestDelay
      /\ Earlier(x.retryAt) <= x.retryAt
      /\ (Earlier(x.retryAt) # Unset) <=> (x.retryAt # Unset)
  BY <1>1, <1>2, PolicyAssumption DEF Earlier
<1>4. /\ Older(x.lastPacketAt, StallTimeout) \in Unset .. StallTimeout
      /\ (Older(x.lastPacketAt, StallTimeout) # Unset) <=> (x.lastPacketAt # Unset)
      /\ Older(x.streamingSince, StreamingStableReset) \in Unset .. StreamingStableReset
      /\ (Older(x.streamingSince, StreamingStableReset) # Unset)
            <=> (x.streamingSince # Unset)
  BY <1>1, PolicyAssumption DEF Older
<1>5. Aged(x) \in Machine
  BY <1>1, <1>3, <1>4, AgedShape DEF Members, Machine
<1> QED
  BY <1>1, <1>2, <1>3, <1>4, <1>5, AgedShape, PolicyAssumption DEF Members, Sound

-----------------------------------------------------------------------------
(* The invariants. *)

LEMMA InvIsSound == Inv <=> Sound(m) /\ source \in {"open", "closed"}
                                    /\ (source = "open" <=> Active(m))
  BY DEF Inv, TypeOK, TimersFollowState, SourceFollowsState, SlowModeIsEarned, Waiting,
         Sound

LEMMA TakeKeepsInv ==
    ASSUME Inv, NEW t, SoundStep(m, t), Take(t)
    PROVE  Inv'
<1>1. Sound(m)' /\ (source \in {"open", "closed"})' /\ (source = "open" <=> Active(m))'
  BY InvIsSound DEF Take
<1> QED
  BY <1>1 DEF Inv, TypeOK, TimersFollowState, SourceFollowsState, SlowModeIsEarned,
              Waiting, Sound

LEMMA InitInv == Init => Inv
  BY InvIsSound, InitialMachineSound DEF Init, InitialMachine

LEMMA StepInv == Inv /\ [Next]_vars => Inv'
<1> SUFFICES ASSUME Inv, [Next]_vars PROVE Inv'
  OBVIOUS
<1>0. Sound(m)
  BY InvIsSound
<1> HIDE DEF SoundStep
<1>1. CASE Connect
  BY <1>0, <1>1, ConnectSound, TakeKeepsInv DEF Connect
<1>2. CASE Disconnect
  BY <1>0, <1>2, DisconnectSound, TakeKeepsInv DEF Disconnect
<1>3. CASE Retry
  BY <1>0, <1>3, RetrySound, TakeKeepsInv DEF Retry
<1>4. CASE Hint
  BY <1>0, <1>4, HintSound, TakeKeepsInv DEF Hint
<1>5. CASE Opened
  BY <1>0, <1>5, SessionOpenedSound, TakeKeepsInv DEF Opened
<1>6. CASE Packet
  BY <1>0, <1>6, PacketSound, TakeKeepsInv DEF Packet
<1>7. CASE Presented
  BY <1>0, <1>7, PresentedSound, TakeKeepsInv DEF Presented
<1>8. CASE Error
  BY <1>0, <1>8, ErrorSound, TakeKeepsInv, SourceErrorsAssumption DEF Error
<1>9. CASE TickDue
  BY <1>0, <1>9, TickSound, TakeKeepsInv DEF TickDue
<1>10. CASE Elapse
  <2>1. Sound(m') /\ (Active(m') <=> Active(m)) /\ source' = source
    BY <1>0, <1>10, AgedSound DEF Elapse
  <2> QED
    BY <2>1, InvIsSound
       DEF Inv, TypeOK, TimersFollowState, SourceFollowsState, SlowModeIsEarned,
           Waiting, Sound
<1>11. CASE UNCHANGED vars
  BY <1>11 DEF vars, Inv, TypeOK, TimersFollowState, SourceFollowsState,
               SlowModeIsEarned, Waiting
<1> QED
  BY <1>1, <1>2, <1>3, <1>4, <1>5, <1>6, <1>7, <1>8, <1>9, <1>10, <1>11 DEF Next

\* Inv holds in every reachable state, whatever the order of the inputs.
THEOREM Invariance == Spec => []Inv
  BY InitInv, StepInv, PTL DEF Spec

\* Every member keeps its type: the timers stay within their policies and the
\* attempts within the limit (ConnectionStateMachine.h, the class's members).
THEOREM TypeCorrect == Spec => []TypeOK
  BY Invariance, PTL DEF Inv

\* Each timer is set exactly in the states whose tick consults it.
THEOREM TimersAreConsistent == Spec => []TimersFollowState
  BY Invariance, PTL DEF Inv

\* No action is lost: the source is open exactly in the active states.
THEOREM SourceIsConsistent == Spec => []SourceFollowsState
  BY Invariance, PTL DEF Inv

\* Failed is reached exactly when the fast retries are spent.
THEOREM GiveUpIsEarned == Spec => []SlowModeIsEarned
  BY Invariance, PTL DEF Inv

-----------------------------------------------------------------------------
(* The refinement. *)

LEMMA InitRefines == Init => Policy!Init
  BY PolicyAssumption
     DEF Init, InitialMachine, Policy!Init, Policy!NoWait, Phase, RetriesLeft

\* A step that does not change what the policy sees.
LEMMA Stutters ==
    ASSUME m'.state = m.state, m'.attempts = m.attempts, m'.retryAt = m.retryAt
    PROVE  UNCHANGED Policy!vars
  BY DEF Policy!vars, Phase, RetriesLeft

LEMMA ConnectRefines ==
    ASSUME Take(ConnectRequested(m))
    PROVE  Policy!Start
  BY ConnectShape, PolicyAssumption
     DEF Take, Members, Policy!Start, Policy!NoWait, Phase, RetriesLeft

LEMMA FailureRefines ==
    ASSUME Inv, Active(m), NEW reason, NEW next \in {"Reconnecting", "Stalled"},
           Take(BeginRetryOrFail(m, reason, next))
    PROVE  Policy!Fail
<1>1. Sound(m) /\ m.attempts \in 0 .. MaxAttempts + 1
  BY InvIsSound DEF Sound, Machine
<1>2. Phase \in {"trying", "up"}
  BY DEF Phase
<1>3. CASE OneMoreAttempt(m) > MaxAttempts
  <2>1. m'.state = "Failed" /\ m'.attempts = OneMoreAttempt(m)
        /\ m'.retryAt = SlowRetryDelay
    BY <1>1, <1>3, FailureShape DEF Take, Members
  <2>2. RetriesLeft = 0 /\ RetriesLeft' = 0
    BY <1>1, <1>3, <2>1, PolicyAssumption DEF RetriesLeft, OneMoreAttempt
  <2>3. Phase' = "slowWait"
    BY <2>1 DEF Phase
  <2> QED BY <1>2, <2>1, <2>2, <2>3 DEF Policy!Fail
<1>4. CASE ~(OneMoreAttempt(m) > MaxAttempts)
  <2>1. m'.state = next /\ m'.attempts = OneMoreAttempt(m) /\ m'.retryAt = RetryDelay
    BY <1>1, <1>4, FailureShape DEF Take, Members
  <2>2. RetriesLeft > 0 /\ RetriesLeft' = RetriesLeft - 1
    BY <1>1, <1>4, <2>1, PolicyAssumption DEF RetriesLeft, OneMoreAttempt
  <2>3. Phase' = "fastWait"
    BY <2>1 DEF Phase
  <2> QED BY <1>2, <2>1, <2>2, <2>3 DEF Policy!Fail
<1> QED BY <1>3, <1>4

LEMMA ReopenRefines ==
    ASSUME Inv, Waiting, Take(Reopen(m)), m.state = "Failed" \/ m.retryAt = 0
    PROVE  Policy!Next
<1>1. m'.state = "Connecting" /\ m'.attempts = m.attempts /\ m'.retryAt = Unset
  BY InvIsSound, ReopenShape DEF Take, Members, Waiting
<1>2. Phase' = "trying" /\ RetriesLeft' = RetriesLeft
  BY <1>1 DEF Phase, RetriesLeft
<1>3. CASE m.retryAt = 0
  <2>1. Policy!Expire
    BY <1>1, <1>2, <1>3 DEF Policy!Expire, Policy!NoWait, Phase, Waiting
  <2> QED BY <2>1 DEF Policy!Next
<1>4. CASE m.state = "Failed"
  <2>1. Policy!Hint
    BY <1>1, <1>2, <1>4 DEF Policy!Hint, Policy!NoWait, Phase
  <2> QED BY <2>1 DEF Policy!Next
<1> QED BY <1>3, <1>4

LEMMA PacketRefines ==
    ASSUME Inv, Packet
    PROVE  Policy!Next \/ UNCHANGED Policy!vars
<1>1. Sound(m) /\ m.attempts \in 0 .. MaxAttempts + 1 /\ m.retryAt \in Int
  BY InvIsSound, PolicyAssumption DEF Sound, Machine, LongestDelay
<1>2. CASE m.state = "SessionOpen"
  <2>1. m'.state = "Streaming" /\ m'.attempts = m.attempts /\ m'.retryAt = m.retryAt
    BY <1>1, <1>2, FirstPacketShape DEF Packet, Take, Members, Sound
  <2>2. Policy!ComeUp
    BY <1>2, <2>1 DEF Policy!ComeUp, Phase, RetriesLeft
  <2> QED BY <2>2 DEF Policy!Next
<1>3. CASE m.state = "Streaming"
  <2>1. /\ m'.state = "Streaming"
        /\ m'.attempts \in {m.attempts, 0}
        /\ m'.retryAt = m.retryAt
    BY <1>1, <1>3, NextPacketShape DEF Packet, Take, Members, Sound
  <2>2. CASE m'.attempts = 0
    <3>1. Policy!Refill
      BY <1>3, <2>1, <2>2, PolicyAssumption DEF Policy!Refill, Phase, RetriesLeft
    <3> QED BY <3>1 DEF Policy!Next
  <2>3. CASE m'.attempts = m.attempts
    BY <1>3, <2>1, <2>3, Stutters
  <2> QED BY <2>1, <2>2, <2>3
<1>4. CASE m.state \notin {"SessionOpen", "Streaming"}
  BY <1>4, Stutters DEF Packet, PacketReceived, Take
<1> QED BY <1>2, <1>3, <1>4

LEMMA PresentedRefines ==
    ASSUME Inv, Presented
    PROVE  Policy!Next \/ UNCHANGED Policy!vars
<1>1. CASE m.state = "Streaming"
  <2>1. m'.state = "Streaming" /\ m'.attempts = 0 /\ m'.retryAt = m.retryAt
    BY <1>1, InvIsSound, PresentedShape DEF Presented, Take, Members, Sound
  <2>2. Policy!Refill
    BY <1>1, <2>1, PolicyAssumption DEF Policy!Refill, Phase, RetriesLeft
  <2> QED BY <2>2 DEF Policy!Next
<1>2. CASE m.state # "Streaming"
  BY <1>2, Stutters DEF Presented, FramePresented, Take
<1> QED BY <1>1, <1>2

LEMMA ErrorRefines ==
    ASSUME Inv, Error
    PROVE  Policy!Next \/ UNCHANGED Policy!vars
<1>1. PICK reason \in SourceErrors : Take(ErrorOccurred(m, reason))
  BY DEF Error
<1>2. CASE Active(m)
  <2>1. \E next \in {"Reconnecting", "Stalled"} : Take(BeginRetryOrFail(m, reason, next))
    BY <1>1, <1>2 DEF ErrorOccurred
  <2> QED BY <1>2, <2>1, FailureRefines DEF Policy!Next
<1>3. CASE ~Active(m)
  BY <1>1, <1>3, Stutters DEF ErrorOccurred, Take
<1> QED BY <1>2, <1>3

LEMMA TickRefines ==
    ASSUME Inv, TickDue
    PROVE  Policy!Next \/ UNCHANGED Policy!vars
<1> USE DEF DataIsLate, StreamIsSilent, RetryIsDue
<1>1. CASE DataIsLate(m)
  <2>1. Take(BeginRetryOrFail(m, "NoPackets", "Reconnecting"))
    BY <1>1 DEF TickDue, Tick
  <2> QED BY <1>1, <2>1, FailureRefines DEF Policy!Next
<1>2. CASE StreamIsSilent(m)
  <2>1. Take(BeginRetryOrFail(m, "NoPackets", "Stalled"))
    BY <1>2 DEF TickDue, Tick
  <2> QED BY <1>2, <2>1, FailureRefines DEF Policy!Next
<1>3. CASE RetryIsDue(m)
  <2>1. Take(Reopen(m))
    BY <1>3 DEF TickDue, Tick
  <2> QED BY <1>3, <2>1, ReopenRefines DEF Waiting
<1>4. CASE ~DataIsLate(m) /\ ~StreamIsSilent(m) /\ ~RetryIsDue(m)
  BY <1>4, Stutters DEF TickDue, Tick, Take
<1> QED BY <1>1, <1>2, <1>3, <1>4

LEMMA ElapseRefines ==
    ASSUME Inv, Elapse
    PROVE  Policy!Next \/ UNCHANGED Policy!vars
<1>1. /\ m'.state = m.state /\ m'.attempts = m.attempts
      /\ m'.retryAt = Earlier(m.retryAt)
  BY InvIsSound, AgedShape DEF Elapse, Members
<1>2. CASE m.retryAt > 0
  <2>1. Policy!Elapse
    BY <1>1, <1>2 DEF Policy!Elapse, Earlier, Phase, RetriesLeft
  <2> QED BY <2>1 DEF Policy!Next
<1>3. CASE ~(m.retryAt > 0)
  BY <1>1, <1>3, Stutters DEF Earlier
<1> QED BY <1>2, <1>3

LEMMA StepRefines == Inv /\ [Next]_vars => [Policy!Next]_(Policy!vars)
<1> SUFFICES ASSUME Inv, [Next]_vars
             PROVE  Policy!Next \/ UNCHANGED Policy!vars
  OBVIOUS
<1>1. CASE Connect
  BY <1>1, ConnectRefines DEF Connect, Policy!Next
<1>2. CASE Disconnect
  <2>1. Policy!Stop
    BY <1>2, DisconnectShape, PolicyAssumption
       DEF Disconnect, Take, Members, Policy!Stop, Policy!NoWait, Phase, RetriesLeft
  <2> QED BY <2>1 DEF Policy!Next
<1>3. CASE Retry
  <2>1. CASE m.state = "Failed"
    BY <1>3, <2>1, ConnectRefines DEF Retry, RetryRequested, Policy!Next
  <2>2. CASE m.state # "Failed"
    BY <1>3, <2>2, Stutters DEF Retry, RetryRequested, Take
  <2> QED BY <2>1, <2>2
<1>4. CASE Hint
  <2>1. CASE m.state = "Failed"
    <3>1. Take(Reopen(m))
      BY <1>4, <2>1 DEF Hint, SourceAvailableHint, Reopen
    <3> QED BY <2>1, <3>1, ReopenRefines DEF Waiting
  <2>2. CASE m.state # "Failed"
    BY <1>4, <2>2, Stutters DEF Hint, SourceAvailableHint, Take
  <2> QED BY <2>1, <2>2
<1>5. CASE Opened
  <2>1. CASE m.state = "Connecting"
    <3>1. /\ m'.state = "SessionOpen" /\ m'.attempts = m.attempts
          /\ m'.retryAt = m.retryAt
      BY <1>5, <2>1, InvIsSound, SessionOpenedShape DEF Opened, Take, Members, Sound
    <3> QED BY <2>1, <3>1 DEF Policy!vars, Phase, RetriesLeft
  <2>2. CASE m.state # "Connecting"
    BY <1>5, <2>2, Stutters DEF Opened, SessionOpened, Take
  <2> QED BY <2>1, <2>2
<1>6. CASE Packet
  BY <1>6, PacketRefines
<1>7. CASE Presented
  BY <1>7, PresentedRefines
<1>8. CASE Error
  BY <1>8, ErrorRefines
<1>9. CASE TickDue
  BY <1>9, TickRefines
<1>10. CASE Elapse
  BY <1>10, ElapseRefines
<1>11. CASE UNCHANGED vars
  BY <1>11, Stutters DEF vars
<1> QED
  BY <1>1, <1>2, <1>3, <1>4, <1>5, <1>6, <1>7, <1>8, <1>9, <1>10, <1>11 DEF Next

\* The machine keeps the promise of ReconnectPolicy: the budget of fast retries
\* is only refilled by the user or by a stream that is up, a failure is always
\* followed by the wait that fits the budget, and only the end of the wait, the
\* user or the relay's hint in the slow mode starts an attempt.
THEOREM PolicyIsImplemented == Spec => ImplementsPolicy
<1>1. Spec => Policy!Init
  BY InitRefines DEF Spec
<1>2. Inv /\ [Next]_vars => [Policy!Next]_(Policy!vars)
  BY StepRefines
<1> QED
  BY <1>1, <1>2, Invariance, PTL DEF Spec, ImplementsPolicy, Policy!Spec
=============================================================================
