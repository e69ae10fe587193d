--------------------------- MODULE SessionProofs ----------------------------
(***************************************************************************)
(* Proofs about one channel at run time (Session), for every policy, every *)
(* set of open errors and any number of tasks and commands.                *)
(*                                                                         *)
(* The state machine's part is taken from ConnectionProofs, instantiated   *)
(* for the machine inside the controller: its lemmas say that every input  *)
(* keeps the machine sound and returns an action that fits the move.  On   *)
(* them rest the handlers of the controller (each keeps the controller     *)
(* Well and is one transition of the machine), on these the actions of the *)
(* threads.  IInv is the inductive invariant; the four theorems are at the *)
(* end of the two last sections.                                           *)
(***************************************************************************)
EXTENDS Session, TLAPS

-----------------------------------------------------------------------------
(* The machine inside the controller is the machine of ConnectionProofs.   *)

Conn == INSTANCE ConnectionProofs WITH
    m <- c.sm, source <- IF c.sourceAlive THEN "open" ELSE "closed",
    SourceErrors <- DiagnosisReason

LEMMA ConnAssumptions == Conn!PolicyAssumption /\ Conn!SourceErrorsAssumption
  BY PolicyAssumption
     DEF Conn!PolicyAssumption, Conn!SourceErrorsAssumption, Conn!DiagnosisReason,
         DiagnosisReason

LEMMA SameTypes ==
   /\ Conn!Machine = Machine
   /\ Conn!InitialMachine = InitialMachine
   /\ Conn!DiagnosisReason = DiagnosisReason
   /\ \A x : Conn!Aged(x) = Aged(x)
  BY DEF Conn!Machine, Machine, Conn!ConnState, ConnState, Conn!DiagnosisReason,
         DiagnosisReason, Conn!Unset, Unset, Conn!LongestDelay, LongestDelay,
         Conn!InitialMachine, InitialMachine, Aged, Earlier, Older,
         Conn!Aged, Conn!Earlier, Conn!Older

LEMMA SameOps ==
   /\ \A x : Conn!ConnectRequested(x) = ConnectRequested(x)
   /\ \A x : Conn!DisconnectRequested(x) = DisconnectRequested(x)
   /\ \A x : Conn!RetryRequested(x) = RetryRequested(x)
   /\ \A x : Conn!SourceAvailableHint(x) = SourceAvailableHint(x)
   /\ \A x : Conn!SessionOpened(x) = SessionOpened(x)
   /\ \A x : Conn!PacketReceived(x) = PacketReceived(x)
   /\ \A x : Conn!FramePresented(x) = FramePresented(x)
   /\ \A x : Conn!Tick(x) = Tick(x)
   /\ \A x, reason : Conn!ErrorOccurred(x, reason) = ErrorOccurred(x, reason)
   /\ \A x, reason, next :
        Conn!BeginRetryOrFail(x, reason, next) = BeginRetryOrFail(x, reason, next)
<1> USE SameTypes DEF Conn!To, To, Conn!Stay, Stay, Conn!Unset, Unset
<1>1. \A x : Conn!ConnectRequested(x) = ConnectRequested(x)
  BY DEF Conn!ConnectRequested, ConnectRequested
<1>2. \A x : Conn!DisconnectRequested(x) = DisconnectRequested(x)
  BY DEF Conn!DisconnectRequested, DisconnectRequested
<1>3. \A x : Conn!RetryRequested(x) = RetryRequested(x)
  BY <1>1 DEF Conn!RetryRequested, RetryRequested
<1>4. \A x : Conn!SourceAvailableHint(x) = SourceAvailableHint(x)
  BY DEF Conn!SourceAvailableHint, SourceAvailableHint
<1>5. \A x : Conn!SessionOpened(x) = SessionOpened(x)
  BY DEF Conn!SessionOpened, SessionOpened
<1>6. \A x : Conn!PacketReceived(x) = PacketReceived(x)
  BY DEF Conn!PacketReceived, PacketReceived
<1>7. \A x : Conn!FramePresented(x) = FramePresented(x)
  BY DEF Conn!FramePresented, FramePresented
<1>8. \A x, reason, next :
         Conn!BeginRetryOrFail(x, reason, next) = BeginRetryOrFail(x, reason, next)
  BY DEF Conn!BeginRetryOrFail, BeginRetryOrFail, Conn!Failing, Failing,
         Conn!OneMoreAttempt, OneMoreAttempt, Conn!GiveUp, GiveUp, Conn!TryLater,
         TryLater
<1>9. \A x : Conn!Reopen(x) = Reopen(x)
  BY DEF Conn!Reopen, Reopen
<1>10. \A x : Conn!Tick(x) = Tick(x)
  BY <1>8, <1>9 DEF Conn!Tick, Tick, Conn!DataIsLate, DataIsLate, Conn!StreamIsSilent,
         StreamIsSilent, Conn!RetryIsDue, RetryIsDue
<1>11. \A x, reason : Conn!ErrorOccurred(x, reason) = ErrorOccurred(x, reason)
  BY <1>8 DEF Conn!ErrorOccurred, ErrorOccurred
<1> QED BY <1>1, <1>2, <1>3, <1>4, <1>5, <1>6, <1>7, <1>8, <1>10, <1>11

-----------------------------------------------------------------------------
(* What each input does to a sound machine. *)

Sound(x) == Conn!Sound(x)
Active(x) == x.state \in {"Connecting", "SessionOpen", "Streaming"}
Waiting(x) == x.state \in {"Reconnecting", "Stalled", "Failed"}

Fits(x, t) ==
    \/ t.action = "OpenSource" /\ Active(t.machine)
    \/ t.action = "CloseSource" /\ ~Active(t.machine)
    \/ t.action = "None" /\ (Active(t.machine) <=> Active(x))

SoundStep(x, t) == Sound(t.machine) /\ Fits(x, t)

\* Every input keeps the machine sound and returns a fitting action.
LEMMA SoundSteps ==
    ASSUME NEW x, Sound(x)
    PROVE  /\ x \in Machine
           /\ SoundStep(x, ConnectRequested(x))
           /\ SoundStep(x, DisconnectRequested(x))
           /\ SoundStep(x, RetryRequested(x))
           /\ SoundStep(x, SourceAvailableHint(x))
           /\ SoundStep(x, SessionOpened(x))
           /\ SoundStep(x, PacketReceived(x))
           /\ SoundStep(x, FramePresented(x))
           /\ SoundStep(x, Tick(x))
           /\ \A reason \in DiagnosisReason : SoundStep(x, ErrorOccurred(x, reason))
           /\ Sound(Aged(x)) /\ Aged(x).state = x.state
<1>1. Conn!Sound(x)
  BY DEF Sound
<1>2. \A y, t : Conn!SoundStep(y, t) => SoundStep(y, t)
  BY DEF Conn!SoundStep, SoundStep, Sound, Conn!Fits, Fits, Conn!Active, Active
<1>3. x \in Machine
  BY <1>1, SameTypes DEF Conn!Sound
<1>4. /\ Conn!SoundStep(x, Conn!ConnectRequested(x))
      /\ Conn!SoundStep(x, Conn!DisconnectRequested(x))
  BY <1>1, ConnAssumptions, Conn!ConnectSound, Conn!DisconnectSound
<1>5. /\ Conn!SoundStep(x, Conn!RetryRequested(x))
      /\ Conn!SoundStep(x, Conn!SourceAvailableHint(x))
  BY <1>1, ConnAssumptions, Conn!RetrySound, Conn!HintSound
<1>6. /\ Conn!SoundStep(x, Conn!SessionOpened(x))
      /\ Conn!SoundStep(x, Conn!PacketReceived(x))
      /\ Conn!SoundStep(x, Conn!FramePresented(x))
  BY <1>1, ConnAssumptions, Conn!SessionOpenedSound, Conn!PacketSound,
     Conn!PresentedSound
<1>7. Conn!SoundStep(x, Conn!Tick(x))
  BY <1>1, ConnAssumptions, Conn!TickSound
<1>8. \A reason \in Conn!DiagnosisReason : Conn!SoundStep(x, Conn!ErrorOccurred(x, reason))
  BY <1>1, ConnAssumptions, Conn!ErrorSound
<1>9. Conn!Sound(Conn!Aged(x)) /\ Conn!Aged(x).state = x.state
  BY <1>1, ConnAssumptions, Conn!AgedSound
<1> QED
  BY <1>2, <1>3, <1>4, <1>5, <1>6, <1>7, <1>8, <1>9, SameOps, SameTypes DEF Sound

-----------------------------------------------------------------------------
(* The operators of the controller, member by member. *)

LEMMA ControllerMembers ==
    ASSUME NEW x \in Controller
    PROVE  /\ x.sm \in Machine /\ x.sourceAlive \in BOOLEAN
           /\ x.failedReason \in DiagnosisReason
           /\ x.health \in [HealthStage -> StageState] /\ x.useRelay \in BOOLEAN
  BY DEF Controller

LEMMA MarkReachedKeeps ==
    ASSUME NEW x \in Controller, NEW stage \in HealthStage
    PROVE  LET y == MarkReached(x, stage)
           IN /\ y \in Controller
              /\ y.sm = x.sm /\ y.sourceAlive = x.sourceAlive /\ y.useRelay = x.useRelay
              /\ y.failedReason = x.failedReason
              /\ \A s \in HealthStage : y.health[s] =
                    IF s <= stage /\ x.health[s] # "NotApplicable" THEN "Ok" ELSE x.health[s]
<1> DEFINE h == [s \in HealthStage |->
        IF s <= stage /\ x.health[s] # "NotApplicable" THEN "Ok" ELSE x.health[s]]
<1>1. /\ h \in [HealthStage -> StageState]
      /\ \A s \in HealthStage : h[s] =
            IF s <= stage /\ x.health[s] # "NotApplicable" THEN "Ok" ELSE x.health[s]
  BY ControllerMembers DEF StageState
<1> HIDE DEF h
<1>2. ASSUME NEW y, y = [x EXCEPT !.health = h]
      PROVE  y \in Controller /\ y.sm = x.sm /\ y.sourceAlive = x.sourceAlive
             /\ y.useRelay = x.useRelay /\ y.failedReason = x.failedReason /\ y.health = h
  BY <1>1, <1>2 DEF Controller
<1>3. MarkReached(x, stage) = [x EXCEPT !.health = h]
  BY DEF MarkReached, h
<1> QED BY <1>1, <1>2, <1>3

LEMMA MarkFailedKeeps ==
    ASSUME NEW x \in Controller, NEW stage \in HealthStage, NEW reason \in DiagnosisReason
    PROVE  LET y == MarkFailed(x, stage, reason)
           IN /\ y \in Controller
              /\ y.sm = x.sm /\ y.sourceAlive = x.sourceAlive /\ y.useRelay = x.useRelay
              /\ y.failedReason = reason
              /\ \A s \in HealthStage :
                    y.health[s] = IF s = stage THEN "Failed" ELSE x.health[s]
<1> DEFINE h == [x.health EXCEPT ![stage] = "Failed"]
<1>1. h \in [HealthStage -> StageState]
      /\ \A s \in HealthStage : h[s] = IF s = stage THEN "Failed" ELSE x.health[s]
  BY ControllerMembers DEF StageState
<1> HIDE DEF h
<1>2. ASSUME NEW y, y = [x EXCEPT !.health = h, !.failedReason = reason]
      PROVE  y \in Controller /\ y.sm = x.sm /\ y.sourceAlive = x.sourceAlive
             /\ y.useRelay = x.useRelay /\ y.failedReason = reason /\ y.health = h
  BY <1>1, <1>2 DEF Controller
<1>3. MarkFailed(x, stage, reason) = [x EXCEPT !.health = h, !.failedReason = reason]
  BY DEF MarkFailed, h
<1> QED BY <1>1, <1>2, <1>3

LEMMA ResetHealthKeeps ==
    ASSUME NEW x \in Controller
    PROVE  LET y == ResetHealth(x)
           IN /\ y \in Controller
              /\ y.sm = x.sm /\ y.sourceAlive = x.sourceAlive /\ y.useRelay = x.useRelay
              /\ y.failedReason = "None"
              /\ \A s \in HealthStage : y.health[s] =
                    IF x.health[s] = "NotApplicable" THEN x.health[s] ELSE "Unknown"
<1> DEFINE h == [s \in HealthStage |->
                  IF x.health[s] = "NotApplicable" THEN x.health[s] ELSE "Unknown"]
<1>1. /\ h \in [HealthStage -> StageState] /\ "None" \in DiagnosisReason
      /\ \A s \in HealthStage : h[s] =
            IF x.health[s] = "NotApplicable" THEN x.health[s] ELSE "Unknown"
  BY ControllerMembers DEF StageState, DiagnosisReason
<1> HIDE DEF h
<1>2. ASSUME NEW y, y = [x EXCEPT !.health = h, !.failedReason = "None"]
      PROVE  y \in Controller /\ y.sm = x.sm /\ y.sourceAlive = x.sourceAlive
             /\ y.useRelay = x.useRelay /\ y.failedReason = "None" /\ y.health = h
  BY <1>1, <1>2 DEF Controller
<1>3. ResetHealth(x) = [x EXCEPT !.health = h, !.failedReason = "None"]
  BY DEF ResetHealth, h
<1> QED BY <1>1, <1>2, <1>3

Reset(x, action) == IF action = "OpenSource" THEN ResetHealth(x) ELSE x
Alive(action, before) ==
    action = "OpenSource" \/ (action # "CloseSource" /\ before)

LEMMA ApplyKeeps ==
    ASSUME NEW x \in Controller, NEW t, t.machine \in Machine,
           t.action \in {"None", "OpenSource", "CloseSource"}
    PROVE  LET y == Apply(x, t).controller
           IN /\ Apply(x, t).action = t.action
              /\ y \in Controller
              /\ y.sm = t.machine
              /\ (y.sourceAlive <=> Alive(t.action, x.sourceAlive))
              /\ y.failedReason = Reset(x, t.action).failedReason
              /\ \A s \in HealthStage : y.health[s] = Reset(x, t.action).health[s]
              /\ y.useRelay = x.useRelay
<1> DEFINE d == [x EXCEPT !.sm = t.machine]
<1>1. /\ d \in Controller
      /\ d.sm = t.machine /\ (d.sourceAlive <=> x.sourceAlive) /\ d.useRelay = x.useRelay
      /\ d.failedReason = x.failedReason /\ d.health = x.health
  BY DEF Controller
<1> HIDE DEF d
<1>2. CASE t.action = "OpenSource"
  <2>1. ResetHealth(d) \in Controller
    BY <1>1, ResetHealthKeeps
  <2>2. ASSUME NEW y, y = [ResetHealth(d) EXCEPT !.sourceAlive = TRUE]
        PROVE  /\ y \in Controller /\ y.sourceAlive
               /\ y.sm = ResetHealth(d).sm /\ y.failedReason = ResetHealth(d).failedReason
               /\ y.health = ResetHealth(d).health /\ y.useRelay = ResetHealth(d).useRelay
    BY <2>1, <2>2 DEF Controller
  <2>3. Apply(x, t) = [controller |-> [ResetHealth(d) EXCEPT !.sourceAlive = TRUE],
                       action |-> t.action]
    BY <1>2 DEF Apply, Result, d
  <2>4. /\ ResetHealth(d).sm = t.machine /\ ResetHealth(d).useRelay = x.useRelay
        /\ ResetHealth(d).failedReason = ResetHealth(x).failedReason
        /\ \A s \in HealthStage : ResetHealth(d).health[s] = ResetHealth(x).health[s]
    BY <1>1, ResetHealthKeeps
  <2> QED BY <1>2, <2>2, <2>3, <2>4 DEF Reset, Alive
<1>3. CASE t.action = "CloseSource"
  <2>2. ASSUME NEW y, y = [d EXCEPT !.sourceAlive = FALSE]
        PROVE  /\ y \in Controller /\ ~y.sourceAlive
               /\ y.sm = d.sm /\ y.failedReason = d.failedReason
               /\ y.health = d.health /\ y.useRelay = d.useRelay
    BY <1>1, <2>2 DEF Controller
  <2>3. Apply(x, t) = [controller |-> [d EXCEPT !.sourceAlive = FALSE], action |-> t.action]
    BY <1>3 DEF Apply, Result, d
  <2> QED BY <1>1, <1>3, <2>2, <2>3 DEF Reset, Alive
<1>4. CASE t.action = "None"
  <2>3. Apply(x, t) = [controller |-> d, action |-> t.action]
    BY <1>4 DEF Apply, Result, d
  <2>4. x.sourceAlive \in BOOLEAN
    BY ControllerMembers
  <2> QED BY <1>1, <1>4, <2>3, <2>4 DEF Reset, Alive
<1> QED BY <1>2, <1>3, <1>4

-----------------------------------------------------------------------------
(* The moves an input can make. *)

Opens(x, t) == ~Active(x) /\ t.action = "OpenSource" /\ t.machine.state = "Connecting"
Fails(x, t) == /\ Active(x) /\ t.action = "CloseSource" /\ Waiting(t.machine)
Stays(x, t) == t.action = "None" /\ t.machine = x
Advances(x, t, st) == t.action = "None" /\ t.machine.state = st

LEMMA FailureMoves ==
    ASSUME NEW x, Sound(x), Active(x), NEW reason, NEW next \in {"Reconnecting", "Stalled"}
    PROVE  LET t == BeginRetryOrFail(x, reason, next)
           IN Fails(x, t) /\ t.machine.lastReason \in {reason, "GaveUp"}
<1>1. Conn!Sound(x) /\ Conn!Active(x)
  BY DEF Sound, Active, Conn!Active
<1>2. \/ BeginRetryOrFail(x, reason, next) =
            Conn!To(Conn!Members("Failed", Conn!OneMoreAttempt(x), "GaveUp",
                              Conn!Unset, Conn!Unset,
                              SlowRetryDelay, Conn!Unset), "CloseSource")
      \/ BeginRetryOrFail(x, reason, next) =
            Conn!To(Conn!Members(next, Conn!OneMoreAttempt(x), reason, Conn!Unset, Conn!Unset,
                               RetryDelay, Conn!Unset), "CloseSource")
  BY <1>1, ConnAssumptions, Conn!FailureShape, SameOps
<1> QED BY <1>2 DEF Fails, Waiting, Conn!To, Conn!Members

LEMMA ReopenMoves ==
    ASSUME NEW x, Sound(x), Waiting(x)
    PROVE  Opens(x, Reopen(x))
  BY SoundSteps DEF Reopen, Opens, Active, Waiting, To, Machine

LEMMA Moves ==
    ASSUME NEW x, Sound(x)
    PROVE  /\ LET t == ConnectRequested(x)
              IN t.action = "OpenSource" /\ t.machine.state = "Connecting"
           /\ LET t == DisconnectRequested(x)
              IN t.action = "CloseSource" /\ t.machine.state = "Idle"
           /\ LET t == RetryRequested(x) IN Stays(x, t) \/ Opens(x, t)
           /\ LET t == SourceAvailableHint(x) IN Stays(x, t) \/ Opens(x, t)
           /\ LET t == SessionOpened(x)
              IN Stays(x, t) \/ (Active(x) /\ Advances(x, t, "SessionOpen"))
           /\ LET t == PacketReceived(x)
              IN Stays(x, t) \/ (Active(x) /\ Advances(x, t, "Streaming"))
           /\ LET t == FramePresented(x)
              IN Stays(x, t) \/ (x.state = "Streaming" /\ Advances(x, t, "Streaming"))
           /\ LET t == Tick(x)
              IN \/ Stays(x, t)
                 \/ Opens(x, t)
                 \/ Fails(x, t) /\ t.machine.lastReason \in {"NoPackets", "GaveUp"}
           /\ \A reason : LET t == ErrorOccurred(x, reason)
              IN (~Active(x) /\ Stays(x, t)) \/ Fails(x, t)
<1>0. x \in Machine
  BY SoundSteps
<1>1. LET t == ConnectRequested(x)
              IN t.action = "OpenSource" /\ t.machine.state = "Connecting"
  BY DEF ConnectRequested, InitialMachine, To
<1>2. LET t == DisconnectRequested(x)
              IN t.action = "CloseSource" /\ t.machine.state = "Idle"
  BY DEF DisconnectRequested, InitialMachine, To
<1>3. LET t == RetryRequested(x) IN Stays(x, t) \/ Opens(x, t)
  BY <1>1 DEF RetryRequested, Stays, Opens, Stay, To, Active
<1>4. LET t == SourceAvailableHint(x) IN Stays(x, t) \/ Opens(x, t)
  BY ReopenMoves DEF SourceAvailableHint, Reopen, Stays, Stay, To, Waiting
<1>5. LET t == SessionOpened(x)
              IN Stays(x, t) \/ (Active(x) /\ Advances(x, t, "SessionOpen"))
  BY <1>0 DEF SessionOpened, Stays, Stay, To, Active, Advances, Machine
<1>6. LET t == PacketReceived(x)
              IN Stays(x, t) \/ (Active(x) /\ Advances(x, t, "Streaming"))
  BY <1>0 DEF PacketReceived, Stays, Stay, To, Active, Advances, Machine
<1>7. LET t == FramePresented(x)
              IN Stays(x, t) \/ (x.state = "Streaming" /\ Advances(x, t, "Streaming"))
  BY <1>0 DEF FramePresented, Stays, Stay, To, Active, Advances, Machine
<1>8. LET t == Tick(x)
              IN \/ Stays(x, t)
                 \/ Opens(x, t)
                 \/ Fails(x, t) /\ t.machine.lastReason \in {"NoPackets", "GaveUp"}
  <2>1. CASE DataIsLate(x)
    <3>1. Tick(x) = BeginRetryOrFail(x, "NoPackets", "Reconnecting") /\ Active(x)
      BY <2>1 DEF Tick, DataIsLate, StreamIsSilent, RetryIsDue, Active
    <3> QED BY <3>1, FailureMoves
  <2>2. CASE ~DataIsLate(x) /\ StreamIsSilent(x)
    <3>1. Tick(x) = BeginRetryOrFail(x, "NoPackets", "Stalled") /\ Active(x)
      BY <2>2 DEF Tick, DataIsLate, StreamIsSilent, RetryIsDue, Active
    <3> QED BY <3>1, FailureMoves
  <2>3. CASE ~DataIsLate(x) /\ ~StreamIsSilent(x) /\ RetryIsDue(x)
    <3>1. Waiting(x)
      BY <2>3 DEF RetryIsDue, Waiting
    <3>2. Tick(x) = Reopen(x)
      BY <2>3 DEF Tick, DataIsLate, StreamIsSilent, RetryIsDue
    <3> QED BY <3>1, <3>2, ReopenMoves
  <2>4. CASE ~DataIsLate(x) /\ ~StreamIsSilent(x) /\ ~RetryIsDue(x)
    BY <2>4 DEF Tick, Stays, Stay, To
  <2> QED BY <2>1, <2>2, <2>3, <2>4
<1>9. ASSUME NEW reason
      PROVE LET t == ErrorOccurred(x, reason)
            IN (~Active(x) /\ Stays(x, t)) \/ Fails(x, t)
  <2>1. CASE x.state \in {"Connecting", "SessionOpen"}
    BY <2>1, FailureMoves DEF ErrorOccurred, Active
  <2>2. CASE x.state = "Streaming"
    BY <2>2, FailureMoves DEF ErrorOccurred, Active
  <2>3. CASE ~Active(x)
    BY <2>3 DEF ErrorOccurred, Active, Stays, Stay, To
  <2> QED BY <2>1, <2>2, <2>3 DEF Active
<1> QED BY <1>1, <1>2, <1>3, <1>4, <1>5, <1>6, <1>7, <1>8, <1>9

-----------------------------------------------------------------------------
(* The handlers of the controller. *)

\* The source is alive exactly while the machine tries or streams.
Fit(x) == Sound(x.sm) /\ (x.sourceAlive <=> Active(x.sm))

\* The diagnosis fits the state, and no waiting controller lacks its reason.
Explained(x) ==
    /\ x.health[RtspSession] # "NotApplicable" /\ x.health[PacketFlow] # "NotApplicable"
    /\ Waiting(x.sm) =>
          /\ x.failedReason # "None"
          /\ x.health[RtspSession] = "Failed" \/ x.health[PacketFlow] = "Failed"
    /\ x.sm.state = "Streaming" =>
          x.health[RtspSession] = "Ok" /\ x.health[PacketFlow] = "Ok"

Well(x) == x \in Controller /\ Fit(x) /\ Explained(x)

Answers(x, t) ==
    \/ t \in {ConnectRequested(x), DisconnectRequested(x), RetryRequested(x),
              SourceAvailableHint(x), SessionOpened(x), PacketReceived(x),
              FramePresented(x), Tick(x), Stay(x)}
    \/ \E reason \in DiagnosisReason : t = ErrorOccurred(x, reason)

\* r is what came of transition t.
Carried(x, r, t) ==
    /\ r.action = t.action
    /\ r.controller.sm = t.machine
    /\ r.controller.sourceAlive <=> Alive(t.action, x.sourceAlive)

\* r is a well-formed controller, one transition of the machine further.
Handles(x, r) ==
    /\ Well(r.controller)
    /\ \E t : Answers(x.sm, t) /\ Carried(x, r, t)

\* Short of a connect, no handler opens a source that is alive.
Reacts(x, r) == Handles(x, r) /\ (r.action = "OpenSource" => ~x.sourceAlive)

LEMMA Stages == RtspSession \in HealthStage /\ PacketFlow \in HealthStage
  /\ RelayIntake \in HealthStage /\ Decoding \in HealthStage /\ Presenting \in HealthStage
  /\ RelayIntake < RtspSession /\ RtspSession < PacketFlow
  /\ PacketFlow < Decoding /\ Decoding < Presenting
  /\ RelayIntake # RtspSession /\ RelayIntake # PacketFlow /\ RtspSession # PacketFlow
  BY DEF HealthStage, DeviceReach, RelayIntake, RtspSession, PacketFlow, Decoding,
         Presenting

LEMMA AppliedFits ==
    ASSUME NEW x \in Controller, Fit(x), NEW t, SoundStep(x.sm, t)
    PROVE  LET y == Apply(x, t).controller
           IN y \in Controller /\ Fit(y) /\ Carried(x, Apply(x, t), t)
<1>1. t.machine \in Machine /\ t.action \in {"None", "OpenSource", "CloseSource"}
  BY SoundSteps DEF SoundStep, Fits
<1> DEFINE y == Apply(x, t).controller
<1>2. /\ y \in Controller
      /\ y.sm = t.machine
      /\ (y.sourceAlive <=> Alive(t.action, x.sourceAlive))
      /\ Apply(x, t).action = t.action
  BY <1>1, ApplyKeeps
<1>3. Fit(y)
  BY <1>2 DEF Fit, SoundStep, Fits, Alive
<1> QED BY <1>2, <1>3 DEF Carried

LEMMA AppliedStages ==
    ASSUME NEW x \in Controller, Fit(x), NEW t, SoundStep(x.sm, t)
    PROVE  LET y == Apply(x, t).controller
           IN /\ t.action = "OpenSource" =>
                   /\ y.failedReason = "None"
                   /\ \A s \in HealthStage :
                         (y.health[s] = "NotApplicable") <=> (x.health[s] = "NotApplicable")
              /\ t.action # "OpenSource" =>
                   /\ y.failedReason = x.failedReason
                   /\ \A s \in HealthStage : y.health[s] = x.health[s]
<1>1. t.machine \in Machine /\ t.action \in {"None", "OpenSource", "CloseSource"}
  BY SoundSteps DEF SoundStep, Fits
<1>2. ASSUME t.action # "OpenSource" PROVE Reset(x, t.action) = x
  BY <1>2 DEF Reset
<1>3. ASSUME t.action = "OpenSource"
      PROVE  /\ Reset(x, t.action).failedReason = "None"
             /\ \A s \in HealthStage : (Reset(x, t.action).health[s] = "NotApplicable")
                                          <=> (x.health[s] = "NotApplicable")
  BY <1>3, ResetHealthKeeps DEF Reset
<1> QED BY <1>1, <1>2, <1>3, ApplyKeeps

LEMMA ConnectHandles ==
    ASSUME NEW x, x \in Controller, Fit(x),
           x.health[RtspSession] # "NotApplicable" /\ x.health[PacketFlow] # "NotApplicable"
    PROVE  /\ Handles(x, Connect(x)) /\ Connect(x).action = "OpenSource"
           /\ Connect(x).controller.sourceAlive
<1> DEFINE t == ConnectRequested(x.sm)
<1>1. SoundStep(x.sm, t) /\ t.action = "OpenSource" /\ t.machine.state = "Connecting"
  BY SoundSteps, Moves DEF Fit
<1>2. Answers(x.sm, t)
  BY DEF Answers
<1> HIDE DEF t
<1>3. /\ Carried(x, Apply(x, t), t)
      /\ Apply(x, t).controller \in Controller
      /\ Fit(Apply(x, t).controller)
  BY <1>1, AppliedFits
<1>4. Explained(Apply(x, t).controller)
  BY <1>1, <1>3, AppliedStages, Stages DEF Explained, Carried, Waiting
<1> QED BY <1>1, <1>2, <1>3, <1>4 DEF Connect, t, Handles, Well, Carried, Alive

LEMMA DisconnectHandles ==
    ASSUME NEW x, Well(x)
    PROVE  Handles(x, Disconnect(x)) /\ ~Disconnect(x).controller.sourceAlive
<1> DEFINE t == DisconnectRequested(x.sm)
<1>1. SoundStep(x.sm, t) /\ t.action = "CloseSource" /\ t.machine.state = "Idle"
  BY SoundSteps, Moves DEF Fit, Well
<1>2. Answers(x.sm, t)
  BY DEF Answers
<1> HIDE DEF t
<1>3. /\ Carried(x, Apply(x, t), t)
      /\ Apply(x, t).controller \in Controller
      /\ Fit(Apply(x, t).controller)
  BY <1>1, AppliedFits DEF Well
<1>4. Explained(Apply(x, t).controller)
  BY <1>1, <1>3, AppliedStages, Stages DEF Explained, Carried, Waiting, Well
<1> QED BY <1>1, <1>2, <1>3, <1>4 DEF Disconnect, t, Handles, Well, Carried, Alive

\* A transition that does nothing, or opens the source after a wait.
LEMMA QuietHandles ==
    ASSUME NEW x, Well(x), NEW t, Answers(x.sm, t), SoundStep(x.sm, t),
           Stays(x.sm, t) \/ Opens(x.sm, t)
    PROVE  Reacts(x, Apply(x, t))
<1>3. /\ Carried(x, Apply(x, t), t)
      /\ Apply(x, t).controller \in Controller
      /\ Fit(Apply(x, t).controller)
  BY AppliedFits DEF Well
<1>4. CASE Stays(x.sm, t)
  <2>1. Explained(Apply(x, t).controller)
    BY <1>3, <1>4, AppliedStages, Stages DEF Explained, Carried, Well, Stays
  <2> QED BY <1>3, <1>4, <2>1 DEF Reacts, Handles, Well, Carried, Stays
<1>5. CASE Opens(x.sm, t)
  <2>1. Explained(Apply(x, t).controller)
    BY <1>3, <1>5, AppliedStages, Stages DEF Explained, Carried, Well, Opens, Waiting
  <2> QED BY <1>3, <1>5, <2>1 DEF Reacts, Handles, Well, Carried, Opens, Fit
<1> QED BY <1>4, <1>5

\* Marking a stage reached keeps what is explained, when the stage is one the
\* machine's state allows.
LEMMA ReachedIsWell ==
    ASSUME NEW x \in Controller, Fit(x), NEW stage \in HealthStage,
           x.health[RtspSession] # "NotApplicable" /\ x.health[PacketFlow] # "NotApplicable",
           \/ ~Waiting(x.sm) /\ stage >= PacketFlow
           \/ ~Waiting(x.sm) /\ Explained(x)
           \/ stage = RelayIntake /\ Explained(x)
    PROVE  Well(MarkReached(x, stage))
<1> DEFINE y == MarkReached(x, stage)
<1>1. /\ y \in Controller
      /\ y.sm = x.sm /\ (y.sourceAlive <=> x.sourceAlive) /\ y.failedReason = x.failedReason
      /\ \A s \in HealthStage : y.health[s] =
            IF s <= stage /\ x.health[s] # "NotApplicable" THEN "Ok" ELSE x.health[s]
  BY MarkReachedKeeps
<1>2. Fit(y)
  BY <1>1 DEF Fit
<1>3. /\ y.health[RtspSession] = IF RtspSession <= stage THEN "Ok" ELSE x.health[RtspSession]
      /\ y.health[PacketFlow] = IF PacketFlow <= stage THEN "Ok" ELSE x.health[PacketFlow]
  BY <1>1, Stages
<1> HIDE DEF y
<1>4. Explained(y)
  BY <1>1, <1>3, Stages DEF Explained, Waiting, HealthStage, DeviceReach, Presenting,
         PacketFlow, RtspSession, RelayIntake
<1> QED BY <1>1, <1>2, <1>4 DEF Well, y

\* Marking a stage failed explains a wait.
LEMMA FailedIsWell ==
    ASSUME NEW x \in Controller, Fit(x), NEW stage \in {RelayIntake, RtspSession, PacketFlow},
           NEW reason \in DiagnosisReason, reason # "None",
           x.health[RtspSession] # "NotApplicable" /\ x.health[PacketFlow] # "NotApplicable",
           \/ Waiting(x.sm) /\ stage # RelayIntake
           \/ stage = RelayIntake /\ Explained(x)
    PROVE  Well(MarkFailed(x, stage, reason))
<1> DEFINE y == MarkFailed(x, stage, reason)
<1>1. /\ y \in Controller
      /\ y.sm = x.sm /\ (y.sourceAlive <=> x.sourceAlive) /\ y.failedReason = reason
      /\ \A s \in HealthStage :
                    y.health[s] = IF s = stage THEN "Failed" ELSE x.health[s]
  <2>1. stage \in HealthStage
    BY Stages
  <2> QED BY <2>1, MarkFailedKeeps
<1>2. Fit(y)
  BY <1>1 DEF Fit
<1>3. /\ y.health[RtspSession] =
            IF RtspSession = stage THEN "Failed" ELSE x.health[RtspSession]
      /\ y.health[PacketFlow] =
            IF PacketFlow = stage THEN "Failed" ELSE x.health[PacketFlow]
  BY <1>1, Stages
<1> HIDE DEF y
<1>4. Explained(y)
  BY <1>1, <1>3 DEF Explained, Waiting, PacketFlow, RtspSession, RelayIntake
<1> QED BY <1>1, <1>2, <1>4 DEF Well, y

LEMMA RetryReacts ==
    ASSUME NEW x, Well(x)
    PROVE  Reacts(x, Retry(x)) /\ Reacts(x, NotifySourceAvailable(x))
<1>1. /\ Answers(x.sm, RetryRequested(x.sm)) /\ SoundStep(x.sm, RetryRequested(x.sm))
      /\ Stays(x.sm, RetryRequested(x.sm)) \/ Opens(x.sm, RetryRequested(x.sm))
  BY SoundSteps, Moves DEF Well, Fit, Answers
<1>2. /\ Answers(x.sm, SourceAvailableHint(x.sm))
      /\ SoundStep(x.sm, SourceAvailableHint(x.sm))
      /\ Stays(x.sm, SourceAvailableHint(x.sm)) \/ Opens(x.sm, SourceAvailableHint(x.sm))
  BY SoundSteps, Moves DEF Well, Fit, Answers
<1> QED BY <1>1, <1>2, QuietHandles DEF Retry, NotifySourceAvailable

LEMMA IgnoredReacts ==
    ASSUME NEW x, NEW y, Well(y), y.sm = x.sm, y.sourceAlive <=> x.sourceAlive
    PROVE  Reacts(x, Ignored(y))
<1>1. Answers(x.sm, Stay(x.sm)) /\ Carried(x, Ignored(y), Stay(x.sm))
  BY DEF Answers, Carried, Ignored, Result, Stay, To, Alive
<1> QED BY <1>1 DEF Reacts, Handles, Ignored, Result

LEMMA RelayHealthReacts ==
    ASSUME NEW x, Well(x), NEW up \in BOOLEAN
    PROVE  Reacts(x, OnRelayHealth(x, up, "RelayNoSource"))
<1>0. x \in Controller /\ Fit(x) /\ Explained(x)
      /\ x.health[RtspSession] # "NotApplicable" /\ x.health[PacketFlow] # "NotApplicable"
      /\ RelayIntake \in HealthStage
  BY Stages DEF Well, Explained
<1>1. CASE ~x.useRelay
  BY <1>1, IgnoredReacts DEF OnRelayHealth
<1>2. CASE x.useRelay /\ up
  <2> DEFINE y == MarkReached(x, RelayIntake)
  <2>1. Well(y)
    BY <1>0, ReachedIsWell
  <2>2. y.sm = x.sm /\ (y.sourceAlive <=> x.sourceAlive)
    BY <1>0, MarkReachedKeeps
  <2> HIDE DEF y
  <2>3. Reacts(y, NotifySourceAvailable(y))
    BY <2>1, RetryReacts
  <2>4. Reacts(x, NotifySourceAvailable(y))
    BY <2>2, <2>3 DEF Reacts, Handles, Carried, Alive
  <2> QED BY <1>2, <2>4 DEF OnRelayHealth, y
<1>3. CASE x.useRelay /\ ~up
  <2> DEFINE y == MarkFailed(x, RelayIntake, "RelayNoSource")
  <2>0. "RelayNoSource" \in DiagnosisReason
    BY DEF DiagnosisReason
  <2>1. Well(y)
    BY <1>0, <2>0, FailedIsWell
  <2>2. y.sm = x.sm /\ (y.sourceAlive <=> x.sourceAlive)
    BY <1>0, <2>0, MarkFailedKeeps
  <2> HIDE DEF y
  <2> QED BY <1>3, <2>1, <2>2, IgnoredReacts DEF OnRelayHealth, y
<1> QED BY <1>1, <1>2, <1>3

\* Events: nothing is heard without a source.
LEMMA DecodedReacts ==
    ASSUME NEW x, Well(x)
    PROVE  Reacts(x, OnFrameDecoded(x))
<1>0. x \in Controller /\ Fit(x) /\ Explained(x)
      /\ x.health[RtspSession] # "NotApplicable" /\ x.health[PacketFlow] # "NotApplicable"
      /\ Decoding \in HealthStage /\ Decoding >= PacketFlow
  BY Stages DEF Well, Explained, Decoding, PacketFlow
<1>1. CASE ~x.sourceAlive
  BY <1>1, IgnoredReacts DEF OnFrameDecoded
<1>2. CASE x.sourceAlive
  <2>1. ~Waiting(x.sm)
    BY <1>0, <1>2 DEF Fit, Active, Waiting
  <2>2. Well(MarkReached(x, Decoding))
    BY <1>0, <2>1, ReachedIsWell
  <2>3. MarkReached(x, Decoding).sm = x.sm
        /\ (MarkReached(x, Decoding).sourceAlive <=> x.sourceAlive)
    BY <1>0, MarkReachedKeeps
  <2> QED BY <1>2, <2>2, <2>3, IgnoredReacts DEF OnFrameDecoded
<1> QED BY <1>1, <1>2

\* A transition that keeps the session, followed by a stage that is reached.
LEMMA MarkedReacts ==
    ASSUME NEW x, Well(x), x.sourceAlive, NEW t, Answers(x.sm, t), SoundStep(x.sm, t),
           t.action = "None", NEW stage \in {RtspSession, PacketFlow, Presenting},
           stage = RtspSession => t.machine.state = "SessionOpen"
    PROVE  Reacts(x, Result(MarkReached(Apply(x, t).controller, stage), Apply(x, t).action))
<1> DEFINE z == Apply(x, t).controller
           y == MarkReached(z, stage)
<1>0. stage \in HealthStage
  BY Stages
<1>1. z \in Controller /\ Fit(z) /\ Carried(x, Apply(x, t), t)
  BY AppliedFits DEF Well
<1>2. \A s \in HealthStage : z.health[s] = x.health[s]
  BY AppliedStages DEF Well
<1>3. z.health[RtspSession] # "NotApplicable" /\ z.health[PacketFlow] # "NotApplicable"
  BY <1>2, Stages DEF Well, Explained
<1>4. ~Waiting(z.sm)
  BY <1>1 DEF Carried, Well, Fit, SoundStep, Fits, Active, Waiting
<1>5. z.sm.state = "SessionOpen" => Explained(z)
  BY <1>3, <1>4 DEF Explained
<1> HIDE DEF z
<1>6. Well(y)
  <2>1. CASE stage = RtspSession
    <3>1. Explained(z)
      BY <1>1, <1>5, <2>1 DEF Carried, z
    <3> QED BY <1>0, <1>1, <1>3, <1>4, <3>1, ReachedIsWell
  <2>2. CASE stage # RtspSession
    <3>1. stage >= PacketFlow
      BY <2>2 DEF PacketFlow, Presenting
    <3> QED BY <1>0, <1>1, <1>3, <1>4, <3>1, ReachedIsWell
  <2> QED BY <2>1, <2>2
<1>7. y.sm = z.sm /\ (y.sourceAlive <=> z.sourceAlive)
  BY <1>0, <1>1, MarkReachedKeeps
<1> HIDE DEF y
<1>8. Carried(x, Result(y, Apply(x, t).action), t)
  BY <1>1, <1>7 DEF Carried, Result, z
<1>9. /\ Result(y, Apply(x, t).action).controller = y
      /\ Result(y, Apply(x, t).action).action = "None"
  BY <1>1 DEF Result, Carried
<1>10. Reacts(x, Result(y, Apply(x, t).action))
  BY <1>6, <1>8, <1>9 DEF Reacts, Handles
<1> QED BY <1>10 DEF y, z

LEMMA EventsReact ==
    ASSUME NEW x, Well(x)
    PROVE  /\ Reacts(x, OnSessionOpened(x))
           /\ Reacts(x, OnPacketReceived(x))
           /\ Reacts(x, OnFramePresented(x))
<1>1. CASE ~x.sourceAlive
  BY <1>1, IgnoredReacts DEF OnSessionOpened, OnPacketReceived, OnFramePresented
<1>2. CASE x.sourceAlive
  <2>0. Active(x.sm)
    BY <1>2 DEF Well, Fit
  <2>1. Reacts(x, OnSessionOpened(x))
    <3> DEFINE t == SessionOpened(x.sm)
               z == Apply(x, t).controller
    <3>1. /\ Answers(x.sm, t) /\ SoundStep(x.sm, t) /\ t.action = "None"
          /\ Stays(x.sm, t) \/ t.machine.state = "SessionOpen"
      BY SoundSteps, Moves DEF Well, Fit, Answers, Stays, Advances
    <3> HIDE DEF t
    <3>2. z.sm = t.machine
      BY <3>1, AppliedFits DEF Well, Carried
    <3>3. CASE z.sm.state = "SessionOpen"
      <4>1. Reacts(x, Result(MarkReached(z, RtspSession), Apply(x, t).action))
        BY <1>2, <3>1, <3>2, <3>3, MarkedReacts
      <4> QED BY <1>2, <3>3, <4>1 DEF OnSessionOpened, t
    <3>4. CASE z.sm.state # "SessionOpen"
      <4>1. Reacts(x, Apply(x, t))
        BY <3>1, <3>2, <3>4, QuietHandles
      <4> QED BY <1>2, <3>4, <4>1 DEF OnSessionOpened, t
    <3> QED BY <3>3, <3>4
  <2>2. Reacts(x, OnPacketReceived(x))
    <3> DEFINE t == PacketReceived(x.sm)
    <3>1. /\ Answers(x.sm, t) /\ SoundStep(x.sm, t) /\ t.action = "None"
      BY SoundSteps, Moves DEF Well, Fit, Answers, Stays, Advances
    <3> HIDE DEF t
    <3>2. /\ PacketFlow \in {RtspSession, PacketFlow, Presenting}
          /\ PacketFlow # RtspSession
      BY DEF PacketFlow, RtspSession
    <3>3. Reacts(x, Result(MarkReached(Apply(x, t).controller, PacketFlow),
                           Apply(x, t).action))
      BY <1>2, <3>1, <3>2, MarkedReacts
    <3> QED BY <1>2, <3>3 DEF OnPacketReceived, t
  <2>3. Reacts(x, OnFramePresented(x))
    <3> DEFINE t == FramePresented(x.sm)
    <3>1. /\ Answers(x.sm, t) /\ SoundStep(x.sm, t) /\ t.action = "None"
      BY SoundSteps, Moves DEF Well, Fit, Answers, Stays, Advances
    <3> HIDE DEF t
    <3>2. /\ Presenting \in {RtspSession, PacketFlow, Presenting}
          /\ Presenting # RtspSession
      BY DEF Presenting, RtspSession
    <3>3. Reacts(x, Result(MarkReached(Apply(x, t).controller, Presenting),
                           Apply(x, t).action))
      BY <1>2, <3>1, <3>2, MarkedReacts
    <3> QED BY <1>2, <3>3 DEF OnFramePresented, t
  <2> QED BY <2>1, <2>2, <2>3
<1> QED BY <1>1, <1>2

LEMMA ErrorReacts ==
    ASSUME NEW x, Well(x), NEW reason \in DiagnosisReason \ {"None"}
    PROVE  Reacts(x, OnSourceError(x, reason))
<1>1. CASE ~x.sourceAlive
  BY <1>1, IgnoredReacts DEF OnSourceError
<1>2. CASE x.sourceAlive
  <2> DEFINE cause == ReportedReason(x, reason)
             stage == IF x.sm.state = "Streaming" THEN PacketFlow ELSE RtspSession
             t == ErrorOccurred(x.sm, cause)
             z == Apply(x, t).controller
             y == MarkFailed(z, stage, cause)
  <2>1. cause \in DiagnosisReason /\ cause # "None"
    BY DEF ReportedReason, DiagnosisReason
  <2>2. stage \in {RtspSession, PacketFlow}
    OBVIOUS
  <2>3. OnSourceError(x, reason) = Result(y, Apply(x, t).action)
    BY <1>2 DEF OnSourceError
  <2> HIDE DEF cause, stage
  <2>4. Answers(x.sm, t) /\ SoundStep(x.sm, t) /\ Fails(x.sm, t)
    <3>1. Active(x.sm) /\ Sound(x.sm)
      BY <1>2 DEF Well, Fit
    <3> QED BY <2>1, <3>1, SoundSteps, Moves DEF Answers
  <2> HIDE DEF t
  <2>5. z \in Controller /\ Fit(z) /\ Carried(x, Apply(x, t), t)
    BY <2>4, AppliedFits DEF Well
  <2>6. \A s \in HealthStage : z.health[s] = x.health[s]
    BY <2>4, AppliedStages DEF Well, Fails
  <2>7. /\ z.health[RtspSession] # "NotApplicable" /\ z.health[PacketFlow] # "NotApplicable"
        /\ Waiting(z.sm) /\ stage # RelayIntake /\ stage \in HealthStage
    <3>1. Waiting(z.sm)
      BY <2>4, <2>5 DEF Carried, Fails
    <3>2. stage # RelayIntake /\ stage \in HealthStage
      BY <2>2, Stages
    <3> QED BY <2>6, <3>1, <3>2, Stages DEF Well, Explained
  <2> HIDE DEF z
  <2>8. Well(y)
    BY <2>1, <2>2, <2>5, <2>7, FailedIsWell
  <2>9. y.sm = z.sm /\ (y.sourceAlive <=> z.sourceAlive)
    BY <2>1, <2>5, <2>7, MarkFailedKeeps
  <2> HIDE DEF y
  <2>10. Carried(x, Result(y, Apply(x, t).action), t)
    BY <2>5, <2>9 DEF Carried, Result, z
  <2>11. Result(y, Apply(x, t).action).controller = y
         /\ Result(y, Apply(x, t).action).action = "CloseSource"
    BY <2>4, <2>5 DEF Result, Carried, Fails
  <2> QED BY <2>3, <2>4, <2>8, <2>10, <2>11 DEF Reacts, Handles
<1> QED BY <1>1, <1>2

\* A timeout is marked before its action is carried out.
LEMMA TickReacts ==
    ASSUME NEW x, Well(x)
    PROVE  Reacts(x, ControllerTick(x))
<1> DEFINE t == Tick(x.sm)
           failed == /\ t.machine.state # x.sm.state
                     /\ t.machine.state \in {"Reconnecting", "Stalled", "Failed"}
<1>1. /\ Answers(x.sm, t) /\ SoundStep(x.sm, t)
      /\ \/ Stays(x.sm, t)
         \/ Opens(x.sm, t)
         \/ Fails(x.sm, t) /\ t.machine.lastReason \in {"NoPackets", "GaveUp"}
  BY SoundSteps, Moves DEF Well, Fit, Answers
<1>2. ControllerTick(x) = Apply(IF failed THEN MarkFailed(x, PacketFlow, t.machine.lastReason)
                                          ELSE x, t)
  BY DEF ControllerTick
<1> HIDE DEF t
<1>3. CASE Stays(x.sm, t) \/ Opens(x.sm, t)
  <2>1. ~failed
    BY <1>3 DEF Stays, Opens
  <2> QED BY <1>1, <1>2, <1>3, <2>1, QuietHandles
<1>4. CASE Fails(x.sm, t) /\ t.machine.lastReason \in {"NoPackets", "GaveUp"}
  <2> DEFINE w == MarkFailed(x, PacketFlow, t.machine.lastReason)
             y == Apply(w, t).controller
  <2>1. failed
    BY <1>4 DEF Fails, Active, Waiting
  <2>2. t.machine.lastReason \in DiagnosisReason /\ t.machine.lastReason # "None"
        /\ PacketFlow \in HealthStage
    BY <1>4, Stages DEF DiagnosisReason
  <2>3. /\ w \in Controller /\ w.sm = x.sm /\ (w.sourceAlive <=> x.sourceAlive)
        /\ w.failedReason = t.machine.lastReason
        /\ w.health[PacketFlow] = "Failed"
        /\ w.health[RtspSession] = x.health[RtspSession]
    <3>1. x \in Controller
      BY DEF Well
    <3>2. /\ w \in Controller /\ w.sm = x.sm /\ (w.sourceAlive <=> x.sourceAlive)
          /\ w.failedReason = t.machine.lastReason
          /\ \A s \in HealthStage :
                w.health[s] = IF s = PacketFlow THEN "Failed" ELSE x.health[s]
      BY <2>2, <3>1, MarkFailedKeeps
    <3> QED BY <3>2, Stages
  <2> HIDE DEF w
  <2>4. Fit(w)
    BY <2>3 DEF Fit, Well
  <2>5. /\ y \in Controller /\ Fit(y) /\ Carried(w, Apply(w, t), t)
    BY <1>1, <2>3, <2>4, AppliedFits
  <2>6. y.failedReason = w.failedReason /\ \A s \in HealthStage : y.health[s] = w.health[s]
    BY <1>1, <1>4, <2>3, <2>4, AppliedStages DEF Fails
  <2>7. y.sm = t.machine /\ Apply(w, t).action = "CloseSource"
    BY <1>4, <2>5 DEF Carried, Fails
  <2>8. Explained(y)
    <3>1. y.health[PacketFlow] = "Failed" /\ y.health[RtspSession] # "NotApplicable"
      BY <2>3, <2>6, Stages DEF Well, Explained
    <3>2. Waiting(y.sm) /\ y.sm.state # "Streaming"
      BY <1>4, <2>7 DEF Fails, Waiting
    <3> QED BY <2>2, <2>3, <2>6, <3>1, <3>2 DEF Explained
  <2>9. Carried(x, Apply(w, t), t)
    BY <2>3, <2>5 DEF Carried, Alive
  <2> QED BY <1>1, <1>2, <2>1, <2>5, <2>7, <2>8, <2>9 DEF Reacts, Handles, Well, w
<1> QED BY <1>1, <1>3, <1>4

-----------------------------------------------------------------------------
(* The inductive invariant. *)

\* A task that will reach the controller as an event of its source.
Heard(task) == task.kind \in SourceEvents /\ ~task.detached
Silent(q) == \A i \in DOMAIN q : ~Heard(q[i])

TasksOK(q) ==
    /\ q \in Seq(Task)
    /\ \A i \in DOMAIN q : q[i].kind = "error" => q[i].reason # "None"
    /\ \A i \in DOMAIN q : Heard(q[i]) => q[i].session = "this"

NoRestore(q) == \A i \in DOMAIN q : q[i].kind # "restore"

\* Without an open session no decode thread runs and no event is on its way;
\* inside close the thread has been told to stop and the controller has given
\* its source up; restore comes first, before anything was opened.
IInv ==
    /\ TypeOK
    /\ Well(c)
    /\ TasksOK(queue)
    /\ control = "ready" /\ ~(c.sourceAlive /\ exists) => Finished /\ Silent(queue)
    /\ control = "ready" /\ ~Finished => ~thread.stop
    /\ control # "ready" => thread.stop /\ ~c.sourceAlive /\ exists
    /\ \A i \in DOMAIN queue :
          queue[i].kind = "restore" => i = 1 /\ control = "ready" /\ ~c.sourceAlive /\ exists

-----------------------------------------------------------------------------
(* The queue. *)

LEMMA TailTasks ==
    ASSUME NEW q, TasksOK(q), q # <<>>
    PROVE  /\ Head(q) \in Task /\ 1 \in DOMAIN q /\ Head(q) = q[1]
           /\ Head(q).kind = "error" => Head(q).reason # "None"
           /\ TasksOK(Tail(q))
           /\ \A i \in DOMAIN Tail(q) :
                 i + 1 \in DOMAIN q /\ i + 1 # 1 /\ Tail(q)[i] = q[i + 1]
           /\ Silent(q) => Silent(Tail(q))
<1>1. q \in Seq(Task)
  BY DEF TasksOK
<1>2. /\ Tail(q) \in Seq(Task)
      /\ \A i \in DOMAIN Tail(q) :
                 i + 1 \in DOMAIN q /\ i + 1 # 1 /\ Tail(q)[i] = q[i + 1]
  BY <1>1
<1>3. Head(q) \in Task /\ 1 \in DOMAIN q /\ Head(q) = q[1]
  BY <1>1
<1> QED BY <1>2, <1>3 DEF TasksOK, Silent

LEMMA AppendTask ==
    ASSUME NEW q, TasksOK(q), NEW t \in Task, t.kind = "error" => t.reason # "None",
           Heard(t) => t.session = "this"
    PROVE  /\ TasksOK(Append(q, t))
           /\ \A i \in DOMAIN Append(q, t) :
                 \/ i \in DOMAIN q /\ Append(q, t)[i] = q[i]
                 \/ Append(q, t)[i] = t
           /\ Silent(q) /\ ~Heard(t) => Silent(Append(q, t))
<1>1. q \in Seq(Task)
  BY DEF TasksOK
<1>2. /\ Append(q, t) \in Seq(Task)
      /\ \A i \in DOMAIN Append(q, t) :
                 \/ i \in DOMAIN q /\ Append(q, t)[i] = q[i]
                 \/ Append(q, t)[i] = t
  BY <1>1
<1> QED BY <1>2 DEF TasksOK, Silent

\* A sequence changed element by element.
LEMMA MappedTasks ==
    ASSUME NEW q \in Seq(Task), NEW r, r = [i \in DOMAIN q |-> r[i]],
           \A i \in DOMAIN q : r[i] \in Task
    PROVE  r \in Seq(Task) /\ DOMAIN r = DOMAIN q
<1>1. DOMAIN q = 1 .. Len(q) /\ Len(q) \in Nat
  OBVIOUS
<1>2. r \in [1 .. Len(q) -> Task]
  BY <1>1
<1> QED BY <1>1, <1>2

LEMMA AgingTasks ==
    ASSUME NEW q, TasksOK(q), Silent(q)
    PROVE  /\ TasksOK(Aging(q)) /\ Silent(Aging(q))
           /\ DOMAIN Aging(q) = DOMAIN q
           /\ \A i \in DOMAIN q : Aging(q)[i].kind = q[i].kind
<1>1. q \in Seq(Task)
  BY DEF TasksOK
<1>2. ASSUME NEW i \in DOMAIN q
      PROVE  LET t == Aging(q)[i]
             IN t \in Task /\ t.kind = q[i].kind /\ t.reason = q[i].reason
                /\ (t.detached <=> q[i].detached)
  <2>1. q[i] \in Task
    BY <1>1
  <2>2. ASSUME NEW t, t = [q[i] EXCEPT !.session = "old"]
        PROVE  t \in Task /\ t.kind = q[i].kind /\ t.reason = q[i].reason
                /\ (t.detached <=> q[i].detached)
    BY <2>1, <2>2 DEF Task
  <2> QED BY <2>2 DEF Aging
<1>3. Aging(q) \in Seq(Task) /\ DOMAIN Aging(q) = DOMAIN q
  <2>1. Aging(q) = [i \in DOMAIN q |-> Aging(q)[i]]
    BY DEF Aging
  <2> QED BY <1>1, <1>2, <2>1, MappedTasks
<1>4. Silent(Aging(q))
  BY <1>2, <1>3 DEF Silent, Heard
<1> QED BY <1>2, <1>3, <1>4 DEF TasksOK, Silent

LEMMA DetachedTasks ==
    ASSUME NEW q, TasksOK(q)
    PROVE  /\ TasksOK(Detached(q)) /\ Silent(Detached(q))
           /\ DOMAIN Detached(q) = DOMAIN q
           /\ \A i \in DOMAIN q : Detached(q)[i].kind = q[i].kind
<1>1. q \in Seq(Task)
  BY DEF TasksOK
<1>2. ASSUME NEW i \in DOMAIN q
      PROVE  LET t == Detached(q)[i]
             IN t \in Task /\ t.kind = q[i].kind /\ t.reason = q[i].reason /\ ~Heard(t)
  <2>1. q[i] \in Task /\ (Heard(q[i]) => q[i].session = "this")
    BY <1>1 DEF TasksOK
  <2> DEFINE d == q[i].detached \/ (q[i].kind \in SourceEvents /\ q[i].session = "this")
  <2>2. ASSUME NEW t, t = [q[i] EXCEPT !.detached = d]
        PROVE  t \in Task /\ t.kind = q[i].kind /\ t.reason = q[i].reason
                /\ (t.detached <=> d)
    BY <2>1, <2>2 DEF Task
  <2>3. ASSUME NEW t, t = [q[i] EXCEPT !.detached = d]
        PROVE  ~Heard(t)
    BY <2>1, <2>2, <2>3 DEF Heard
  <2> QED BY <2>2, <2>3 DEF Detached
<1>3. Detached(q) \in Seq(Task) /\ DOMAIN Detached(q) = DOMAIN q
  <2>1. Detached(q) = [i \in DOMAIN q |-> Detached(q)[i]]
    BY DEF Detached
  <2> QED BY <1>1, <1>2, <2>1, MappedTasks
<1>4. Silent(Detached(q))
  BY <1>2, <1>3 DEF Silent
<1> QED BY <1>2, <1>3, <1>4 DEF TasksOK, Silent

-----------------------------------------------------------------------------
(* The control thread. *)

LEMMA NewControllerWell ==
    ASSUME NEW useRelay \in BOOLEAN
    PROVE  LET x == NewController(useRelay)
           IN Well(x) /\ x.sm = InitialMachine /\ ~x.sourceAlive
<1> DEFINE x == NewController(useRelay)
           h == [s \in HealthStage |-> IF s = RelayIntake /\ ~useRelay THEN "NotApplicable"
                                                                     ELSE "Unknown"]
<1>1. Sound(InitialMachine)
  BY ConnAssumptions, SameTypes, Conn!InitialMachineSound DEF Sound
<1>2. InitialMachine \in Machine /\ "None" \in DiagnosisReason
  BY <1>1, SoundSteps DEF DiagnosisReason
<1>3. /\ h \in [HealthStage -> StageState]
      /\ h[RtspSession] = "Unknown" /\ h[PacketFlow] = "Unknown"
  BY Stages DEF StageState
<1> HIDE DEF h
<1>4. x = [sm |-> InitialMachine, sourceAlive |-> FALSE, health |-> h,
           failedReason |-> "None", useRelay |-> useRelay]
  BY DEF NewController, h
<1> HIDE DEF x
<1>5. x \in Controller /\ x.sm = InitialMachine /\ ~x.sourceAlive /\ x.health = h
  BY <1>2, <1>3, <1>4 DEF Controller
<1>6. ~Active(x.sm) /\ ~Waiting(x.sm) /\ x.sm.state # "Streaming"
  BY <1>5 DEF Active, Waiting, InitialMachine
<1>7. Well(x)
  BY <1>1, <1>3, <1>5, <1>6 DEF Well, Fit, Explained
<1> QED BY <1>5, <1>7 DEF x

LEMMA OpenKeeps ==
    ASSUME NEW rest, TasksOK(rest), Silent(rest), NoRestore(rest), Open(rest),
           Well(c'), c'.sourceAlive, exists', left' \in 0 .. MaxCommands, TypeOK,
           exists' \in BOOLEAN
    PROVE  IInv'
<1>1. /\ TasksOK(Aging(rest)) /\ Silent(Aging(rest)) /\ DOMAIN Aging(rest) = DOMAIN rest
      /\ \A i \in DOMAIN rest : Aging(rest)[i].kind = rest[i].kind
  BY AgingTasks
<1>2. queue' = Aging(rest) /\ thread' = NewThread /\ control' = "ready"
      /\ slot' \in {"none", "this", "old"}
  BY DEF Open, TypeOK
<1>3. TypeOK'
  BY <1>1, <1>2 DEF TypeOK, Well, TasksOK, ControlPoint, NewThread, ThreadPoint
<1>4. ~thread'.stop
  BY <1>2 DEF NewThread
<1>5. \A i \in DOMAIN queue' : queue'[i].kind # "restore"
  BY <1>1, <1>2 DEF NoRestore
<1> QED BY <1>1, <1>2, <1>3, <1>4, <1>5 DEF IInv

LEMMA CloseKeeps ==
    ASSUME NEW rest, TasksOK(rest), NoRestore(rest),
           NEW next \in ControlPoint, next # "ready", Close(rest, next),
           Well(c'), ~c'.sourceAlive, exists', UNCHANGED left, TypeOK, exists' \in BOOLEAN
    PROVE  IInv'
<1>1. queue' = rest /\ thread' = [thread EXCEPT !.stop = TRUE] /\ control' = next
      /\ slot' = slot
  BY DEF Close
<1>2. thread' \in [at : ThreadPoint, stop : BOOLEAN, passed : BOOLEAN] /\ thread'.stop
  BY <1>1 DEF TypeOK
<1>3. TypeOK'
  BY <1>1, <1>2 DEF TypeOK, Well, TasksOK
<1>4. \A i \in DOMAIN queue' : queue'[i].kind # "restore"
  BY <1>1 DEF NoRestore
<1> QED BY <1>1, <1>2, <1>3, <1>4 DEF IInv

\* Carrying out what a handler returned.
LEMMA CarryOutKeeps ==
    ASSUME IInv, control = "ready", exists, NEW r, Handles(c, r),
           r.action = "OpenSource" => ~c.sourceAlive,
           NEW rest, TasksOK(rest), NoRestore(rest), Silent(queue) => Silent(rest),
           CarryOut(r, rest)
    PROVE  IInv'
<1>0. TypeOK /\ left \in 0 .. MaxCommands /\ exists \in BOOLEAN
  BY DEF IInv, TypeOK
<1>1. /\ Well(c') /\ exists' = exists /\ left' = left
      /\ r.controller = c'
  BY DEF CarryOut, Handles
<1>2. /\ r.action \in {"None", "OpenSource", "CloseSource"}
      /\ c'.sourceAlive <=> Alive(r.action, c.sourceAlive)
  <2>1. PICK t : Answers(c.sm, t) /\ Carried(c, r, t)
    BY DEF Handles
  <2>2. SoundStep(c.sm, t)
    BY <2>1, SoundSteps DEF Answers, IInv, Well, Fit, SoundStep, Fits, Stay, To
  <2> QED BY <1>1, <2>1, <2>2 DEF Carried, SoundStep, Fits
<1>3. CASE r.action = "OpenSource"
  <2>1. Open(rest)
    BY <1>3 DEF CarryOut
  <2>2. Silent(rest)
    BY <1>3 DEF IInv
  <2> QED BY <1>0, <1>1, <1>2, <1>3, <2>1, <2>2, OpenKeeps DEF Alive
<1>4. CASE r.action = "CloseSource"
  <2>1. Close(rest, "close")
    BY <1>4 DEF CarryOut
  <2>2. "close" \in ControlPoint
    BY DEF ControlPoint
  <2> QED BY <1>0, <1>1, <1>2, <1>4, <2>1, <2>2, CloseKeeps DEF Alive
<1>5. CASE r.action = "None"
  <2>1. queue' = rest /\ UNCHANGED <<control, thread, slot>>
    BY <1>5 DEF CarryOut
  <2>2. TypeOK'
    BY <1>0, <1>1, <2>1 DEF TypeOK, Well, TasksOK
  <2>3. c'.sourceAlive <=> c.sourceAlive
    BY <1>2, <1>5 DEF Alive
  <2>4. \A i \in DOMAIN queue' : queue'[i].kind # "restore"
    BY <2>1 DEF NoRestore
  <2> QED BY <1>1, <2>1, <2>2, <2>3, <2>4 DEF IInv, Finished
<1> QED BY <1>2, <1>3, <1>4, <1>5

LEMMA RestOfQueue ==
    ASSUME IInv, control = "ready", queue # <<>>
    PROVE  /\ TasksOK(Tail(queue)) /\ NoRestore(Tail(queue))
           /\ Silent(queue) => Silent(Tail(queue))
           /\ Head(queue) \in Task
           /\ Head(queue).kind = "error" => Head(queue).reason # "None"
           /\ Heard(Head(queue)) => exists /\ c.sourceAlive
           /\ Head(queue).kind = "restore" => exists /\ ~c.sourceAlive
<1>1. TasksOK(queue)
  BY DEF IInv
<1>2. NoRestore(Tail(queue))
  BY <1>1, TailTasks DEF IInv, NoRestore
<1>3. 1 \in DOMAIN queue /\ Head(queue) = queue[1]
  BY <1>1, TailTasks
<1>4. Heard(Head(queue)) => exists /\ c.sourceAlive
  BY <1>3 DEF IInv, Silent
<1>5. Head(queue).kind = "restore" => exists /\ ~c.sourceAlive
  BY <1>3 DEF IInv
<1> QED BY <1>1, <1>2, <1>4, <1>5, TailTasks

LEMMA SkipKeeps ==
    ASSUME IInv, control = "ready", queue # <<>>, Skip
    PROVE  IInv'
<1>1. TypeOK'
  BY RestOfQueue DEF IInv, TypeOK, Skip, TasksOK
<1>2. \A i \in DOMAIN queue' : queue'[i].kind # "restore"
  BY RestOfQueue DEF NoRestore, Skip
<1> QED BY <1>1, <1>2, RestOfQueue DEF IInv, Skip, Finished

LEMMA EventKeeps ==
    ASSUME IInv, NEW kind \in SourceEvents, NEW r, Reacts(c, r), HandleEvent(kind, r)
    PROVE  IInv'
<1>1. control = "ready" /\ queue # <<>> /\ Head(queue).kind = kind
  BY DEF HandleEvent, Begin
<1>2. CASE Head(queue).detached
  BY <1>1, <1>2, SkipKeeps DEF HandleEvent
<1>3. CASE ~Head(queue).detached
  <2>1. exists
    BY <1>1, <1>3, RestOfQueue DEF Heard
  <2>2. CarryOut(r, Tail(queue))
    BY <1>3 DEF HandleEvent
  <2> QED BY <1>1, <2>1, <2>2, RestOfQueue, CarryOutKeeps DEF Reacts
<1> QED BY <1>2, <1>3

LEMMA ByIdKeeps ==
    ASSUME IInv, NEW kind, NEW r, HandleById(kind, r),
           Handles(c, r), r.action = "OpenSource" => ~c.sourceAlive
    PROVE  IInv'
<1>1. control = "ready" /\ queue # <<>>
  BY DEF HandleById, Begin
<1>2. CASE ~exists
  BY <1>1, <1>2, SkipKeeps DEF HandleById
<1>3. CASE exists
  <2>1. CarryOut(r, Tail(queue))
    BY <1>3 DEF HandleById
  <2> QED BY <1>1, <1>3, <2>1, RestOfQueue, CarryOutKeeps
<1> QED BY <1>2, <1>3

LEMMA DisconnectFirstKeeps ==
    ASSUME IInv, NEW kind, NEW next \in ControlPoint, next # "ready",
           DisconnectFirst(kind, next)
    PROVE  IInv'
<1>1. control = "ready" /\ queue # <<>> /\ Well(c) /\ TypeOK
  BY DEF DisconnectFirst, Begin, IInv
<1>2. CASE ~exists
  BY <1>1, <1>2, SkipKeeps DEF DisconnectFirst
<1>3. CASE exists
  <2>1. /\ c' = Disconnect(c).controller
        /\ Close(Tail(queue), next)
        /\ UNCHANGED <<exists, left>>
    BY <1>3 DEF DisconnectFirst
  <2>2. Well(c') /\ ~c'.sourceAlive
    BY <1>1, <2>1, DisconnectHandles DEF Handles
  <2>3. exists' /\ exists' \in BOOLEAN /\ left' = left
    BY <1>1, <1>3, <2>1 DEF TypeOK
  <2> QED BY <1>1, <2>1, <2>2, <2>3, RestOfQueue, CloseKeeps
<1> QED BY <1>2, <1>3

\* After the join.
LEMMA AfterJoin ==
    ASSUME IInv, Joined
    PROVE  /\ control # "ready" /\ Finished /\ ~c.sourceAlive /\ exists /\ Well(c)
           /\ TasksOK(Detached(queue)) /\ Silent(Detached(queue))
           /\ NoRestore(Detached(queue))
           /\ TypeOK /\ left \in 0 .. MaxCommands
<1>1. TasksOK(queue) /\ \A i \in DOMAIN queue : queue[i].kind # "restore"
  BY DEF IInv, Joined
<1> QED BY <1>1, DetachedTasks DEF IInv, Joined, NoRestore, TypeOK

LEMMA ClosedKeeps == ASSUME IInv, Closed PROVE IInv'
<1>1. /\ Joined
      /\ control' = "ready"
      /\ queue' = Detached(queue)
      /\ UNCHANGED <<c, exists, thread, slot, left>>
  BY DEF Closed
<1>2. TypeOK'
  BY <1>1, AfterJoin DEF TypeOK, TasksOK, ControlPoint
<1> QED BY <1>1, <1>2, AfterJoin DEF IInv, NoRestore, Finished

LEMMA ConnectAgainKeeps == ASSUME IInv, ClosedThenConnect PROVE IInv'
<1>1. /\ Joined
      /\ c' = Connect(c).controller
      /\ Open(Detached(queue))
      /\ UNCHANGED <<exists, left>>
  BY DEF ClosedThenConnect
<1>2. Well(c') /\ c'.sourceAlive
  BY <1>1, AfterJoin, ConnectHandles DEF Well, Explained, Handles
<1>3. exists' /\ exists' \in BOOLEAN /\ left' \in 0 .. MaxCommands
  BY <1>1, AfterJoin DEF TypeOK
<1> QED BY <1>1, <1>2, <1>3, AfterJoin, OpenKeeps

LEMMA NewConnectionWell ==
    ASSUME NEW useRelay \in BOOLEAN
    PROVE  LET r == Connect(NewController(useRelay))
           IN Well(r.controller) /\ r.controller.sourceAlive
  BY NewControllerWell, ConnectHandles DEF Well, Explained, Handles

LEMMA RebuildKeeps == ASSUME IInv, ClosedThenRebuild PROVE IInv'
<1>1. /\ Joined /\ c' = Connect(NewController(~c.useRelay)).controller
      /\ queue' = Aging(Detached(queue))
      /\ thread' = NewThread /\ slot' = "none" /\ control' = "ready"
      /\ UNCHANGED <<exists, left>>
  BY DEF ClosedThenRebuild
<1>2. Well(c') /\ c'.sourceAlive
  BY <1>1, NewConnectionWell
<1>3. /\ TasksOK(queue') /\ Silent(queue')
      /\ \A i \in DOMAIN queue' : queue'[i].kind # "restore"
  BY <1>1, AfterJoin, AgingTasks DEF NoRestore
<1>4. TypeOK'
  BY <1>1, <1>2, <1>3, AfterJoin
     DEF TypeOK, Well, TasksOK, ControlPoint, NewThread, ThreadPoint
<1>5. ~thread'.stop /\ exists'
  BY <1>1, AfterJoin DEF NewThread
<1> QED BY <1>1, <1>2, <1>3, <1>4, <1>5 DEF IInv

LEMMA EraseKeeps == ASSUME IInv, ClosedThenErase PROVE IInv'
<1>1. /\ Joined /\ exists' = FALSE /\ queue' = Detached(queue) /\ slot' = "none"
      /\ control' = "ready" /\ UNCHANGED <<c, thread, left>>
  BY DEF ClosedThenErase
<1>2. TypeOK'
  BY <1>1, AfterJoin DEF TypeOK, TasksOK, ControlPoint
<1> QED BY <1>1, <1>2, AfterJoin DEF IInv, NoRestore, Finished

LEMMA AddKeeps == ASSUME IInv, HandleAdd PROVE IInv'
<1>1. control = "ready" /\ queue # <<>>
  BY DEF HandleAdd, Begin
<1>2. CASE exists
  BY <1>1, <1>2, SkipKeeps DEF HandleAdd
<1>3. CASE ~exists
  <2>1. /\ exists' = TRUE /\ Open(Tail(queue)) /\ left' = left
        /\ \E useRelay \in BOOLEAN : c' = Connect(NewController(useRelay)).controller
    BY <1>3 DEF HandleAdd
  <2>2. Well(c') /\ c'.sourceAlive
    BY <2>1, NewConnectionWell
  <2>3. Silent(queue) /\ TypeOK /\ left' \in 0 .. MaxCommands
    BY <1>1, <1>3, <2>1 DEF IInv, TypeOK
  <2> QED BY <1>1, <2>1, <2>2, <2>3, RestOfQueue, OpenKeeps
<1> QED BY <1>2, <1>3

LEMMA TickKeeps == ASSUME IInv, HandleTick PROVE IInv'
<1>1. control = "ready" /\ queue = <<>> /\ exists /\ CarryOut(ControllerTick(c), queue)
  BY DEF HandleTick
<1>2. Well(c) /\ TasksOK(queue) /\ NoRestore(queue)
  BY <1>1 DEF IInv, NoRestore
<1> QED BY <1>1, <1>2, TickReacts, CarryOutKeeps DEF Reacts

LEMMA ControlKeeps == ASSUME IInv, Control PROVE IInv'
<1>0. Well(c)
  BY DEF IInv
<1>1. CASE Closed \/ ClosedThenConnect \/ ClosedThenRebuild \/ ClosedThenErase
  BY <1>1, ClosedKeeps, ConnectAgainKeeps, RebuildKeeps, EraseKeeps
<1>2. CASE HandleOpened \/ HandlePacket \/ HandleDecoded
  <2>1. {"sessionOpened", "packet", "decoded"} \subseteq SourceEvents
    BY DEF SourceEvents
  <2>2. CASE HandleOpened
    BY <1>0, <2>1, <2>2, EventsReact, EventKeeps DEF HandleOpened
  <2>3. CASE HandlePacket
    BY <1>0, <2>1, <2>3, EventsReact, EventKeeps DEF HandlePacket
  <2>4. CASE HandleDecoded
    BY <1>0, <2>1, <2>4, DecodedReacts, EventKeeps DEF HandleDecoded
  <2> QED BY <1>2, <2>2, <2>3, <2>4
<1>3. CASE HandleError
  <2>1. "error" \in SourceEvents
    BY DEF SourceEvents
  <2>2. control = "ready" /\ queue # <<>> /\ Head(queue).kind = "error"
    BY <1>3 DEF HandleError, HandleEvent, Begin
  <2>3. Head(queue).reason \in DiagnosisReason \ {"None"}
    BY <2>2, RestOfQueue DEF Task
  <2>4. Reacts(c, OnSourceError(c, Head(queue).reason))
    BY <1>0, <2>3, ErrorReacts
  <2> QED BY <1>3, <2>1, <2>4, EventKeeps DEF HandleError
<1>4. CASE HandlePresented \/ HandleRetry
  <2>1. Reacts(c, OnFramePresented(c)) /\ Reacts(c, Retry(c))
    BY <1>0, EventsReact, RetryReacts
  <2>2. CASE HandlePresented
    BY <2>1, <2>2, ByIdKeeps DEF HandlePresented, Reacts
  <2>3. CASE HandleRetry
    BY <2>1, <2>3, ByIdKeeps DEF HandleRetry, Reacts
  <2> QED BY <1>4, <2>2, <2>3
<1>5. CASE HandleRelayUp \/ HandleRelayDown
  <2>1. Reacts(c, OnRelayHealth(c, FALSE, "RelayNoSource"))
    BY <1>0, RelayHealthReacts
  <2>2. Reacts(c, OnRelayHealth(c, TRUE, "None"))
    <3>1. OnRelayHealth(c, TRUE, "None") = OnRelayHealth(c, TRUE, "RelayNoSource")
      BY DEF OnRelayHealth
    <3> QED BY <1>0, <3>1, RelayHealthReacts
  <2>3. CASE HandleRelayUp
    BY <2>2, <2>3, ByIdKeeps DEF HandleRelayUp, Reacts
  <2>4. CASE HandleRelayDown
    BY <2>1, <2>4, ByIdKeeps DEF HandleRelayDown, Reacts
  <2> QED BY <1>5, <2>3, <2>4
<1>6. CASE HandleRestore
  <2>1. control = "ready" /\ queue # <<>> /\ Head(queue).kind = "restore"
    BY <1>6 DEF HandleRestore, HandleById, Begin
  <2>2. ~c.sourceAlive
    BY <2>1, RestOfQueue
  <2>3. Handles(c, Connect(c))
    BY <1>0, ConnectHandles DEF Well, Explained
  <2> QED BY <1>6, <2>2, <2>3, ByIdKeeps DEF HandleRestore
<1>7. CASE HandleUpdate \/ HandleRebuild \/ HandleRemove
  <2>1. {"closeThenConnect", "closeThenRebuild", "closeThenErase"} \subseteq ControlPoint
    BY DEF ControlPoint
  <2>2. CASE HandleUpdate
    <3>1. CASE Begin("update") /\ Skip
      BY <3>1, SkipKeeps DEF Begin
    <3>2. CASE DisconnectFirst("update", "closeThenConnect")
      BY <2>1, <3>2, DisconnectFirstKeeps
    <3> QED BY <2>2, <3>1, <3>2 DEF HandleUpdate
  <2>3. CASE HandleRebuild
    BY <2>1, <2>3, DisconnectFirstKeeps DEF HandleRebuild
  <2>4. CASE HandleRemove
    BY <2>1, <2>4, DisconnectFirstKeeps DEF HandleRemove
  <2> QED BY <1>7, <2>2, <2>3, <2>4
<1>8. CASE HandleAdd
  BY <1>8, AddKeeps
<1> QED BY <1>1, <1>2, <1>3, <1>4, <1>5, <1>6, <1>7, <1>8 DEF Control

-----------------------------------------------------------------------------
(* The decode thread, the tile, the commands and time. *)

\* A task added by the decode thread, the tile or a command.
LEMMA AddedTaskKeeps ==
    ASSUME IInv, NEW t \in Task, queue' = Append(queue, t),
           t.kind = "error" => t.reason # "None", t.kind # "restore",
           Heard(t) => t.session = "this" /\ ~Finished,
           UNCHANGED <<c, exists, control>>,
           thread' = thread \/ (~Finished /\ thread'.stop = thread.stop),
           TypeOK'
    PROVE  IInv'
<1>1. /\ TasksOK(queue')
      /\ \A i \in DOMAIN queue' : queue'[i].kind = "restore" =>
            i \in DOMAIN queue /\ queue'[i] = queue[i]
      /\ Silent(queue) /\ ~Heard(t) => Silent(queue')
  BY AppendTask DEF IInv
<1>2. control' = "ready" /\ ~(c'.sourceAlive /\ exists') => Finished' /\ Silent(queue')
  BY <1>1 DEF IInv, Finished
<1>3. control' = "ready" /\ ~Finished' => ~thread'.stop
  BY DEF IInv, Finished
<1>4. control' # "ready" => thread'.stop /\ ~c'.sourceAlive /\ exists'
  BY DEF IInv
<1>5. Well(c')
  BY DEF IInv
<1> QED BY <1>1, <1>2, <1>3, <1>4, <1>5 DEF IInv

\* The decode thread moves on without adding a task.
LEMMA ThreadKeeps ==
    ASSUME IInv, ~Finished, thread'.stop = thread.stop,
           UNCHANGED <<c, exists, control, queue>>, TypeOK'
    PROVE  IInv'
  BY DEF IInv, Finished

LEMMA EventTask ==
    ASSUME NEW kind \in SourceEvents, NEW reason \in DiagnosisReason
    PROVE  EventOf(kind, reason) \in Task
  BY DEF EventOf, Task

LEMMA ReportKeeps ==
    ASSUME IInv, ~Finished, NEW kind \in SourceEvents, NEW reason \in DiagnosisReason,
           kind = "error" => reason # "None",
           NEW next \in ThreadPoint, Report(EventOf(kind, reason), next)
    PROVE  IInv'
<1> DEFINE t == EventOf(kind, reason)
<1>1. /\ t \in Task /\ t.kind = kind /\ t.reason = reason /\ t.session = "this"
      /\ t.kind # "restore"
  BY EventTask DEF EventOf, SourceEvents
<1>2. TypeOK /\ UNCHANGED <<c, exists, control, slot, left>>
  BY DEF IInv, Report
<1>3. thread \in [at : ThreadPoint, stop : BOOLEAN, passed : BOOLEAN]
  BY <1>2 DEF TypeOK
<1> HIDE DEF t
<1>4. CASE /\ queue' = Append(queue, t)
           /\ thread' = [thread EXCEPT !.at = next, !.passed = ~thread.stop]
  <2>1. thread' \in [at : ThreadPoint, stop : BOOLEAN, passed : BOOLEAN]
        /\ thread'.stop = thread.stop
    BY <1>3, <1>4
  <2>2. TypeOK'
    <3>1. queue' \in Seq(Task)
      BY <1>1, <1>2, <1>4 DEF TypeOK
    <3> QED BY <1>2, <2>1, <3>1 DEF TypeOK
  <2> QED BY <1>1, <1>2, <1>4, <2>1, <2>2, AddedTaskKeeps
<1>5. CASE UNCHANGED queue /\ thread' = [thread EXCEPT !.at = next, !.passed = FALSE]
  <2>1. thread' \in [at : ThreadPoint, stop : BOOLEAN, passed : BOOLEAN]
        /\ thread'.stop = thread.stop
    BY <1>3, <1>5
  <2> QED BY <1>2, <1>5, <2>1, ThreadKeeps DEF TypeOK
<1> QED BY <1>4, <1>5 DEF Report, t

LEMMA GotoKeeps ==
    ASSUME IInv, ~Finished, NEW next \in ThreadPoint, thread' = [thread EXCEPT !.at = next],
           slot' \in {"none", "this", "old"}, UNCHANGED <<c, exists, queue, control, left>>
    PROVE  IInv'
<1>1. /\ thread' \in [at : ThreadPoint, stop : BOOLEAN, passed : BOOLEAN]
      /\ thread'.stop = thread.stop
  BY DEF IInv, TypeOK
<1>2. TypeOK'
  BY <1>1 DEF IInv, TypeOK
<1> QED BY <1>1, <1>2, ThreadKeeps

LEMMA DecodeKeeps == ASSUME IInv, Decode PROVE IInv'
<1> USE DEF At
<1>0. /\ {"opening", "reading", "decoding", "publishing", "closing", "none"}
            \subseteq ThreadPoint
      /\ SourceEvents = {"sessionOpened", "packet", "decoded", "error"}
      /\ {"None", "NoPackets", "DecodeError"} \subseteq DiagnosisReason
      /\ NextRound \in ThreadPoint
      /\ slot \in {"none", "this", "old"}
  BY DEF ThreadPoint, SourceEvents, DiagnosisReason, NextRound, IInv, TypeOK
<1>1. CASE OpenFails
  <2>1. PICK reason \in OpenErrors : Report(EventOf("error", reason), "closing")
    BY <1>1 DEF OpenFails
  <2>2. reason \in DiagnosisReason /\ reason # "None"
    BY SessionAssumption
  <2>3. ~Finished
    BY <1>1 DEF OpenFails, Finished
  <2> QED BY <1>0, <2>1, <2>2, <2>3, ReportKeeps
<1>2. CASE OpenSucceeds
  <2>1. ~Finished /\ Report(EventOf("sessionOpened", "None"), "reading")
    BY <1>2 DEF OpenSucceeds, Finished, TaskOf
  <2> QED BY <1>0, <2>1, ReportKeeps
<1>3. CASE ReadFails
  <2>1. ~Finished /\ Report(EventOf("error", "NoPackets"), "closing")
    BY <1>3 DEF ReadFails, Finished
  <2> QED BY <1>0, <2>1, ReportKeeps
<1>4. CASE ReadPacket
  <2>1. ~Finished /\ Report(EventOf("packet", "None"), "decoding")
    BY <1>4 DEF ReadPacket, Finished, TaskOf
  <2> QED BY <1>0, <2>1, ReportKeeps
<1>5. CASE DecodeFrame
  <2>1. ~Finished /\ Report(EventOf("decoded", "None"), "publishing")
    BY <1>5 DEF DecodeFrame, Finished, TaskOf
  <2> QED BY <1>0, <2>1, ReportKeeps
<1>6. CASE DecodeFails
  <2>1. ~Finished /\ Report(EventOf("error", "DecodeError"), "closing")
    BY <1>6 DEF DecodeFails, Finished
  <2> QED BY <1>0, <2>1, ReportKeeps
<1>7. CASE Throw
  <2>1. ~Finished /\ Report(EventOf("error", "DecodeError"), "none")
    BY <1>7 DEF Throw, Finished
  <2> QED BY <1>0, <2>1, ReportKeeps
<1>8. CASE DecodeNothing \/ DropFrame
  <2>1. ~Finished /\ Goto(NextRound)
    BY <1>8 DEF DecodeNothing, DropFrame, Finished
  <2> QED BY <1>0, <2>1, GotoKeeps DEF Goto
<1>9. CASE Publish
  BY <1>0, <1>9, GotoKeeps DEF Publish, Finished
<1>10. CASE Teardown
  <2>1. ~Finished /\ Goto("none")
    BY <1>10 DEF Teardown, Finished
  <2> QED BY <1>0, <2>1, GotoKeeps DEF Goto
<1> QED
  BY <1>1, <1>2, <1>3, <1>4, <1>5, <1>6, <1>7, <1>8, <1>9, <1>10 DEF Decode

LEMMA PaintKeeps == ASSUME IInv, Paint PROVE IInv'
<1> DEFINE t == [TaskOf("presented") EXCEPT !.session = slot]
<1>1. /\ slot \in {"this", "old"} /\ queue' = Append(queue, t) /\ slot' = "none"
      /\ UNCHANGED <<c, exists, control, thread, left>> /\ TypeOK
  BY DEF Paint, IInv, TypeOK
<1>2. t \in Task /\ t.kind = "presented"
  BY <1>1 DEF TaskOf, EventOf, Task, DiagnosisReason
<1>3. ~Heard(t)
  BY <1>2 DEF Heard, SourceEvents
<1> HIDE DEF t
<1>4. queue' \in Seq(Task)
  BY <1>1, <1>2 DEF TypeOK
<1>5. TypeOK'
  BY <1>1, <1>4 DEF TypeOK
<1> QED BY <1>1, <1>2, <1>3, <1>5, AddedTaskKeeps

LEMMA CommandKeeps == ASSUME IInv, Command PROVE IInv'
<1>1. PICK kind \in Commands : queue' = Append(queue, TaskOf(kind))
  BY DEF Command
<1>2. /\ left' \in 0 .. MaxCommands
      /\ UNCHANGED <<c, exists, control, thread, slot>>
      /\ TypeOK
  BY SessionAssumption DEF Command, IInv, TypeOK
<1> DEFINE t == TaskOf(kind)
<1>3. t \in Task /\ t.kind = kind /\ kind # "error" /\ kind # "restore"
  BY DEF TaskOf, EventOf, Task, DiagnosisReason, Commands
<1>4. ~Heard(t)
  BY <1>3 DEF Heard, SourceEvents, Commands
<1> HIDE DEF t
<1>5. queue' \in Seq(Task)
  BY <1>1, <1>2, <1>3 DEF TypeOK, t
<1>6. TypeOK'
  BY <1>2, <1>5 DEF TypeOK
<1> QED BY <1>1, <1>2, <1>3, <1>4, <1>6, AddedTaskKeeps DEF t

LEMMA ElapseKeeps == ASSUME IInv, Elapse PROVE IInv'
<1>1. /\ c' = [c EXCEPT !.sm = Aged(c.sm)]
      /\ UNCHANGED <<exists, queue, control, thread, slot, left>>
      /\ c \in Controller /\ Fit(c) /\ Explained(c)
  BY DEF Elapse, IInv, Well
<1>2. Sound(Aged(c.sm)) /\ Aged(c.sm).state = c.sm.state
  BY <1>1, SoundSteps DEF Fit
<1>3. Aged(c.sm) \in Machine
  BY <1>2, SoundSteps
<1>4. c' \in Controller /\ c'.sm = Aged(c.sm) /\ (c'.sourceAlive <=> c.sourceAlive)
      /\ c'.health = c.health /\ c'.failedReason = c.failedReason
  BY <1>1, <1>3 DEF Controller
<1>5. Well(c')
  BY <1>1, <1>2, <1>4 DEF Well, Fit, Explained, Active, Waiting
<1>6. TypeOK'
  BY <1>1, <1>4 DEF IInv, TypeOK
<1> QED BY <1>1, <1>4, <1>5, <1>6 DEF IInv, Finished

-----------------------------------------------------------------------------
(* The invariants. *)

LEMMA InitIInv == Init => IInv
<1> SUFFICES ASSUME Init PROVE IInv
  OBVIOUS
<1>1. Well(c) /\ ~c.sourceAlive
  BY NewControllerWell DEF Init
<1>2. /\ TaskOf("restore") \in Task /\ TaskOf("restore").kind = "restore"
  BY DEF TaskOf, EventOf, Task, DiagnosisReason
<1>3. /\ queue \in Seq(Task)
      /\ \A i \in DOMAIN queue : i = 1 /\ queue[i].kind = "restore"
  <2>1. CASE queue = <<>>
    BY <2>1
  <2>2. CASE queue = <<TaskOf("restore")>>
    BY <1>2, <2>2
  <2> QED BY <2>1, <2>2 DEF Init
<1>4. TasksOK(queue) /\ Silent(queue)
  BY <1>3 DEF TasksOK, Silent, Heard, SourceEvents
<1>5. TypeOK /\ Finished /\ control = "ready" /\ exists
  BY <1>1, <1>3, SessionAssumption
     DEF Init, TypeOK, Well, ControlPoint, NoThread, ThreadPoint, Finished
<1> QED BY <1>1, <1>3, <1>4, <1>5 DEF IInv

LEMMA StepIInv == IInv /\ [Next]_vars => IInv'
<1> SUFFICES ASSUME IInv, [Next]_vars PROVE IInv'
  OBVIOUS
<1>1. CASE UNCHANGED vars
  BY <1>1 DEF vars, IInv, TypeOK, Finished
<1> QED
  BY <1>1, ControlKeeps, TickKeeps, DecodeKeeps, PaintKeeps, CommandKeeps, ElapseKeeps
     DEF Next

\* IInv holds in every reachable state, whatever the interleaving of the
\* control thread, the decode thread, the tile and the commands.
THEOREM Invariance == Spec => []IInv
  BY InitIInv, StepIInv, PTL DEF Spec

\* Outside close a running decode thread is the one of the attempt or stream
\* the machine is in (FfmpegStreamSource::open and close).
THEOREM NoGhosts == Spec => []NoGhostSession
<1>1. IInv => NoGhostSession
  BY DEF IInv, NoGhostSession, Well, Fit, Active
<1> QED BY <1>1, Invariance, PTL

\* Nothing an earlier session had to say reaches the controller: the detach
\* after the join (MarshallingStreamSource::close) misses no event.
THEOREM OldEventsAreUnheard == Spec => []OnlyThisSessionIsHeard
<1>1. IInv => OnlyThisSessionIsHeard
  BY DEF IInv, OnlyThisSessionIsHeard, TasksOK, Silent, Heard
<1> QED BY <1>1, Invariance, PTL

\* A wait names a failed stage and a reason, a stream has reached the packet
\* stage (ChannelController's marks, in the order it makes them).
THEOREM DiagnosisFits == Spec => []HealthExplainsState
<1>1. IInv => HealthExplainsState
  BY Stages DEF IInv, HealthExplainsState, Well, Explained, Waiting
<1> QED BY <1>1, Invariance, PTL

-----------------------------------------------------------------------------
(* The refinement: the channel as a whole is a connection. *)

LEMMA MachineryTypes ==
   /\ Machinery!Machine = Machine
   /\ Machinery!InitialMachine = InitialMachine
   /\ Machinery!DiagnosisReason = DiagnosisReason
   /\ \A x : Machinery!Aged(x) = Aged(x)
  BY DEF Machinery!Machine, Machine, Machinery!ConnState, ConnState,
         Machinery!DiagnosisReason,
         DiagnosisReason, Machinery!Unset, Unset, Machinery!LongestDelay, LongestDelay,
         Machinery!InitialMachine, InitialMachine, Aged, Earlier, Older,
         Machinery!Aged, Machinery!Earlier, Machinery!Older

LEMMA MachineryOperators ==
   /\ \A x : Machinery!ConnectRequested(x) = ConnectRequested(x)
   /\ \A x : Machinery!DisconnectRequested(x) = DisconnectRequested(x)
   /\ \A x : Machinery!RetryRequested(x) = RetryRequested(x)
   /\ \A x : Machinery!SourceAvailableHint(x) = SourceAvailableHint(x)
   /\ \A x : Machinery!SessionOpened(x) = SessionOpened(x)
   /\ \A x : Machinery!PacketReceived(x) = PacketReceived(x)
   /\ \A x : Machinery!FramePresented(x) = FramePresented(x)
   /\ \A x : Machinery!Tick(x) = Tick(x)
   /\ \A x, reason : Machinery!ErrorOccurred(x, reason) = ErrorOccurred(x, reason)
   /\ \A x, reason, next :
        Machinery!BeginRetryOrFail(x, reason, next) = BeginRetryOrFail(x, reason, next)
<1> USE MachineryTypes DEF Machinery!To, To, Machinery!Stay, Stay, Machinery!Unset, Unset
<1>1. \A x : Machinery!ConnectRequested(x) = ConnectRequested(x)
  BY DEF Machinery!ConnectRequested, ConnectRequested
<1>2. \A x : Machinery!DisconnectRequested(x) = DisconnectRequested(x)
  BY DEF Machinery!DisconnectRequested, DisconnectRequested
<1>3. \A x : Machinery!RetryRequested(x) = RetryRequested(x)
  BY <1>1 DEF Machinery!RetryRequested, RetryRequested
<1>4. \A x : Machinery!SourceAvailableHint(x) = SourceAvailableHint(x)
  BY DEF Machinery!SourceAvailableHint, SourceAvailableHint
<1>5. \A x : Machinery!SessionOpened(x) = SessionOpened(x)
  BY DEF Machinery!SessionOpened, SessionOpened
<1>6. \A x : Machinery!PacketReceived(x) = PacketReceived(x)
  BY DEF Machinery!PacketReceived, PacketReceived
<1>7. \A x : Machinery!FramePresented(x) = FramePresented(x)
  BY DEF Machinery!FramePresented, FramePresented
<1>8. \A x, reason, next :
         Machinery!BeginRetryOrFail(x, reason, next) = BeginRetryOrFail(x, reason, next)
  BY DEF Machinery!BeginRetryOrFail, BeginRetryOrFail, Machinery!Failing, Failing,
         Machinery!OneMoreAttempt, OneMoreAttempt, Machinery!GiveUp, GiveUp,
         Machinery!TryLater, TryLater
<1>9. \A x : Machinery!Reopen(x) = Reopen(x)
  BY DEF Machinery!Reopen, Reopen
<1>10. \A x : Machinery!Tick(x) = Tick(x)
  BY <1>8, <1>9 DEF Machinery!Tick, Tick, Machinery!DataIsLate, DataIsLate,
         Machinery!StreamIsSilent, StreamIsSilent, Machinery!RetryIsDue, RetryIsDue
<1>11. \A x, reason : Machinery!ErrorOccurred(x, reason) = ErrorOccurred(x, reason)
  BY <1>8 DEF Machinery!ErrorOccurred, ErrorOccurred
<1> QED BY <1>1, <1>2, <1>3, <1>4, <1>5, <1>6, <1>7, <1>8, <1>10, <1>11


\* A transition of the machine that was carried out is a step of Connection.
LEMMA CarriedIsStep ==
    ASSUME NEW r, NEW t, Answers(c.sm, t), Carried(c, r, t), c' = r.controller
    PROVE  [Machinery!Next]_(Machinery!vars)
<1>1. /\ c'.sm = t.machine /\ (c'.sourceAlive <=> Alive(t.action, c.sourceAlive))
  BY DEF Carried
<1>2. ASSUME t.action = "None", t.machine = c.sm
      PROVE  UNCHANGED Machinery!vars
  BY <1>1, <1>2 DEF Machinery!vars, Alive
<1>3. Machinery!Take(t)
  BY <1>1 DEF Machinery!Take, Alive
<1>4. CASE t = Stay(c.sm)
  BY <1>2, <1>4 DEF Stay, To
<1>5. CASE t # Stay(c.sm)
  <2>1. CASE \E reason \in DiagnosisReason : t = ErrorOccurred(c.sm, reason)
    BY <1>3, <2>1, MachineryOperators DEF Machinery!Next, Machinery!Error
  <2>2. CASE t \in {ConnectRequested(c.sm), DisconnectRequested(c.sm), RetryRequested(c.sm),
              SourceAvailableHint(c.sm)}
    BY <1>3, <2>2, MachineryOperators
       DEF Machinery!Next, Machinery!Connect, Machinery!Disconnect,
        Machinery!Retry, Machinery!Hint
  <2>3. CASE t \in {SessionOpened(c.sm), PacketReceived(c.sm), FramePresented(c.sm),
                    Tick(c.sm)}
    BY <1>3, <2>3, MachineryOperators
       DEF Machinery!Next, Machinery!Opened, Machinery!Packet,
        Machinery!Presented, Machinery!TickDue
  <2> QED BY <1>5, <2>1, <2>2, <2>3 DEF Answers
<1> QED BY <1>4, <1>5

LEMMA HandledIsStep ==
    ASSUME NEW r, Handles(c, r), c' = r.controller
    PROVE  [Machinery!Next]_(Machinery!vars)
  BY CarriedIsStep DEF Handles

LEMMA NewConnectionIsStep ==
    ASSUME NEW useRelay \in BOOLEAN, c' = Connect(NewController(useRelay)).controller
    PROVE  [Machinery!Next]_(Machinery!vars)
<1> DEFINE x == NewController(useRelay)
           t == ConnectRequested(c.sm)
<1>1. Well(x) /\ x.sm = InitialMachine
  BY NewControllerWell
<1>2. ConnectRequested(x.sm) = t
  BY DEF ConnectRequested
<1>3. /\ SoundStep(x.sm, ConnectRequested(x.sm))
      /\ ConnectRequested(x.sm).action = "OpenSource"
  BY <1>1, SoundSteps, Moves DEF Well, Fit
<1>4. Carried(x, Connect(x), ConnectRequested(x.sm))
  BY <1>1, <1>3, AppliedFits DEF Well, Connect
<1>5. Carried(c, Connect(x), t)
  BY <1>2, <1>3, <1>4 DEF Carried, Alive
<1>6. Answers(c.sm, t)
  BY DEF Answers
<1> QED BY <1>5, <1>6, CarriedIsStep

LEMMA UnchangedIsStep ==
    ASSUME UNCHANGED c PROVE [Machinery!Next]_(Machinery!vars)
  BY DEF Machinery!vars

LEMMA StepRefines == IInv /\ [Next]_vars => [Machinery!Next]_(Machinery!vars)
<1> SUFFICES ASSUME IInv, [Next]_vars PROVE [Machinery!Next]_(Machinery!vars)
  OBVIOUS
<1>0. Well(c)
  BY DEF IInv
<1>1. ASSUME UNCHANGED c \/ \E r : Handles(c, r) /\ c' = r.controller
      PROVE  [Machinery!Next]_(Machinery!vars)
  BY <1>1, UnchangedIsStep, HandledIsStep
<1>2. CASE UNCHANGED vars \/ Decode \/ Paint \/ Command
  <2>1. UNCHANGED c
    BY <1>2 DEF vars, Decode, OpenFails, OpenSucceeds, ReadFails, ReadPacket,
           DecodeNothing,
       DecodeFrame, DecodeFails, Publish, DropFrame, Throw, Teardown, Goto, Report,
       Paint, Command
  <2> QED BY <2>1, UnchangedIsStep
<1>3. CASE HandleTick
  BY <1>0, <1>1, <1>3, TickReacts DEF HandleTick, CarryOut, Reacts
<1>4. CASE Elapse
  <2>1. c'.sm = Aged(c.sm) /\ c'.sourceAlive = c.sourceAlive
    BY <1>0, <1>4 DEF Elapse, Well, Controller
  <2>2. Machinery!Elapse
    BY <2>1, MachineryTypes DEF Machinery!Elapse
  <2> QED BY <2>2 DEF Machinery!Next
<1>5. CASE Control
  <2>1. CASE Closed \/ ClosedThenErase
    BY <1>1, <2>1 DEF Closed, ClosedThenErase
  <2>2. CASE ClosedThenConnect
    <3>1. Handles(c, Connect(c)) /\ c' = Connect(c).controller
      BY <1>0, <2>2, ConnectHandles DEF Well, Explained, ClosedThenConnect
    <3> QED BY <3>1, HandledIsStep
  <2>3. CASE ClosedThenRebuild
    BY <2>3, NewConnectionIsStep DEF ClosedThenRebuild
  <2>4. CASE HandleOpened \/ HandlePacket \/ HandleDecoded
    BY <1>0, <1>1, <2>4, EventsReact, DecodedReacts
       DEF HandleOpened, HandlePacket, HandleDecoded, HandleEvent, CarryOut, Skip,
           Reacts
  <2>5. CASE HandleError
    <3>1. control = "ready" /\ queue # <<>> /\ Head(queue).kind = "error"
      BY <2>5 DEF HandleError, HandleEvent, Begin
    <3>2. Head(queue).reason \in DiagnosisReason \ {"None"}
      BY <3>1, RestOfQueue DEF Task
    <3>3. Handles(c, OnSourceError(c, Head(queue).reason))
      BY <1>0, <3>2, ErrorReacts DEF Reacts
    <3> QED BY <1>1, <2>5, <3>3 DEF HandleError, HandleEvent, CarryOut, Skip
  <2>6. CASE HandlePresented \/ HandleRetry
    BY <1>0, <1>1, <2>6, EventsReact, RetryReacts
       DEF HandlePresented, HandleRetry, HandleById, CarryOut, Skip, Reacts
  <2>7. CASE HandleRelayUp \/ HandleRelayDown
    <3>1. OnRelayHealth(c, TRUE, "None") = OnRelayHealth(c, TRUE, "RelayNoSource")
      BY DEF OnRelayHealth
    <3>2. /\ Handles(c, OnRelayHealth(c, TRUE, "None"))
          /\ Handles(c, OnRelayHealth(c, FALSE, "RelayNoSource"))
      BY <1>0, <3>1, RelayHealthReacts DEF Reacts
    <3> QED BY <1>1, <2>7, <3>2 DEF HandleRelayUp, HandleRelayDown, HandleById,
           CarryOut, Skip
  <2>8. CASE HandleRestore
    <3>1. Handles(c, Connect(c))
      BY <1>0, ConnectHandles DEF Well, Explained
    <3> QED BY <1>1, <2>8, <3>1 DEF HandleRestore, HandleById, CarryOut, Skip
  <2>9. CASE HandleUpdate \/ HandleRebuild \/ HandleRemove
    <3>1. Handles(c, Disconnect(c))
      BY <1>0, DisconnectHandles
    <3> QED BY <1>1, <2>9, <3>1 DEF HandleUpdate, HandleRebuild, HandleRemove,
           DisconnectFirst, Skip
  <2>10. CASE HandleAdd
    BY <1>1, <2>10, NewConnectionIsStep DEF HandleAdd, Skip
  <2> QED BY <1>5, <2>1, <2>2, <2>3, <2>4, <2>5, <2>6, <2>7, <2>8, <2>9, <2>10
     DEF Control
<1> QED BY <1>2, <1>3, <1>4, <1>5 DEF Next

LEMMA InitRefines == Init => Machinery!Init
  BY NewControllerWell, MachineryTypes DEF Init, Machinery!Init

\* All the threads and tasks of a channel together do to its machine and its
\* source what Connection allows, so what is proved of Connection holds of
\* every channel.
THEOREM ChannelIsConnection == Spec => ImplementsConnection
<1>1. Spec => Machinery!Init /\ [][Machinery!Next]_(Machinery!vars)
  BY InitRefines, StepRefines, Invariance, PTL DEF Spec
<1> QED BY <1>1, PTL DEF ImplementsConnection, Machinery!Spec
=============================================================================
