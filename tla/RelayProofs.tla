---------------------------- MODULE RelayProofs -----------------------------
(***************************************************************************)
(* Proofs about the relay (Relay), for every threshold and cooldown, any   *)
(* set of channels and any number of changes, runs and faults.             *)
(*                                                                         *)
(* What the self-healing poll may do rests on counters of two kinds: those *)
(* of the worker thread (streak, cooldown), which the code keeps, and the  *)
(* ghosts (silent, since), which count what really happened.  Counted      *)
(* relates them: the code never counts more polls without an answer, and   *)
(* never a shorter time since the last restart, than there were.  It is    *)
(* what makes the invariant inductive.                                     *)
(***************************************************************************)
EXTENDS Relay, TLAPS

Worker == [started : BOOLEAN, channels : Configs,
           streak : 0 .. UnhealthyThreshold - 1, cooldown : 0 .. CooldownPolls]
Service == [state : {"stopped", "crashed", "booting", "up", "wedged"}, pid : {0, 1},
            loaded : Configs]

\* The streak of the worker is never longer than the real one, it starts only
\* when the cooldown is over, and what is left of the cooldown and the streak
\* account for the polls since the last restart.
Counted ==
    /\ worker.streak <= silent
    /\ worker.cooldown > 0 => worker.streak = 0
    /\ since >= (CooldownPolls - worker.cooldown) + worker.streak

\* The inductive invariant.
IInv == TypeOK /\ Counted /\ FileFollowsList

-----------------------------------------------------------------------------
(* The helpers of the worker thread. *)

\* A capped counter stays within its bound and grows by one below it.
LEMMA CappedCounter ==
    ASSUME NEW max \in Nat, NEW n \in 0 .. max
    PROVE  /\ Capped(n, max) \in 0 .. max
           /\ n < max => Capped(n, max) = n + 1
           /\ n = max => Capped(n, max) = n
  BY DEF Capped

\* A new process has another pid and the configuration it was started with.
LEMMA LaunchedService ==
    ASSUME NEW s \in Service, NEW config \in Configs
    PROVE  Launched(s, config) \in Service /\ Launched(s, config).pid # s.pid
  BY DEF Launched, Service

\* ensureUp leaves a running process alone, and the file names the channels it
\* was called with unless it could not be written.
LEMMA EnsureUpFits ==
    ASSUME TypeOK, NEW s \in Service, NEW channels \in Configs, EnsureUp(s, channels)
    PROVE  /\ service' \in Service /\ file' \in Configs /\ failed' \in BOOLEAN
           /\ Running(s) => service' = s
           /\ ~failed' => file' = channels
<1>1. CASE EnsureRunning(s, channels) /\ file' = channels /\ failed' = FALSE
  <2>1. CASE service' = s
    BY <1>1, <2>1
  <2>2. CASE ~Running(s) /\ service' = Launched(s, channels)
    BY <1>1, <2>2, LaunchedService
  <2>3. CASE ~Running(s) /\ service' = [s EXCEPT !.state = "stopped"]
    BY <1>1, <2>3 DEF Service
  <2> QED BY <1>1, <2>1, <2>2, <2>3 DEF EnsureRunning, Kept
<1>2. CASE file' = file /\ failed' = TRUE /\ service' = s
  BY <1>2 DEF TypeOK
<1> QED BY <1>1, <1>2 DEF EnsureUp

\* So does the call for a list, which does nothing for an empty one.
LEMMA EnsureUpForFits ==
    ASSUME IInv, NEW channels \in Configs, EnsureUpFor(channels)
    PROVE  /\ service' \in Service /\ file' \in Configs /\ failed' \in BOOLEAN
           /\ Running(service) => service' = service
           /\ channels # {} /\ ~failed' => file' = channels
<1>1. CASE channels = {}
  BY <1>1 DEF EnsureUpFor, IInv, TypeOK, Service
<1>2. CASE channels # {}
  BY <1>2, EnsureUpFits DEF EnsureUpFor, IInv, TypeOK, Service
<1> QED BY <1>1, <1>2

-----------------------------------------------------------------------------
(* The steps. *)

LEMMA InitIInv == Init => IInv
<1> SUFFICES ASSUME Init PROVE IInv
  OBVIOUS
<1>1. TypeOK
  <2>1. running = FALSE /\ wanted \in Configs /\ lists = << >> /\ worker = NewWorker({})
        /\ file \in Configs /\ failed = FALSE /\ silent = 0
        /\ since = UnhealthyThreshold + CooldownPolls
        /\ service \in [state : {"stopped", "up", "wedged"}, pid : {0}, loaded : {file}]
    BY DEF Init
  <2>2. worker \in Worker
    BY <2>1, RelayAssumption DEF Worker, NewWorker, Configs
  <2>3. service \in Service
    BY <2>1 DEF Service
  <2>4. lists \in Seq(Configs)
    BY <2>1
  <2>5. failed \in BOOLEAN /\ running \in BOOLEAN
    BY <2>1
  <2>6. silent \in 0 .. UnhealthyThreshold /\ since \in 0 .. UnhealthyThreshold + CooldownPolls
    BY <2>1, RelayAssumption
  <2> QED BY <2>1, <2>2, <2>3, <2>4, <2>5, <2>6 DEF TypeOK, Worker, Service
<1>2. Counted
  BY RelayAssumption DEF Init, Counted, NewWorker
<1> QED BY <1>1, <1>2 DEF IInv, Init, FileFollowsList

\* The worker's own steps leave the counters alone.
LEMMA WorkerStep == IInv /\ (CoordinatorStart \/ UpdateChannels) => IInv'
<1> SUFFICES ASSUME IInv, CoordinatorStart \/ UpdateChannels PROVE IInv'
  OBVIOUS
<1>1. CASE CoordinatorStart
  <2>1. /\ worker' = [worker EXCEPT !.started = TRUE] /\ EnsureUpFor(worker.channels)
        /\ UNCHANGED <<running, wanted, lists, silent, since>> /\ worker \in Worker
        /\ worker.channels \in Configs
    BY <1>1 DEF CoordinatorStart, IInv, TypeOK, Worker
  <2>2. /\ worker' \in Worker /\ worker'.channels = worker.channels
        /\ worker'.streak = worker.streak /\ worker'.cooldown = worker.cooldown
    BY <2>1 DEF Worker
  <2>3. TypeOK'
    BY <2>1, <2>2, EnsureUpForFits DEF IInv, TypeOK, Worker, Service
  <2>4. FileFollowsList'
    BY <2>1, <2>2, EnsureUpForFits DEF FileFollowsList
  <2> QED BY <2>1, <2>2, <2>3, <2>4 DEF IInv, Counted
<1>2. CASE UpdateChannels
  <2>1. /\ worker' = [worker EXCEPT !.channels = Head(lists)] /\ EnsureUpFor(Head(lists))
        /\ UNCHANGED <<running, wanted, silent, since>> /\ worker \in Worker
        /\ lists' = Tail(lists) /\ lists \in Seq(Configs) /\ lists # << >>
    BY <1>2 DEF UpdateChannels, Refreshed, IInv, TypeOK, Worker
  <2>2. Head(lists) \in Configs /\ Tail(lists) \in Seq(Configs)
    BY <2>1
  <2>3. /\ worker' \in Worker /\ worker'.channels = Head(lists)
        /\ worker'.streak = worker.streak /\ worker'.cooldown = worker.cooldown
    BY <2>1, <2>2 DEF Worker
  <2>4. TypeOK'
    BY <2>1, <2>2, <2>3, EnsureUpForFits DEF IInv, TypeOK, Worker, Service
  <2>5. FileFollowsList'
    BY <2>1, <2>2, <2>3, EnsureUpForFits DEF FileFollowsList
  <2> QED BY <2>1, <2>3, <2>4, <2>5 DEF IInv, Counted
<1> QED BY <1>1, <1>2

\* What the self-healing poll finds: the silence was as long as the threshold,
\* and so was the time since the last restart.
LEMMA RestartIsDue ==
    ASSUME IInv, CooledDown, Due
    PROVE  /\ Capped(silent, UnhealthyThreshold) = UnhealthyThreshold
           /\ since + 1 >= UnhealthyThreshold + CooldownPolls
<1>1. /\ worker.streak \in 0 .. UnhealthyThreshold - 1 /\ worker.cooldown = 0
      /\ silent \in 0 .. UnhealthyThreshold /\ since \in 0 .. UnhealthyThreshold + CooldownPolls
      /\ UnhealthyThreshold \in Nat /\ CooldownPolls \in Nat
      /\ worker.streak + 1 >= UnhealthyThreshold /\ worker.streak <= silent
      /\ since >= (CooldownPolls - worker.cooldown) + worker.streak
  BY RelayAssumption DEF IInv, TypeOK, Counted, CooledDown, Due
<1> QED BY <1>1 DEF Capped

\* The same of a poll that replaces the process.
LEMMA PollStep == IInv /\ Poll => IInv'
<1> SUFFICES ASSUME IInv, Poll PROVE IInv'
  OBVIOUS
<1>1. /\ worker \in Worker /\ service \in Service /\ worker.channels \in Configs
      /\ silent \in 0 .. UnhealthyThreshold /\ since \in 0 .. UnhealthyThreshold + CooldownPolls
      /\ UnhealthyThreshold \in Nat /\ UnhealthyThreshold > 0 /\ CooldownPolls \in Nat
      /\ UNCHANGED <<running, wanted, lists>>
      /\ worker.streak <= silent /\ (worker.cooldown > 0 => worker.streak = 0)
      /\ since >= (CooldownPolls - worker.cooldown) + worker.streak
      /\ worker.streak \in 0 .. UnhealthyThreshold - 1 /\ worker.cooldown \in 0 .. CooldownPolls
  BY RelayAssumption DEF Poll, IInv, TypeOK, Counted, Worker, Service
<1>2. /\ Capped(silent, UnhealthyThreshold) \in 0 .. UnhealthyThreshold
      /\ Capped(silent, UnhealthyThreshold) >= silent
      /\ worker.streak + 1 < UnhealthyThreshold
            => worker.streak + 1 <= Capped(silent, UnhealthyThreshold)
      /\ Capped(since, UnhealthyThreshold + CooldownPolls) \in 0 .. UnhealthyThreshold + CooldownPolls
      /\ \/ Capped(since, UnhealthyThreshold + CooldownPolls) = since + 1
         \/ Capped(since, UnhealthyThreshold + CooldownPolls) = UnhealthyThreshold + CooldownPolls
  BY <1>1 DEF Capped
<1>3. CASE PollHealthy
  <2>1. /\ silent' = 0 \/ silent' = Capped(silent, UnhealthyThreshold)
        /\ since' = Capped(since, UnhealthyThreshold + CooldownPolls)
        /\ UNCHANGED <<service, file, failed>>
    BY <1>3 DEF PollHealthy
  <2>2. CASE CooledDown
    <3>1. /\ worker' \in Worker /\ worker'.started = worker.started
          /\ worker'.channels = worker.channels /\ worker'.streak = 0 /\ worker'.cooldown = 0
      BY <1>1, <1>3, <2>2 DEF PollHealthy, CooledDown, Worker
    <3>2. TypeOK'
      BY <1>1, <1>2, <2>1, <3>1 DEF IInv, TypeOK, Worker
    <3>3. Counted'
      BY <1>1, <1>2, <2>1, <2>2, <3>1 DEF Counted, CooledDown
    <3> QED BY <1>1, <2>1, <3>1, <3>2, <3>3 DEF IInv, FileFollowsList
  <2>3. CASE ~CooledDown
    <3>1. worker.cooldown > 0 /\ worker.streak = 0 /\ worker.cooldown - 1 \in 0 .. CooldownPolls
      BY <1>1, <2>3 DEF CooledDown
    <3>2. /\ worker' \in Worker /\ worker'.started = worker.started
          /\ worker'.channels = worker.channels /\ worker'.streak = 0
          /\ worker'.cooldown = worker.cooldown - 1
      BY <1>1, <1>3, <2>3, <3>1 DEF PollHealthy, Worker
    <3>3. TypeOK'
      BY <1>1, <1>2, <2>1, <3>2 DEF IInv, TypeOK, Worker
    <3>4. Counted'
      BY <1>1, <1>2, <2>1, <3>1, <3>2 DEF Counted
    <3> QED BY <1>1, <2>1, <3>2, <3>3, <3>4 DEF IInv, FileFollowsList
  <2> QED BY <2>2, <2>3
<1>4. CASE silent' = Capped(silent, UnhealthyThreshold) /\ PollCounts
  <2>1. /\ silent' = Capped(silent, UnhealthyThreshold)
        /\ since' = Capped(since, UnhealthyThreshold + CooldownPolls)
        /\ worker.cooldown = 0 /\ worker.streak + 1 < UnhealthyThreshold
        /\ worker' = [worker EXCEPT !.streak = worker.streak + 1]
        /\ UNCHANGED <<service, file, failed>>
    BY <1>1, <1>4 DEF PollCounts, CooledDown, Due
  <2>2. /\ worker' \in Worker /\ worker'.started = worker.started
        /\ worker'.channels = worker.channels /\ worker'.streak = worker.streak + 1
        /\ worker'.cooldown = 0
    <3>1. worker.streak + 1 \in 0 .. UnhealthyThreshold - 1
      BY <1>1, <2>1
    <3> QED BY <1>1, <2>1, <3>1 DEF Worker
  <2>3. TypeOK'
    BY <1>1, <1>2, <2>1, <2>2 DEF IInv, TypeOK, Worker
  <2>4. Counted'
    BY <1>1, <1>2, <2>1, <2>2 DEF Counted
  <2> QED BY <1>1, <2>1, <2>2, <2>3, <2>4 DEF IInv, FileFollowsList
<1>5. CASE silent' = Capped(silent, UnhealthyThreshold) /\ PollRestarts
  <2> DEFINE s == [service EXCEPT !.state = "stopped"]
  <2>1. s \in Service
    BY <1>1 DEF Service
  <2>2. /\ EnsureUp(s, worker.channels) /\ since' = 0
        /\ worker' = [worker EXCEPT !.streak = 0, !.cooldown = CooldownPolls]
    BY <1>5 DEF PollRestarts, Restart
  <2> HIDE DEF s
  <2>3. /\ worker' \in Worker /\ worker'.started = worker.started
        /\ worker'.channels = worker.channels /\ worker'.streak = 0
        /\ worker'.cooldown = CooldownPolls
    <3>1. 0 \in 0 .. UnhealthyThreshold - 1 /\ CooldownPolls \in 0 .. CooldownPolls
      BY <1>1
    <3> QED BY <1>1, <2>2, <3>1 DEF Worker
  <2>4. /\ service' \in Service /\ file' \in Configs /\ failed' \in BOOLEAN
        /\ ~failed' => file' = worker.channels
    BY <1>1, <2>1, <2>2, EnsureUpFits DEF IInv
  <2>5. TypeOK'
    BY <1>1, <1>2, <1>5, <2>2, <2>3, <2>4 DEF IInv, TypeOK, Worker, Service
  <2>6. Counted'
    BY <1>1, <1>2, <1>5, <2>2, <2>3 DEF Counted
  <2> QED BY <1>1, <2>3, <2>4, <2>5, <2>6 DEF IInv, FileFollowsList
<1> QED BY <1>3, <1>4, <1>5 DEF Poll

\* The viewer starts with counters at rest, and leaves the relay alone.
LEMMA ViewerStep ==
    IInv /\ (Start \/ Quit \/ \E channels \in Configs : PushList(channels)) => IInv'
<1> SUFFICES ASSUME IInv, Start \/ Quit \/ \E channels \in Configs : PushList(channels)
             PROVE IInv'
  OBVIOUS
<1>1. CASE Start
  <2>1. /\ worker' = NewWorker(wanted) /\ lists' \in {<< >>, <<wanted>>} /\ wanted \in Configs
        /\ silent' = 0 /\ since' = UnhealthyThreshold + CooldownPolls /\ running' = TRUE
        /\ UNCHANGED <<wanted, service, file, failed>>
    BY <1>1 DEF Start, IInv, TypeOK
  <2>2. lists' \in Seq(Configs)
    <3>1. << >> \in Seq(Configs) /\ <<wanted>> \in Seq(Configs)
      BY <2>1
    <3> QED BY <2>1, <3>1
  <2>3. TypeOK'
    BY <2>1, <2>2, RelayAssumption DEF IInv, TypeOK, NewWorker
  <2>4. Counted' /\ FileFollowsList'
    BY <2>1, RelayAssumption DEF Counted, FileFollowsList, NewWorker
  <2> QED BY <2>3, <2>4 DEF IInv
<1>2. CASE Quit
  <2>1. /\ running' = FALSE /\ lists' = << >>
        /\ UNCHANGED <<wanted, worker, service, file, failed, silent, since>>
    BY <1>2 DEF Quit
  <2>2. lists' \in Seq(Configs)
    BY <2>1
  <2>3. running' \in BOOLEAN
    BY <2>1
  <2>4. TypeOK'
    BY <2>1, <2>2, <2>3 DEF IInv, TypeOK
  <2> QED BY <2>1, <2>4 DEF IInv, Counted, FileFollowsList
<1>3. ASSUME NEW channels \in Configs, PushList(channels) PROVE IInv'
  <2>1. /\ wanted' = channels /\ lists' = Append(lists, channels) /\ lists \in Seq(Configs)
        /\ UNCHANGED <<running, worker, service, file, failed, silent, since>>
    BY <1>3 DEF PushList, IInv, TypeOK
  <2>2. lists' \in Seq(Configs)
    BY <2>1
  <2>3. TypeOK'
    BY <2>1, <2>2 DEF IInv, TypeOK
  <2> QED BY <2>1, <2>3 DEF IInv, Counted, FileFollowsList
<1> QED BY <1>1, <1>2, <1>3

\* MediaMTX and launchd touch nothing but the service.
LEMMA ServiceStep ==
    ASSUME IInv, Boot \/ Reload \/ Wedge \/ Recover \/ Crash \/ KeepAlive
    PROVE  /\ IInv'
           /\ Running(service) => service'.pid = service.pid
<1>1. service \in Service /\ file \in Configs
  BY DEF IInv, TypeOK, Service
<1>2. /\ service' \in Service
      /\ Running(service) => service'.pid = service.pid
      /\ UNCHANGED <<running, wanted, lists, worker, file, failed, silent, since>>
  <2>1. CASE Boot
    BY <1>1, <2>1 DEF Boot, Becomes, Service
  <2>2. CASE Reload
    BY <1>1, <2>2 DEF Reload, Becomes, Service
  <2>3. CASE Wedge
    BY <1>1, <2>3 DEF Wedge, Becomes, Service
  <2>4. CASE Recover
    BY <1>1, <2>4 DEF Recover, Becomes, Service
  <2>5. CASE Crash
    BY <1>1, <2>5 DEF Crash, Becomes, Service
  <2>6. CASE KeepAlive
    <3>1. service' = Launched(service, file) /\ ~Running(service)
      BY <2>6 DEF KeepAlive, Becomes, Running
    <3> QED BY <1>1, <2>6, <3>1, LaunchedService DEF KeepAlive, Becomes
  <2> QED BY <2>1, <2>2, <2>3, <2>4, <2>5, <2>6
<1>3. IInv'
  BY <1>2 DEF IInv, TypeOK, Counted, FileFollowsList, Service
<1> QED BY <1>2, <1>3

LEMMA StepIInv == IInv /\ [Next]_vars => IInv'
<1> SUFFICES ASSUME IInv, [Next]_vars PROVE IInv'
  OBVIOUS
<1>1. CASE UNCHANGED vars
  BY <1>1 DEF vars, IInv, TypeOK, Counted, FileFollowsList
<1> QED BY <1>1, WorkerStep, PollStep, ViewerStep, ServiceStep DEF Next

-----------------------------------------------------------------------------
(* The theorems. *)

\* IInv holds of every reachable state.
THEOREM Invariance == Spec => []IInv
  BY InitIInv, StepIInv, PTL DEF Spec

\* The members have their types and the streak of the worker is below the
\* threshold between polls (RelayCoordinator.cpp:61-71).
THEOREM TypeCorrect == Spec => []TypeOK
<1>1. IInv => TypeOK
  BY DEF IInv
<1> QED BY <1>1, Invariance, PTL

\* mediamtx.yml names the channels the worker was told of last, unless it
\* could not be written or the list is empty (RelayCoordinator.cpp:88-94).
THEOREM FileIsCurrent == Spec => []FileFollowsList
<1>1. IInv => FileFollowsList
  BY DEF IInv
<1> QED BY <1>1, Invariance, PTL

\* No step but the self-healing poll replaces a running process, and that one
\* only after a full count of silent polls and a full cooldown: the sessions
\* with the devices survive the viewer (RelayCoordinator.h:40), and a list that
\* changes, too (against RelayCoordinator.h:25, see ShieldHolds).
THEOREM ShieldAlwaysHolds == Spec => ShieldHolds
<1> DEFINE Shielded == Running(service) /\ service'.pid # service.pid =>
                          /\ Poll /\ silent' = UnhealthyThreshold
                          /\ since + 1 >= UnhealthyThreshold + CooldownPolls
<1>1. ASSUME IInv, Next PROVE Shielded
  <2>1. CASE Start \/ Quit \/ \E channels \in Configs : PushList(channels)
    BY <2>1 DEF Start, Quit, PushList
  <2>2. CASE CoordinatorStart
    BY <1>1, <2>2, EnsureUpForFits DEF CoordinatorStart, IInv, TypeOK
  <2>3. CASE UpdateChannels
    <3>1. Head(lists) \in Configs
      BY <1>1, <2>3 DEF UpdateChannels, IInv, TypeOK
    <3> QED BY <1>1, <2>3, <3>1, EnsureUpForFits DEF UpdateChannels, Refreshed
  <2>4. CASE Poll
    <3>1. CASE PollHealthy \/ PollCounts
      BY <3>1 DEF PollHealthy, PollCounts
    <3>2. CASE silent' = Capped(silent, UnhealthyThreshold) /\ PollRestarts
      BY <1>1, <2>4, <3>2, RestartIsDue DEF PollRestarts
    <3> QED BY <2>4, <3>1, <3>2 DEF Poll
  <2>5. CASE Boot \/ Reload \/ Wedge \/ Recover \/ Crash \/ KeepAlive
    BY <1>1, <2>5, ServiceStep
  <2> QED BY <1>1, <2>1, <2>2, <2>3, <2>4, <2>5 DEF Next
<1>2. IInv /\ [Next]_vars => [Shielded]_vars
  BY <1>1
<1> QED BY <1>2, Invariance, PTL DEF Spec, ShieldHolds
=============================================================================
