-------------------------------- MODULE Relay --------------------------------
(***************************************************************************)
(* The relay: RelayCoordinator (src/ui/relay/RelayCoordinator.cpp) on its   *)
(* worker thread, RelaySupervisor (src/app/RelaySupervisor.cpp), the        *)
(* service managers (src/infra/relay) and the lists that main.cpp sends it. *)
(*                                                                         *)
(* MediaMTX is a process of its own that outlives the viewer: it boots,     *)
(* answers its control API, hangs, crashes, and reloads its configuration   *)
(* when the file changes.  A configuration is the set of channels it has a  *)
(* path for.  Each task of the worker thread is one step.  What a poll      *)
(* reports to the channels is in Session (HandleRelayUp, HandleRelayDown).  *)
(***************************************************************************)
EXTENDS Integers, Sequences

CONSTANTS Ids,                \* channels
          UnhealthyThreshold, \* kUnhealthyThreshold
          CooldownPolls,      \* kCooldownPolls
          MaxChanges,         \* bound on the channel changes
          MaxRuns,            \* bound on the runs of the viewer
          MaxFaults           \* bound on crashes, hangs and failed calls

ASSUME RelayAssumption ==
    /\ UnhealthyThreshold \in Nat \ {0} /\ CooldownPolls \in Nat
    /\ MaxChanges \in Nat /\ MaxRuns \in Nat /\ MaxFaults \in Nat

VARIABLES running,  \* the viewer is up
          wanted,   \* channels in relay mode, as kept in channels.json
          lists,    \* lists on their way to the worker thread
          worker,   \* RelayCoordinator: [started, channels, streak, cooldown]
          platform, \* which service manager is built in
          service,  \* MediaMTX: [state, pid, loaded]
          file,     \* mediamtx.yml
          changes, runs, faults, \* counted against the bounds
          failed,   \* ghost: the last file could not be written
          silent,   \* ghost: polls in a row without an answer
          since     \* ghost: polls since the last forced restart

vars == <<running, wanted, lists, worker, platform, service, file, changes, runs, faults,
          failed, silent, since>>

Configs == SUBSET Ids
Capped(n, max) == IF n < max THEN n + 1 ELSE n

NewWorker(channels) == [started |-> FALSE, channels |-> channels, streak |-> 0, cooldown |-> 0]

-----------------------------------------------------------------------------
\* The service managers, launchd on a Mac and child processes on Windows.

\* A service that crashed on a Mac is still registered with launchd.
Running(s) == s.state \in {"booting", "up", "wedged"}

\* A new process reads the file.  Only parity of the pid is kept.
Launched(s, config) == [state |-> "booting", pid |-> 1 - s.pid, loaded |-> config]

Fault == faults < MaxFaults /\ faults' = faults + 1

\* Mutant: a running service is launched anew.
MutKept(s) == FALSE

\* ensureRunning keeps a process that runs, answering or not.
Kept(s) == Running(s)

EnsureRunning(s, config) ==
    \/ /\ Kept(s)
       /\ service' = s
       /\ UNCHANGED faults
    \/ /\ ~Kept(s)
       /\ service' = Launched(s, config)
       /\ UNCHANGED faults
    \/ /\ ~Running(s)
       /\ service' = [s EXCEPT !.state = "stopped"]
       /\ Fault

\* ensureUp: the file, then the service.  Without the file nothing is started.
EnsureUp(s, channels) ==
    \/ /\ file' = file
       /\ failed' = TRUE
       /\ service' = s
       /\ Fault
    \/ /\ file' = channels
       /\ failed' = FALSE
       /\ EnsureRunning(s, channels)

\* No relay is started for an empty list, and none is stopped.
EnsureUpFor(channels) ==
    IF channels = {} THEN UNCHANGED <<service, file, faults, failed>>
                     ELSE EnsureUp(service, channels)

\* Mutant: the service is not stopped first.
MutRestart(channels) == EnsureUp(service, channels)

\* restart: stop, then ensureUp.
Restart(channels) == EnsureUp([service EXCEPT !.state = "stopped"], channels)

-----------------------------------------------------------------------------
\* The worker thread.

CoordinatorStart ==
    /\ running /\ ~worker.started
    /\ worker' = [worker EXCEPT !.started = TRUE]
    /\ EnsureUpFor(worker.channels)
    /\ UNCHANGED <<running, wanted, lists, platform, changes, runs, silent, since>>

\* Mutant: a list that is not the first reaches no file.
MutRefreshed(channels) == IF worker.channels = {} THEN EnsureUpFor(channels)
                          ELSE UNCHANGED <<service, file, faults, failed>>

Refreshed(channels) == EnsureUpFor(channels)

UpdateChannels ==
    /\ running /\ worker.started /\ lists # << >>
    /\ worker' = [worker EXCEPT !.channels = Head(lists)]
    /\ lists' = Tail(lists)
    /\ Refreshed(Head(lists))
    /\ UNCHANGED <<running, wanted, platform, changes, runs, silent, since>>

\* pathsHealth: the paths of the configuration, none when nobody answers.
Answer == IF service.state = "up" THEN service.loaded ELSE {}

CooledDown == worker.cooldown = 0
Due == worker.streak + 1 >= UnhealthyThreshold

\* The service answers, or is not counted on yet.
PollHealthy ==
    /\ Answer # {} \/ ~CooledDown
    /\ worker' = IF CooledDown THEN [worker EXCEPT !.streak = 0]
                 ELSE [worker EXCEPT !.cooldown = worker.cooldown - 1]
    /\ silent' = IF Answer # {} THEN 0 ELSE Capped(silent, UnhealthyThreshold)
    /\ since' = Capped(since, UnhealthyThreshold + CooldownPolls)
    /\ UNCHANGED <<service, file, faults, failed>>

\* All channels are RelayDown: counted, and at the threshold the service is
\* stopped and started.
PollCounts ==
    /\ CooledDown /\ ~Due
    /\ worker' = [worker EXCEPT !.streak = worker.streak + 1]
    /\ since' = Capped(since, UnhealthyThreshold + CooldownPolls)
    /\ UNCHANGED <<service, file, faults, failed>>

PollRestarts ==
    /\ CooledDown /\ Due
    /\ worker' = [worker EXCEPT !.streak = 0, !.cooldown = CooldownPolls]
    /\ since' = 0
    /\ Restart(worker.channels)

Poll ==
    /\ running /\ worker.started /\ worker.channels # {}
    /\ \/ PollHealthy
       \/ /\ Answer = {}
          /\ silent' = Capped(silent, UnhealthyThreshold)
          /\ PollCounts \/ PollRestarts
    /\ UNCHANGED <<running, wanted, lists, platform, changes, runs>>

-----------------------------------------------------------------------------
\* The viewer: main.cpp.

\* The lists of restore may already be on their way.
Start ==
    /\ ~running /\ runs < MaxRuns
    /\ running' = TRUE
    /\ runs' = runs + 1
    /\ worker' = NewWorker(wanted)
    /\ lists' \in {<< >>, <<wanted>>}
    /\ silent' = 0
    /\ since' = UnhealthyThreshold + CooldownPolls
    /\ UNCHANGED <<wanted, platform, service, file, changes, faults, failed>>

\* pushList after any change of the channels, of their names or places too.
PushList(channels) ==
    /\ running /\ changes < MaxChanges
    /\ changes' = changes + 1
    /\ wanted' = channels
    /\ lists' = Append(lists, channels)
    /\ UNCHANGED <<running, worker, platform, service, file, runs, faults, failed, silent, since>>

\* The viewer ends; MediaMTX goes on.
Quit ==
    /\ running
    /\ running' = FALSE
    /\ lists' = << >>
    /\ UNCHANGED <<wanted, worker, platform, service, file, changes, runs, faults, failed,
                   silent, since>>

-----------------------------------------------------------------------------
\* MediaMTX and launchd.

Becomes(s) ==
    /\ service' = s
    /\ UNCHANGED <<running, wanted, lists, worker, platform, file, changes, runs, failed,
                   silent, since>>

Boot == service.state = "booting" /\ Becomes([service EXCEPT !.state = "up"]) /\ UNCHANGED faults
Reload == /\ service.state = "up" /\ service.loaded # file
          /\ Becomes([service EXCEPT !.loaded = file]) /\ UNCHANGED faults
Wedge == service.state = "up" /\ Becomes([service EXCEPT !.state = "wedged"]) /\ Fault
\* A hang passes: one that lasted for a call is a call that timed out.
Recover == /\ service.state = "wedged"
           /\ Becomes([service EXCEPT !.state = "up"]) /\ UNCHANGED faults
Crash == /\ Running(service)
         /\ Becomes([service EXCEPT !.state = IF platform = "mac" THEN "crashed" ELSE "stopped"])
         /\ Fault
KeepAlive == service.state = "crashed" /\ Becomes(Launched(service, file)) /\ UNCHANGED faults

-----------------------------------------------------------------------------
Init == /\ running = FALSE
        /\ wanted \in Configs
        /\ lists = << >>
        /\ worker = NewWorker({})
        /\ platform \in {"mac", "windows"}
        /\ file \in Configs
        /\ service \in [state : {"stopped", "up", "wedged"}, pid : {0}, loaded : {file}]
        /\ changes = 0 /\ runs = 0 /\ faults = 0
        /\ failed = FALSE /\ silent = 0
        /\ since = UnhealthyThreshold + CooldownPolls

Next == \/ Start \/ Quit
        \/ \E channels \in Configs : PushList(channels)
        \/ CoordinatorStart \/ UpdateChannels \/ Poll
        \/ Boot \/ Reload \/ Wedge \/ Recover \/ Crash \/ KeepAlive

\* The worker thread takes what is queued and its timer fires; MediaMTX comes
\* up when it is launched and reads a changed file; launchd keeps it alive.
Fairness == /\ WF_vars(CoordinatorStart) /\ WF_vars(UpdateChannels) /\ WF_vars(Poll)
            /\ WF_vars(Boot) /\ WF_vars(Reload) /\ WF_vars(KeepAlive)

Spec == Init /\ [][Next]_vars /\ Fairness
-----------------------------------------------------------------------------
\* What the relay is promised.

\* The members have their types; the streak stays below the threshold between
\* polls.
TypeOK ==
    /\ running \in BOOLEAN /\ failed \in BOOLEAN
    /\ wanted \in Configs /\ file \in Configs
    /\ lists \in Seq(Configs)
    /\ worker \in [started : BOOLEAN, channels : Configs,
                   streak : 0 .. UnhealthyThreshold - 1, cooldown : 0 .. CooldownPolls]
    /\ service \in [state : {"stopped", "crashed", "booting", "up", "wedged"},
                    pid : {0, 1}, loaded : Configs]
    /\ silent \in 0 .. UnhealthyThreshold
    /\ since \in 0 .. UnhealthyThreshold + CooldownPolls

\* The sessions with the devices survive the viewer: a process that runs is
\* replaced only by the self-healing poll, and only when as many polls in a
\* row as the threshold got no answer, with a full cooldown between two such
\* replacements (RelayCoordinator.h:40), so that it is given the time to boot;
\* no start and no end of the viewer does it (WindowsRelayService.cpp:91,
\* LaunchdRelayService.cpp:60).  Nor does a change of the channels, though
\* RelayCoordinator.h:25 and the comment at RelayCoordinator.cpp:86 want a
\* restart when the configuration has changed: both services compare no more
\* than the path of the file, and leave its content to a hot reload.
ShieldHolds ==
    [][Running(service) /\ service'.pid # service.pid =>
          /\ Poll /\ silent' = UnhealthyThreshold
          /\ since + 1 >= UnhealthyThreshold + CooldownPolls]_vars

\* The file names the channels the worker was told of last, unless it could
\* not be written or the list is empty, in every order of lists and restarts.
FileFollowsList ==
    running /\ worker.started /\ worker.channels # {} /\ ~failed => file = worker.channels

\* While the viewer is up and a channel uses the relay, the service is up with
\* the configuration for its channels again and again, through crashes, hangs
\* and calls that fail, but not after a file that could not be written, which
\* nothing writes again.
RelayServes ==
    []<>(\/ ~running \/ wanted = {} \/ failed
         \/ service.state = "up" /\ service.loaded = wanted)
=============================================================================
