---------------------------- MODULE ControlLoop -----------------------------
(***************************************************************************)
(* The one control thread and all that share it: the executor's queue and  *)
(* tick, the channels it opens and closes, the user's commands and the     *)
(* teardown of the program.                                                *)
(*                                                                         *)
(*   src/infra/system/ControlExecutor.cpp   run, post, drain, destructor   *)
(*   src/app/ChannelManager.cpp             tickAll, disconnectAll         *)
(*   src/ui/main.cpp                        the tick, the order of teardown *)
(*                                                                         *)
(* A channel is reduced to what the shared thread does to it: its packets  *)
(* are heard when their task runs, its close blocks the thread for up to   *)
(* JoinTime units of time, and the tick closes it when it has not been     *)
(* heard for StallTimeout units.  Channels are numbered in the order of    *)
(* the manager's map.  Several packets of a channel in the queue are one   *)
(* task, in the place of the last: only the last one heard counts.         *)
(* What begins with Loop is named so beside the manager (Channels).        *)
(***************************************************************************)
EXTENDS Integers, Sequences, FiniteSets, SequencesExt

CONSTANTS N,            \* channels
          StallTimeout, \* StallPolicy::stallTimeout
          JoinTime,     \* the longest a close of a source takes
          MaxCommands   \* bound: commands of the user

ASSUME ControlLoopAssumption ==
    N \in Nat \ {0} /\ StallTimeout \in Nat \ {0} /\ JoinTime \in Nat /\ MaxCommands \in Nat

Channels == 1 .. N

VARIABLES channel,  \* what each controller knows
          camera,   \* which cameras send
          queue,    \* m_queue
          control,  \* the control thread
          tickDue,  \* now >= nextTick
          ptrs,     \* mgrPtr and recCtrlPtr
          main,     \* the main thread's way through the teardown
          left      \* commands left

loopVars == <<channel, camera, queue, control, tickDue, ptrs, main, left>>

Task == [kind : {"packet", "error", "restart", "teardown"}, ch : 0 .. N]

\* at: where run is; ch: the channel it is at; join: the time its close may
\* still take; mgr, rec: what the tick has loaded.
Control == [at   : {"waiting", "restart", "error", "teardown", "tick", "tickJoin",
                    "recTick", "exited"},
            ch   : 0 .. N,
            join : 0 .. JoinTime,
            mgr  : BOOLEAN,
            rec  : BOOLEAN]

\* The main thread after exec: one point per statement that others can see.
Teardown == <<"running", "posting", "draining", "clearing", "returning",
              "recorderGone", "managerGone", "joining", "done">>

Reached(point) == \E i, j \in DOMAIN Teardown :
                      Teardown[i] = point /\ Teardown[j] = main.at /\ i <= j

LoopTypeOK ==
    /\ channel \in [Channels -> [state : {"idle", "opening", "up", "down"},
                                 age   : 0 .. StallTimeout]]
    /\ camera \in [Channels -> BOOLEAN]
    /\ queue \in Seq(Task) /\ IsInjective(queue)
    /\ control \in Control
    /\ tickDue \in BOOLEAN
    /\ ptrs \in [mgr : BOOLEAN, rec : BOOLEAN]
    /\ main \in [at : ToSet(Teardown), awake : BOOLEAN]
    /\ left \in 0 .. MaxCommands

Waiting == [at |-> "waiting", ch |-> 0, join |-> 0, mgr |-> FALSE, rec |-> FALSE]

LoopInit ==
    /\ channel = [ch \in Channels |-> [state |-> "opening", age |-> 0]]
    /\ camera \in [Channels -> BOOLEAN]
    /\ queue = <<>>
    /\ control = Waiting
    /\ tickDue = FALSE
    /\ ptrs = [mgr |-> TRUE, rec |-> TRUE]
    /\ main = [at |-> "running", awake |-> FALSE]
    /\ left = MaxCommands

-----------------------------------------------------------------------------
(* The channels. *)

Live(ch) == channel[ch].state \in {"opening", "up"}

Set(ch, state) == [channel EXCEPT ![ch] = [state |-> state, age |-> 0]]

\* The n-th of some numbers, and what is left of the queue at some places.
Nth(S, n) == CHOOSE i \in S : Cardinality({j \in S : j < i}) = n - 1
At(tasks, places) == [n \in 1 .. Cardinality(places) |-> tasks[Nth(places, n)]]

\* What a close leaves of the queue: the events of the source are detached.
Without(tasks, ch) ==
    At(tasks, {i \in DOMAIN tasks : tasks[i].ch # ch \/ tasks[i].kind \notin {"packet", "error"}})

Posted(tasks, kind, ch) == Append(tasks, [kind |-> kind, ch |-> ch])

-----------------------------------------------------------------------------
(* run: tasks first, then a tick that is due. *)

\* while (!m_queue.empty()), then notify, then stop or tick or wait.  The lock
\* is held from the end of one task to the start of the next.
Free == control.at = "waiting"

MutQueueFirst == TRUE

QueueFirst == queue = <<>>

\* The queue is empty: whoever drains is woken.
MutNotified == main

Notified == [main EXCEPT !.awake = @ \/ main.at = "draining"]

\* A task begins, and ends where it does not block.
RunTask ==
    /\ Free /\ queue # <<>>
    /\ LET t == Head(queue) IN
       CASE t.kind = "packet" ->
              /\ channel' = Set(t.ch, "up")
              /\ queue' = Tail(queue)
              /\ main' = IF queue' = <<>> THEN Notified ELSE main
              /\ UNCHANGED control
         [] t.kind = "teardown" ->
              /\ control' = [Waiting EXCEPT !.at = "teardown", !.ch = 1, !.join = JoinTime]
              /\ queue' = Tail(queue)
              /\ UNCHANGED <<channel, main>>
         [] t.kind \in {"error", "restart"} ->
              /\ control' = [Waiting EXCEPT !.at = t.kind, !.ch = t.ch, !.join = JoinTime]
              /\ queue' = Tail(queue)
              /\ UNCHANGED <<channel, main>>
    /\ UNCHANGED <<camera, tickDue, ptrs, left>>

\* close returns: the join of the decode thread is over.
ErrorHandled ==
    /\ control.at = "error"
    /\ channel' = Set(control.ch, "down")
    /\ queue' = Without(queue, control.ch)
    /\ control' = Waiting
    /\ main' = IF queue' = <<>> THEN Notified ELSE main
    /\ UNCHANGED <<camera, tickDue, ptrs, left>>

RestartHandled ==
    /\ control.at = "restart"
    /\ channel' = Set(control.ch, "opening")
    /\ queue' = Without(queue, control.ch)
    /\ control' = Waiting
    /\ main' = IF queue' = <<>> THEN Notified ELSE main
    /\ UNCHANGED <<camera, tickDue, ptrs, left>>

\* disconnectAll, one channel after the other.
Disconnected ==
    /\ control.at = "teardown"
    /\ channel' = Set(control.ch, "idle")
    /\ queue' = Without(queue, control.ch)
    /\ control' = IF control.ch < N
                  THEN [control EXCEPT !.ch = @ + 1, !.join = JoinTime]
                  ELSE Waiting
    /\ main' = IF control.ch = N /\ queue' = <<>> THEN Notified ELSE main
    /\ UNCHANGED <<camera, tickDue, ptrs, left>>

\* The tick is due and no task is waiting: onTick, without the lock.
TickBegins ==
    /\ Free /\ tickDue /\ QueueFirst
    /\ main.at # "joining"
    /\ tickDue' = FALSE
    /\ control' = [Waiting EXCEPT !.at = IF ptrs.mgr THEN "tick" ELSE "recTick",
                                  !.ch = 1, !.mgr = ptrs.mgr,
                                  !.rec = ~ptrs.mgr /\ ptrs.rec]
    /\ main' = Notified
    /\ UNCHANGED <<channel, camera, queue, ptrs, left>>

\* tickAll goes on; after the last channel the recordings' pointer is loaded.
Advanced ==
    IF control.ch < N
    THEN [control EXCEPT !.at = "tick", !.ch = @ + 1, !.join = 0]
    ELSE [control EXCEPT !.at = "recTick", !.join = 0, !.rec = ptrs.rec]

Stalls(ch) == channel[ch].state = "up" /\ channel[ch].age >= StallTimeout

\* One controller's tick: a stall closes, a wait may be over and opens.
TickChannel ==
    /\ control.at = "tick"
    /\ LET ch == control.ch IN
       \/ /\ Stalls(ch)
          /\ control' = [control EXCEPT !.at = "tickJoin", !.join = JoinTime]
          /\ UNCHANGED channel
       \/ /\ ~Stalls(ch)
          /\ control' = Advanced
          /\ channel' \in {channel} \cup (IF channel[ch].state = "down"
                                          THEN {Set(ch, "opening")} ELSE {})
    /\ UNCHANGED <<camera, queue, tickDue, ptrs, main, left>>

StallClosed ==
    /\ control.at = "tickJoin"
    /\ channel' = Set(control.ch, "down")
    /\ queue' = Without(queue, control.ch)
    /\ control' = Advanced
    /\ UNCHANGED <<camera, tickDue, ptrs, main, left>>

RecTick ==
    /\ control.at = "recTick"
    /\ control' = Waiting
    /\ UNCHANGED <<channel, camera, queue, tickDue, ptrs, main, left>>

\* m_stop: what is queued has been run.
Exit ==
    /\ Free /\ queue = <<>> /\ main.at = "joining"
    /\ control' = [Waiting EXCEPT !.at = "exited"]
    /\ UNCHANGED <<channel, camera, queue, tickDue, ptrs, main, left>>

Executor == RunTask \/ ErrorHandled \/ RestartHandled \/ Disconnected \/ TickBegins
            \/ TickChannel \/ StallClosed \/ RecTick \/ Exit

-----------------------------------------------------------------------------
(* The decode threads and the cameras. *)

\* The thread of a live channel reports an error: its camera is gone.
ReportError(ch) ==
    /\ Live(ch) /\ ~camera[ch]
    /\ [kind |-> "error", ch |-> ch] \notin ToSet(queue)
    /\ ~(control.at \in {"error", "restart", "tickJoin", "teardown"} /\ control.ch = ch)
    /\ queue' = Posted(queue, "error", ch)
    /\ UNCHANGED <<channel, camera, control, tickDue, ptrs, main, left>>

\* A camera fails at any time; one that is back is heard in a new session.
CameraChanges(ch) ==
    /\ camera[ch] \/ channel[ch].state # "up"
    /\ camera' = [camera EXCEPT ![ch] = ~@]
    /\ UNCHANGED <<channel, queue, control, tickDue, ptrs, main, left>>

\* The packets of one unit of time, each in the place of its predecessor.
Delivering ==
    {ch \in Channels : Live(ch) /\ camera[ch]
                       /\ [kind |-> "error", ch |-> ch] \notin ToSet(queue)}

\* A unit of time passes while the control thread sleeps or is blocked in a
\* join; everything else it does takes no time.
Elapse ==
    /\ \/ Free /\ queue = <<>> /\ ~tickDue
       \/ control.join > 0
    /\ control' = [control EXCEPT !.join = IF @ = 0 THEN 0 ELSE @ - 1]
    /\ tickDue' = TRUE
    /\ channel' = [ch \in Channels |->
                     IF channel[ch].state = "up" /\ channel[ch].age < StallTimeout
                     THEN [channel[ch] EXCEPT !.age = @ + 1] ELSE channel[ch]]
    /\ queue' = At(queue, {i \in DOMAIN queue :
                              ~(queue[i].kind = "packet" /\ queue[i].ch \in Delivering)})
                \o [n \in 1 .. Cardinality(Delivering) |->
                      [kind |-> "packet", ch |-> Nth(Delivering, n)]]
    /\ UNCHANGED <<camera, ptrs, main, left>>

-----------------------------------------------------------------------------
(* The main thread: commands while it runs the event loop, then teardown.  *)

Command(ch) ==
    /\ main.at = "running" /\ left > 0
    /\ [kind |-> "restart", ch |-> ch] \notin ToSet(queue)
    /\ left' = left - 1
    /\ queue' = Posted(queue, "restart", ch)
    /\ UNCHANGED <<channel, camera, control, tickDue, ptrs, main>>

Goes(from, to) == main.at = from /\ main' = [at |-> to, awake |-> FALSE]

ExecReturns ==
    /\ Goes("running", "posting")
    /\ ptrs' = [ptrs EXCEPT !.rec = FALSE]
    /\ UNCHANGED <<channel, camera, queue, control, tickDue, left>>

\* post, and drain up to its first look.
PostTeardown ==
    /\ main.at = "posting" /\ main' = [at |-> "draining", awake |-> TRUE]
    /\ queue' = Posted(queue, "teardown", 0)
    /\ UNCHANGED <<channel, camera, control, tickDue, ptrs, left>>

\* m_busy is set only around tasks.
Busy == control.at \in {"restart", "error", "teardown"}

MutIdle == queue = <<>>

Idle == queue = <<>> /\ ~Busy

DrainLooks ==
    /\ main.at = "draining" /\ main.awake
    /\ main' = IF Idle THEN [at |-> "clearing", awake |-> FALSE]
                       ELSE [main EXCEPT !.awake = FALSE]
    /\ UNCHANGED <<channel, camera, queue, control, tickDue, ptrs, left>>

ClearManager ==
    /\ Goes("clearing", "returning")
    /\ ptrs' = [ptrs EXCEPT !.mgr = FALSE]
    /\ UNCHANGED <<channel, camera, queue, control, tickDue, left>>

\* The locals go in the reverse order of their declaration.
Destroy ==
    /\ \/ Goes("returning", "recorderGone")
       \/ Goes("recorderGone", "managerGone")
       \/ Goes("managerGone", "joining")
       \/ Goes("joining", "done") /\ control.at = "exited"
    /\ UNCHANGED <<channel, camera, queue, control, tickDue, ptrs, left>>

Main == PostTeardown \/ DrainLooks \/ ClearManager \/ Destroy

Done == main.at = "done" /\ UNCHANGED loopVars

Environment == \E ch \in Channels : ReportError(ch) \/ CameraChanges(ch) \/ Command(ch)

LoopNext == Executor \/ Main \/ ExecReturns \/ Elapse \/ Environment \/ Done

LoopSpec == LoopInit /\ [][LoopNext]_loopVars

\* Both threads run, a join ends, time goes by.
FairSpec == LoopSpec /\ WF_loopVars(Executor) /\ WF_loopVars(Main) /\ WF_loopVars(Elapse)

-----------------------------------------------------------------------------
(* Properties. *)

\* When drain has returned, no task is queued or running and every source is
\* closed; and when the recordings are destroyed, no tick has loaded them.  It
\* says nothing of the manager: see ManagerOutlivesTicks.
DrainLeavesNothing ==
    /\ Reached("clearing") =>
          /\ queue = <<>> /\ ~Busy
          /\ \A ch \in Channels : ~Live(ch)
    /\ Reached("recorderGone") => ~control.rec

\* What main.cpp says of the teardown (line 612), that it does not depend on
\* the lifetimes of the stack: no tick that has loaded the manager runs on
\* after the manager is destroyed.  The code does not keep it, as drain does
\* not wait for a tick: m_busy is set around tasks only.
ManagerOutlivesTicks ==
    Reached("managerGone") => ~(control.mgr /\ control.at \in {"tick", "tickJoin"})

\* A tick judges with every packet heard: no close in a task, of whatever
\* channel and length, makes a channel whose camera sends look older to the
\* tick that follows.  Only the closes of that same tick can.
TicksBeginHeard ==
    [][control.at = "waiting" /\ control'.at = "tick" =>
          \A ch \in Channels :
              camera[ch] /\ channel[ch].state = "up" => channel[ch].age = 0]_loopVars

\* What the header of the manager says (ChannelManager.h:15): the failure of a
\* channel does not touch another, so a channel whose camera sends is never
\* closed as silent.  The code does not keep it: the closes of other channels
\* within one tick add up, and its packets wait behind them.
FailuresStayApart == [][control.at = "tick" /\ control'.at = "tickJoin" => ~camera[control.ch]]_loopVars

\* Once the event loop has returned the program ends: the drain is woken, the
\* joins end, the executor exits.
TeardownEnds == main.at # "running" ~> main.at = "done"
=============================================================================
