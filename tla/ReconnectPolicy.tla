-------------------------- MODULE ReconnectPolicy ---------------------------
(***************************************************************************)
(* What a channel's connection promises its operator, without the states,  *)
(* timers and counters that keep the promise:                              *)
(*                                                                         *)
(*   - a failed attempt is followed by a wait, a short one while the       *)
(*     budget of fast retries lasts and a long one when it is spent;       *)
(*   - nothing but the end of the wait, the user, or (in the slow mode)    *)
(*     the relay starts the next attempt;                                  *)
(*   - short of the user starting over, only a stream that is up refills   *)
(*     the budget.                                                         *)
(***************************************************************************)
EXTENDS Integers

CONSTANTS Budget,     \* fast retries before the slow mode
          FastDelay,  \* length of a wait while some are left
          SlowDelay   \* length of a wait in the slow mode

VARIABLES phase,   \* "off", "trying", "up", "fastWait" or "slowWait"
          budget,  \* fast retries left
          wait     \* time left of the wait, -1 outside one

vars == <<phase, budget, wait>>

NoWait == -1

Init == phase = "off" /\ budget = Budget /\ wait = NoWait

\* The user (re)starts the channel, from any phase.
Start == phase' = "trying" /\ budget' = Budget /\ wait' = NoWait

\* The user stops the channel.
Stop == phase' = "off" /\ budget' = Budget /\ wait' = NoWait

\* The stream delivers its first packet.
ComeUp == phase = "trying" /\ phase' = "up" /\ UNCHANGED <<budget, wait>>

\* The stream has proved itself.
Refill == phase = "up" /\ budget' = Budget /\ UNCHANGED <<phase, wait>>

\* The attempt or the stream failed.
Fail ==
    /\ phase \in {"trying", "up"}
    /\ \/ /\ budget > 0
          /\ phase' = "fastWait"
          /\ budget' = budget - 1
          /\ wait' = FastDelay
       \/ /\ budget = 0
          /\ phase' = "slowWait"
          /\ wait' = SlowDelay
          /\ UNCHANGED budget

\* The wait is over.
Expire ==
    /\ phase \in {"fastWait", "slowWait"}
    /\ wait = 0
    /\ phase' = "trying"
    /\ wait' = NoWait
    /\ UNCHANGED budget

\* The relay sees the device again and cuts the slow wait short.
Hint ==
    /\ phase = "slowWait"
    /\ phase' = "trying"
    /\ wait' = NoWait
    /\ UNCHANGED budget

Elapse == wait > 0 /\ wait' = wait - 1 /\ UNCHANGED <<phase, budget>>

Next == Start \/ Stop \/ ComeUp \/ Refill \/ Fail \/ Expire \/ Hint \/ Elapse

Spec == Init /\ [][Next]_vars
=============================================================================
