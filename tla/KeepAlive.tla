----------------------------- MODULE KeepAlive -----------------------------
(***************************************************************************)
(* The two ends of a connection that is kept alive (keepalive/src/         *)
(* keepalive.rs), each driven by a timer service (module Timer).           *)
(*                                                                         *)
(* wire[s] holds the ages, in ticks, of the messages s has written and the *)
(* other end has not read.  Time is the same for both ends: a tick of the  *)
(* interval reaches both timers.  What the ends assume of their            *)
(* surroundings is explicit in Interval: between two live ends a message   *)
(* travels for at most DELAY ticks and a loop is at most LAG ticks late.   *)
(***************************************************************************)
EXTENDS Timer, Sequences

CONSTANTS
  KEEPALIVE_TICKS,   \* keepalive_ticks
  WIRE_ROOM,         \* messages the transport takes before send() waits
  DELAY, LAG

End == {1, 2}
Peer(s) == 3 - s

VARIABLES
  state,      \* "start", "running", "timeout" (RemoteTimeout), "closed", "dead"
  ticks_to_close, ticks_to_send_keepalive,
  waiting,    \* TRUE while s waits in to_remote.send()
  wire,
  timer,      \* the timer service s uses
  behind      \* ticks since s asked for its stream that s has not handled

vars == <<state, ticks_to_close, ticks_to_send_keepalive, waiting, wire, timer, behind>>

\* Mutant: a keepalive is due when the other end gives up.
Half_Late == KEEPALIVE_TICKS

\* A keepalive is due after half the ticks that make the other end give up.
Half == KEEPALIVE_TICKS \div 2

InitAt(at) ==
  /\ state = [s \in End |-> at]
  /\ ticks_to_close = [s \in End |-> KEEPALIVE_TICKS]
  /\ ticks_to_send_keepalive = [s \in End |-> Half]
  /\ waiting = [s \in End |-> FALSE]
  /\ wire = [s \in End |-> <<>>]
  /\ timer = [s \in End |-> TimerNew({s})]
  /\ behind = [s \in End |-> 0]

Init == InitAt("start")

\* transform_keepalive asks the timer for a stream and spawns the loop.
transform_keepalive(s) ==
  /\ state[s] = "start" /\ timer[s].loop = "running"
  /\ state' = [state EXCEPT ![s] = "running"]
  /\ timer' = [timer EXCEPT ![s] = TimerRequest(@, s)]
  /\ UNCHANGED <<ticks_to_close, ticks_to_send_keepalive, waiting, wire, behind>>

Running(s) == state[s] = "running" /\ ~waiting[s]

\* to_remote.send(): the message is on its way, or the loop waits.
Send(s) ==
  IF Len(wire[s]) < WIRE_ROOM
  THEN wire' = [wire EXCEPT ![s] = Append(@, 0)] /\ UNCHANGED waiting
  ELSE waiting' = [waiting EXCEPT ![s] = TRUE] /\ UNCHANGED wire

SendEnds(s) ==
  /\ state[s] = "running" /\ waiting[s] /\ Len(wire[s]) < WIRE_ROOM
  /\ waiting' = [waiting EXCEPT ![s] = FALSE]
  /\ wire' = [wire EXCEPT ![s] = Append(@, 0)]
  /\ UNCHANGED <<state, ticks_to_close, ticks_to_send_keepalive, timer, behind>>

\* A user message and a keepalive count alike.
MessageFromRemote(s) ==
  /\ Running(s) /\ wire[Peer(s)] # <<>>
  /\ wire' = [wire EXCEPT ![Peer(s)] = Tail(@)]
  /\ ticks_to_close' = [ticks_to_close EXCEPT ![s] = KEEPALIVE_TICKS]
  /\ UNCHANGED <<state, ticks_to_send_keepalive, waiting, timer, behind>>

MessageFromUser(s) ==
  /\ Running(s)
  /\ Send(s)
  /\ ticks_to_send_keepalive' = [ticks_to_send_keepalive EXCEPT ![s] = Half]
  /\ UNCHANGED <<state, ticks_to_close, timer, behind>>

\* Mutant: the last tick is not counted.
Less_Late(n) == IF n > 1 THEN n - 1 ELSE n

\* saturating_sub(1)
Less(n) == IF n > 0 THEN n - 1 ELSE 0

\* The loop ends; its countdowns are gone.
Ends(s, how) ==
  /\ state' = [state EXCEPT ![s] = how]
  /\ ticks_to_close' = [ticks_to_close EXCEPT ![s] = 0]
  /\ ticks_to_send_keepalive' = [ticks_to_send_keepalive EXCEPT ![s] = 0]
  /\ waiting' = [waiting EXCEPT ![s] = FALSE]

\* The timeout is looked at before the keepalive is sent.
TimerTick(s) ==
  LET close == Less(ticks_to_close[s])
      send  == Less(ticks_to_send_keepalive[s])
  IN
  /\ Running(s) /\ Queued(timer[s], s) > 0
  /\ timer' = [timer EXCEPT ![s] = TakeTick(@, s)]
  /\ behind' = [behind EXCEPT ![s] = @ - 1]
  /\ IF close = 0 THEN Ends(s, "timeout") /\ UNCHANGED wire
     ELSE /\ ticks_to_close' = [ticks_to_close EXCEPT ![s] = close]
          /\ ticks_to_send_keepalive' = [ticks_to_send_keepalive EXCEPT
                                           ![s] = IF send = 0 THEN Half ELSE send]
          /\ IF send = 0 THEN Send(s) ELSE UNCHANGED <<wire, waiting>>
          /\ UNCHANGED state

\* TimerClosed, RemoteChannelClosed (the other end has ended, and what it
\* wrote is read), UserChannelClosed.
Closed(s) ==
  /\ Running(s)
  /\ \/ StreamEnded(timer[s], s)
     \/ state[Peer(s)] \in {"timeout", "closed"} /\ wire[Peer(s)] = <<>>
  /\ Ends(s, "closed")
  /\ UNCHANGED <<wire, timer, behind>>

UserChannelClosed(s) ==
  /\ Running(s)
  /\ Ends(s, "closed")
  /\ UNCHANGED <<wire, timer, behind>>

\* The transport gives a send up when the other end has ended or is dead.
SendFails(s) ==
  /\ state[s] = "running" /\ waiting[s] /\ state[Peer(s)] \in {"timeout", "closed", "dead"}
  /\ Ends(s, "closed")
  /\ UNCHANGED <<wire, timer, behind>>

\* The machine of s dies: nothing tells the other end.
Die(s) ==
  /\ state[s] \in {"start", "running"}
  /\ Ends(s, "dead")
  /\ UNCHANGED <<wire, timer, behind>>

\* The last TimerClient is dropped: no stream can be asked for any more.
ClientsGone(s) ==
  /\ state[s] = "running" /\ ~timer[s].requests_done
  /\ timer' = [timer EXCEPT ![s] = RequestsDone(@)]
  /\ UNCHANGED <<state, ticks_to_close, ticks_to_send_keepalive, waiting, wire, behind>>

\* The interval ticks.
BothRun == \A s \in End : state[s] = "running"
Punctual ==
  BothRun => \A s \in End : /\ behind[s] < LAG
                            /\ \A i \in DOMAIN wire[s] : wire[s][i] < DELAY
Interval ==
  /\ \A s \in End : state[s] # "start"
  /\ \E s \in End : DOMAIN timer[s].entries # {}
  /\ Punctual
  /\ timer' = [s \in End |->
                 TimerIncoming(timer[s], IF state[s] = "running" THEN {} ELSE {s})]
  /\ behind' = [s \in End |->
                  IF state[s] = "running" /\ s \in DOMAIN timer[s].entries
                     /\ s \in DOMAIN timer'[s].entries
                  THEN behind[s] + 1 ELSE behind[s]]
  /\ wire' = [s \in End |-> IF BothRun THEN [i \in DOMAIN wire[s] |-> wire[s][i] + 1]
                                       ELSE wire[s]]
  /\ UNCHANGED <<state, ticks_to_close, ticks_to_send_keepalive, waiting>>

Next ==
  \/ Interval
  \/ \E s \in End :
       \/ transform_keepalive(s) \/ SendEnds(s) \/ MessageFromRemote(s)
       \/ MessageFromUser(s) \/ TimerTick(s) \/ Closed(s) \/ UserChannelClosed(s)
       \/ SendFails(s) \/ Die(s) \/ ClientsGone(s)

Spec == Init /\ [][Next]_vars

\* The interval ticks and the loops take what they are offered; the transport
\* of a dead machine gives up.
LoopStep(s) == transform_keepalive(s) \/ SendEnds(s) \/ SendFails(s) \/ Closed(s)
               \/ TimerTick(s) \/ MessageFromRemote(s)
Fairness == WF_vars(Interval) /\ \A s \in End : WF_vars(LoopStep(s))

FairSpec == Spec /\ Fairness

-----------------------------------------------------------------------------
(* Properties                                                              *)

\* While both ends run, are at most LAG ticks late and their messages take at
\* most DELAY ticks, neither times out: the half period at which keepalives
\* are sent leaves room for both delays (keepalive.rs, TimerTick and
\* MessageFromRemote).
TimesOutRightly ==
  \A s \in End : state'[s] = "timeout" => state[Peer(s)] # "running"
LivePeerIsKept == [][TimesOutRightly]_vars

\* An end whose peer is dead does not run for ever, even when its loop waits
\* in send() and the timer disconnects it meanwhile (keepalive.rs, TimerTick;
\* timer.rs, Incoming).
SilentPeerIsDropped ==
  \A s \in End : state[Peer(s)] = "dead" ~> state[s] # "running"

\* A client of the timer never misses a tick: it finds every tick it has not
\* handled in its queue, or it is disconnected (timer.rs, Incoming).
NoTickIsMissed ==
  \A s \in End : state[s] = "running" => behind[s] = Queued(timer[s], s)
=============================================================================
