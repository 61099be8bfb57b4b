------------------------------- MODULE Timer -------------------------------
(***************************************************************************)
(* The timer service (timer/src/timer.rs): it broadcasts every tick of the *)
(* interval to the clients that asked for a stream, without ever waiting   *)
(* for one of them.                                                        *)
(*                                                                         *)
(* A timer is a record: `entries` gives every client that has an entry the *)
(* number of its ticks that are queued.  A client whose entry is gone      *)
(* drains what was queued (`left`) and then sees the end of its stream.    *)
(***************************************************************************)
EXTENDS Naturals

CONSTANT TICK_QUEUE_LEN

TimerNew(clients) ==
  [loop |-> "running", requests_done |-> FALSE,
   entries |-> [c \in {} |-> 0], left |-> [c \in clients |-> 0]]

\* A channel of n slots takes one more message from its only sender.
Room == TICK_QUEUE_LEN + 1

\* The loop ends when nobody is served and nobody can ask any more.
EndIfIdle(t) ==
  IF t.requests_done /\ DOMAIN t.entries = {} THEN [t EXCEPT !.loop = "ended"] ELSE t

\* Mutant: a client that is too busy stays, and misses the tick.
TimerIncoming_Skips(t, gone) ==
  EndIfIdle([t EXCEPT !.entries = [c \in DOMAIN t.entries \ gone |->
               IF t.entries[c] < Room THEN t.entries[c] + 1 ELSE Room]])

\* TimerEvent::Incoming: a client whose queue is full or whose receiver was
\* dropped (gone) is disconnected.
TimerIncoming(t, gone) ==
  LET kept == { c \in DOMAIN t.entries \ gone : t.entries[c] < Room }
  IN  EndIfIdle([t EXCEPT
        !.entries = [c \in kept |-> t.entries[c] + 1],
        !.left = [c \in DOMAIN t.left |->
                    IF c \in DOMAIN t.entries \ kept THEN t.entries[c] ELSE t.left[c]]])

\* TimerEvent::Request, and the client's request_timer_stream.
TimerRequest(t, client) ==
  [t EXCEPT !.entries = [c \in DOMAIN t.entries \cup {client} |->
                           IF c = client THEN 0 ELSE t.entries[c]]]

RequestsDone(t) == EndIfIdle([t EXCEPT !.requests_done = TRUE])

\* What the client finds in its stream.
Queued(t, c) == IF c \in DOMAIN t.entries THEN t.entries[c] ELSE t.left[c]
StreamEnded(t, c) == c \notin DOMAIN t.entries /\ t.left[c] = 0

TakeTick(t, c) ==
  IF c \in DOMAIN t.entries THEN [t EXCEPT !.entries[c] = @ - 1]
  ELSE [t EXCEPT !.left[c] = @ - 1]
=============================================================================
