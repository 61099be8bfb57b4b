---------------------------- MODULE ConnectPool ----------------------------
(***************************************************************************)
(* The connect pool of one friend (channeler/src/connect_pool.rs): it      *)
(* looks for a connection to the friend through the relays the friend is   *)
(* known to use, one attempt at a time, and hands it to whoever asked.     *)
(*                                                                         *)
(* A pool is a record.  `running` tells whether the attempt the status     *)
(* speaks of has not reported yet; `canceled` counts the attempts that     *)
(* were canceled and have not reported yet; `done` holds the reports the   *)
(* pool has not read.  A report carries no name of the attempt it is       *)
(* about, so the pool cannot tell them apart.                              *)
(***************************************************************************)
EXTENDS Naturals, Sequences, SequencesExt

CONSTANT BACKOFF_TICKS     \* backoff_ticks: ticks between two attempts

\* `requests` counts connect() calls that were not read yet, `configs` holds
\* the configurations that were not read yet.
CpNew ==
  [loop |-> "none", friend |-> "", addresses |-> <<>>, status |-> "NoRequest",
   ticks |-> 0, address |-> "", running |-> FALSE, canceled |-> 0,
   done |-> <<>>, requests |-> 0, configs |-> <<>>]

\* The loop of a new pool for a friend is spawned.
create_connect_pool(friend) == [CpNew EXCEPT !.loop = "running", !.friend = friend]

\* Leaving an attempt drops its canceler, and a dropped canceler cancels.
LeaveAttempt(p) ==
  [p EXCEPT !.canceled = @ + (IF p.running THEN 1 ELSE 0), !.running = FALSE]

\* Start an attempt through the first address.
create_conn_attempt(p) ==
  [LeaveAttempt(p) EXCEPT !.status = "Connecting", !.address = Head(p.addresses),
                          !.addresses = Tail(@), !.running = TRUE]

Wait(p, n) == [LeaveAttempt(p) EXCEPT !.status = "Waiting", !.ticks = n]

\* A loop that returns or panics drops every sender it holds.
EndLoop(p, how) ==
  [LeaveAttempt(p) EXCEPT !.loop = how, !.status = "NoRequest", !.done = <<>>,
                          !.configs = <<>>, !.requests = 0]

handle_connect_request(p0) ==
  LET p == [p0 EXCEPT !.requests = @ - 1]
  IN  IF p.status # "NoRequest" THEN EndLoop(p, "MultipleConnectRequests")
      ELSE IF p.addresses = <<>> THEN Wait(p, 0)
      ELSE create_conn_attempt(p)

add_address(p0, address) ==
  LET p == IF Contains(p0.addresses, address) THEN p0
           ELSE [p0 EXCEPT !.addresses = Append(@, address)]
  IN  IF p0.addresses = <<>> /\ p0.status = "Waiting"
      THEN create_conn_attempt(p) ELSE p

remove_address(p0, address) ==
  LET p == [p0 EXCEPT !.addresses = SelectSeq(@, LAMBDA a : a # address)]
  IN  IF p.status # "Connecting" \/ p.address # address THEN p
      ELSE IF p.addresses # <<>> THEN create_conn_attempt(p)
      ELSE Wait(p, 0)

\* Both differences are iterated in the order of a HashSet, which is any.
\* The address of the current attempt is not among the old addresses.
handle_config_request(p0) ==
  LET p   == [p0 EXCEPT !.configs = Tail(@)]
      old == ToSet(p.addresses)
      new == Head(p0.configs)
  IN  { FoldLeft(add_address, FoldLeft(remove_address, p, out), in) :
          out \in SetToSeqs(old \ new), in \in SetToSeqs(new \ old) }

\* Mutant: the countdown ends and no attempt is made.
CpTick_CountsOnly(p) ==
  IF p.status = "Waiting" THEN Wait(p, IF p.ticks > 0 THEN p.ticks - 1 ELSE 0) ELSE p

CpTick(p) ==
  LET left == IF p.ticks > 0 THEN p.ticks - 1 ELSE 0
  IN  IF p.status # "Waiting" THEN p
      ELSE IF left > 0 THEN Wait(p, left)
      ELSE IF p.addresses # <<>> THEN create_conn_attempt(p)
      ELSE Wait(p, BACKOFF_TICKS)

\* conn tells whether the report brings a connection.  In any status but
\* Connecting the code is unreachable!().
handle_connect_attempt_done(p0) ==
  LET p    == [p0 EXCEPT !.done = Tail(@)]
      back == [p EXCEPT !.addresses = Append(@, p.address)]
  IN  IF p.status # "Connecting" THEN EndLoop(p, "panicked")
      ELSE IF Head(p0.done)
      THEN [LeaveAttempt(back) EXCEPT !.status = "NoRequest"]
      ELSE Wait(back, BACKOFF_TICKS)

\* A report that answers the request that is being served.
Answers(p) == p.status = "Connecting" /\ Head(p.done)

\* conn_attempt: the current attempt reports what became of it.  A canceled
\* one reports nothing but None unless it was through at the same moment.
conn_attempt(p) ==
  { [p EXCEPT !.running = FALSE, !.done = Append(@, r)] :
      r \in IF p.running THEN BOOLEAN ELSE {} }
  \cup { [p EXCEPT !.canceled = @ - 1, !.done = Append(@, r)] :
      r \in IF p.canceled > 0 THEN BOOLEAN ELSE {} }
=============================================================================
