---------------------------- MODULE IndexClient ----------------------------
(***************************************************************************)
(* The index client of a node (index_client/src/index_client.rs,           *)
(* client_session.rs, single_client.rs): it keeps one session with one of  *)
(* the known index servers, tells it the state of the friends and asks it  *)
(* for routes.                                                             *)
(*                                                                         *)
(* Four actors: the main loop, the task of the present connection attempt  *)
(* (`task`), the task that sends the full state (`sfs`) and the loop of    *)
(* the session (`session`, `control`, `open`).  send().await on a channel  *)
(* of capacity 0 returns when the receiver has taken the message: a sender *)
(* whose message is in `control` is not ready for anything else.           *)
(***************************************************************************)
EXTENDS SeqMap, SequencesExt

CONSTANTS
  SERVERS, FRIENDS, REQUESTS,   \* index servers, friends, route requests
  LEAVING,                      \* the friends that may be removed
  MAX_OPEN_REQUESTS, KEEPALIVE, BACKOFF,
  MAX_VALUE                     \* bound: last value of each friend's state

VARIABLES
  loop,       \* "off", "running" or "panicked"
  servers,    \* index_servers
  status,     \* conn_status
  task,       \* "none", "connecting", "live"
  session,    \* TRUE while single_client_loop runs
  sfs,        \* send_full_state: [at, key, value, last]
  control,    \* messages to the session: [from, kind, ...]
  open,       \* open_requests of the session
  events,     \* messages to the main loop
  requests,   \* state of each route request
  num_open_requests,
  friends,    \* seq_friends
  index,      \* what the index servers know of the friends
  reported    \* the connected server the app server was told of

vars == <<loop, servers, status, task, session, sfs, control, open, events,
          requests, num_open_requests, friends, index, reported>>

None == "none"
Empty(n) == [type |-> "Empty", ticks |-> n, server |-> None,
             control |-> FALSE, cancel |-> FALSE]
Connecting(x) == [type |-> "Connecting", ticks |-> 0, server |-> x,
                  control |-> FALSE, cancel |-> TRUE]
Connected(x, cancel) == [type |-> "Connected", ticks |-> KEEPALIVE, server |-> x,
                         control |-> TRUE, cancel |-> cancel]
SfsOff == [at |-> "off", key |-> None, value |-> 0, last |-> FALSE]
SfsAt(at) == [SfsOff EXCEPT !.at = at]

\* at = "off" is a client that was never started.
InitAt(at) ==
  /\ loop = at
  /\ servers \in IF at = "off" THEN {<<>>} ELSE SetToSeqs(SERVERS)
  /\ IF at = "off" THEN status = Empty(0) /\ task = "none"
     ELSE status = Connecting(Head(servers)) /\ task = "connecting"
  /\ session = FALSE /\ sfs = SfsOff /\ control = <<>> /\ open = {}
  /\ events = <<>> /\ requests = [r \in REQUESTS |-> "idle"]
  /\ num_open_requests = 0
  /\ friends = SmNew(SetToSeq(FRIENDS), [f \in FRIENDS |-> 1])
  /\ index = [f \in FRIENDS |-> 0]
  /\ reported = None
Init == InitAt("running")

(***************************************************************************)
(* Connecting                                                              *)
(***************************************************************************)
\* try_connect_to_server, given the servers and the status it finds: the new
\* value of <<loop, servers, status, task>>.
try_connect_to_server(xs, st) ==
  IF st.type # "Empty" THEN <<"panicked", xs, st, task>>
  ELSE IF xs = <<>> THEN <<loop, xs, Empty(0), task>>
  ELSE <<loop, Append(Tail(xs), Head(xs)), Connecting(Head(xs)), "connecting">>

\* The session is up: send_full_state starts before the main loop knows.
SessionStarts ==
  /\ task = "connecting" /\ ~session
  /\ task' = "live" /\ session' = TRUE
  /\ sfs' = SfsAt("reset")
  /\ events' = Append(events, [type |-> "Connected"])
  /\ UNCHANGED <<loop, servers, status, control, open, requests,
                 num_open_requests, friends, index, reported>>

\* A cancel sender that is used or dropped cancels.
Canceled == ~status.cancel

\* The attempt failed, the session has ended or somebody canceled: the task
\* cancels send_full_state, waits for its end and tells the main loop.
TaskEnds ==
  /\ \/ task = "connecting"
     \/ task = "live" /\ (~session \/ Canceled)
  /\ task' = "none" /\ sfs' = SfsOff
  /\ events' = Append(events, [type |-> "Closed"])
  /\ UNCHANGED <<loop, servers, status, session, control, open, requests,
                 num_open_requests, friends, index, reported>>

(***************************************************************************)
(* send_full_state                                                         *)
(***************************************************************************)
Sends(who, msg) == control' = Append(control, [msg EXCEPT !.from = who])
Waits(who) == \E i \in DOMAIN control : control[i].from = who
Mutations(pairs) == [from |-> None, kind |-> "Mutations", pairs |-> pairs, id |-> None]
Routes(r) == [from |-> None, kind |-> "Routes", pairs |-> <<>>, id |-> r]

SfsReset ==
  /\ sfs.at = "reset"
  /\ friends' = reset_countdown(friends)
  /\ sfs' = SfsAt("next")
  /\ UNCHANGED <<loop, servers, status, task, session, control, open, events,
                 requests, num_open_requests, index, reported>>

SfsNext ==
  /\ sfs.at = "next" /\ ~Waits("sfs")
  /\ IF friends.queue = <<>> THEN sfs' = SfsOff /\ UNCHANGED friends
     ELSE LET key == Head(friends.queue)
          IN  /\ friends' = SmNext(friends)
              /\ sfs' = [at |-> "send", key |-> key, value |-> friends.map[key],
                         last |-> SmNext(friends).countdown = 0]
  /\ UNCHANGED <<loop, servers, status, task, session, control, open, events,
                 requests, num_open_requests, index, reported>>

\* The value may be out of date by the time it is sent.
SfsSend ==
  /\ sfs.at = "send"
  /\ IF session THEN Sends("sfs", Mutations(<<<<sfs.key, sfs.value>>>>))
     ELSE UNCHANGED control
  /\ sfs' = IF session /\ ~sfs.last THEN SfsAt("next") ELSE SfsOff
  /\ UNCHANGED <<loop, servers, status, task, session, open, events, requests,
                 num_open_requests, friends, index, reported>>

(***************************************************************************)
(* single_client_loop and the server                                       *)
(***************************************************************************)
Applied(idx, pairs) ==
  FoldLeft(LAMBDA i, p : [i EXCEPT ![p[1]] = p[2]], idx, pairs)

handle_control_message ==
  /\ session /\ control # <<>>
  /\ control' = Tail(control)
  /\ index' = Applied(index, Head(control).pairs)
  /\ open' = IF Head(control).kind = "Routes" THEN open \cup {Head(control).id} ELSE open
  /\ UNCHANGED <<loop, servers, status, task, session, sfs, events, requests,
                 num_open_requests, friends, reported>>

\* ResponseRoutes of the server reaches the task of the request.
handle_server_message(r) ==
  /\ session /\ r \in open
  /\ open' = open \ {r}
  /\ requests' = [requests EXCEPT ![r] = "ready"]
  /\ UNCHANGED <<loop, servers, status, task, session, sfs, control, events,
                 num_open_requests, friends, index, reported>>

\* The loop ends when the server has closed the connection or when the last
\* control sender is dropped; what it holds is dropped with it.
Holders == status.control \/ sfs.at # "off" \/ \E i \in DOMAIN events : events[i].type = "Connected"
SessionEnds ==
  /\ session
  /\ session' = FALSE /\ control' = <<>> /\ open' = {}
  /\ requests' = [r \in REQUESTS |->
       IF r \in open \/ \E i \in DOMAIN control : control[i].id = r
       THEN "ready" ELSE requests[r]]
  /\ UNCHANGED <<loop, servers, status, task, sfs, events, num_open_requests,
                 friends, index, reported>>
ControlClosed == ~Holders /\ control = <<>> /\ SessionEnds

RequestReports(r) ==
  /\ requests[r] = "ready"
  /\ requests' = [requests EXCEPT ![r] = "reported"]
  /\ events' = Append(events, [type |-> "ResponseRoutes", id |-> r])
  /\ UNCHANGED <<loop, servers, status, task, session, sfs, control, open,
                 num_open_requests, friends, index, reported>>

(***************************************************************************)
(* The main loop                                                           *)
(***************************************************************************)
Ready == loop = "running" /\ ~Waits("main")

Connects(xs, st) ==
  LET r == try_connect_to_server(xs, st)
  IN  loop' = r[1] /\ servers' = r[2] /\ status' = r[3] /\ task' = r[4]

add_index_server(x) ==
  /\ Ready
  /\ LET xs == Append(SelectSeq(servers, LAMBDA y : y # x), x)
     IN  IF status.type = "Empty" THEN Connects(xs, status)
         ELSE servers' = xs /\ UNCHANGED <<loop, status, task>>
  /\ UNCHANGED <<session, sfs, control, open, events, requests,
                 num_open_requests, friends, index, reported>>

\* Mutant: a connection to a server that is removed goes on.
remove_index_server_Keeps(x) ==
  /\ Ready
  /\ servers' = SelectSeq(servers, LAMBDA y : y # x)
  /\ UNCHANGED <<loop, status, task, session, sfs, control, open, events, requests,
                 num_open_requests, friends, index, reported>>

remove_index_server(x) ==
  /\ Ready
  /\ servers' = SelectSeq(servers, LAMBDA y : y # x)
  /\ status' = IF status.server = x
               THEN [status EXCEPT !.control = FALSE, !.cancel = FALSE] ELSE status
  /\ UNCHANGED <<loop, task, session, sfs, control, open, events, requests,
                 num_open_requests, friends, index, reported>>

\* A request that fails at once is answered at once.
request_routes(r) ==
  /\ Ready /\ requests[r] = "idle"
  /\ num_open_requests < MAX_OPEN_REQUESTS
  /\ status.type = "Connected" /\ status.control
  /\ IF session
     THEN /\ Sends("main", Routes(r))
          /\ requests' = [requests EXCEPT ![r] = "waiting"]
          /\ num_open_requests' = num_open_requests + 1
          /\ UNCHANGED status
     ELSE /\ status' = [status EXCEPT !.control = FALSE]
          /\ UNCHANGED <<control, requests, num_open_requests>>
  /\ UNCHANGED <<loop, servers, task, session, sfs, open, events, friends, index, reported>>

\* Mutant: the state of the next friend is not sent along.
SendMutations_Alone(pairs, m) ==
  /\ friends' = m
  /\ IF session THEN Sends("main", Mutations(pairs)) ELSE UNCHANGED control

\* Send mutations and the state of the next friend, if there is a session.
SendMutations(pairs, m) ==
  LET next == IF m.queue = <<>> THEN <<>> ELSE <<<<Head(m.queue), m.map[Head(m.queue)]>>>>
  IN  /\ friends' = IF m.queue = <<>> THEN m ELSE SmNext(m)
      /\ IF session THEN Sends("main", Mutations(pairs \o next)) ELSE UNCHANGED control

\* 0 stands for a friend's currency that is removed.
apply_index_mutation(f, value) ==
  IF value = 0 THEN SmRemove(friends, f) ELSE SmUpdate(friends, f, value)

apply_mutations(f, value) ==
  LET m == apply_index_mutation(f, value) IN
  /\ Ready
  /\ IF status.type = "Connected" /\ status.control
     THEN /\ SendMutations(<<<<f, value>>>>, m)
          /\ status' = [status EXCEPT !.control = session, !.ticks = KEEPALIVE]
     ELSE friends' = m /\ UNCHANGED <<control, status>>
  /\ UNCHANGED <<loop, servers, task, session, sfs, open, events, requests,
                 num_open_requests, index, reported>>

\* The state of a friend grows until its MAX_VALUE, or the friend is removed.
FriendChanges(f) ==
  \/ f \in DOMAIN friends.map /\ friends.map[f] < MAX_VALUE[f]
     /\ apply_mutations(f, friends.map[f] + 1)
  \/ f \in LEAVING \cap DOMAIN friends.map /\ apply_mutations(f, 0)

handle_index_server_connected ==
  /\ Ready /\ events # <<>> /\ Head(events).type = "Connected"
  /\ events' = Tail(events)
  /\ IF status.type = "Connecting"
     THEN status' = Connected(status.server, status.cancel) /\ reported' = status.server
     ELSE UNCHANGED <<status, reported>>
  /\ UNCHANGED <<loop, servers, task, session, sfs, control, open, requests,
                 num_open_requests, friends, index>>

handle_index_server_closed ==
  /\ Ready /\ events # <<>> /\ Head(events).type = "Closed"
  /\ events' = Tail(events)
  /\ reported' = IF status.type = "Connected" THEN None ELSE reported
  /\ status' = Empty(BACKOFF)
  /\ UNCHANGED <<loop, servers, task, session, sfs, control, open, requests,
                 num_open_requests, friends, index>>

\* checked_sub(1).unwrap()
handle_response_routes ==
  /\ Ready /\ events # <<>> /\ Head(events).type = "ResponseRoutes"
  /\ events' = Tail(events)
  /\ IF num_open_requests = 0 THEN loop' = "panicked" /\ UNCHANGED <<num_open_requests, requests>>
     ELSE /\ num_open_requests' = num_open_requests - 1
          /\ requests' = [requests EXCEPT ![Head(events).id] = "idle"]
          /\ UNCHANGED loop
  /\ UNCHANGED <<servers, status, task, session, sfs, control, open, friends, index, reported>>

Left == IF status.ticks > 0 THEN status.ticks - 1 ELSE 0

EmptyTick ==
  /\ status.type = "Empty"
  /\ IF Left = 0 THEN Connects(servers, Empty(0))
     ELSE status' = Empty(Left) /\ UNCHANGED <<loop, servers, task>>
  /\ UNCHANGED <<control, friends>>

\* A session that nothing was sent to for KEEPALIVE ticks is told the state of
\* the next friend.
ConnectedTick ==
  /\ status.type = "Connected" /\ status.control
  /\ IF Left = 0
     THEN /\ SendMutations(<<>>, friends)
          /\ status' = [status EXCEPT !.ticks = KEEPALIVE, !.control = session]
     ELSE status' = [status EXCEPT !.ticks = Left] /\ UNCHANGED <<control, friends>>
  /\ UNCHANGED <<loop, servers, task>>

handle_timer_tick ==
  /\ Ready
  /\ EmptyTick \/ ConnectedTick
  /\ UNCHANGED <<session, sfs, open, events, requests, num_open_requests, index, reported>>

HandleEvent == handle_index_server_connected \/ handle_index_server_closed
               \/ handle_response_routes
SfsStep == SfsReset \/ SfsNext \/ SfsSend

Next ==
  \/ SessionStarts \/ TaskEnds \/ SfsStep
  \/ handle_control_message \/ SessionEnds \/ ControlClosed
  \/ \E r \in REQUESTS : handle_server_message(r) \/ RequestReports(r) \/ request_routes(r)
  \/ \E x \in SERVERS : add_index_server(x) \/ remove_index_server(x)
  \/ \E f \in FRIENDS : FriendChanges(f)
  \/ HandleEvent \/ handle_timer_tick

Spec == Init /\ [][Next]_vars

\* Every task runs, the timer ticks, and the main loop serves its streams in
\* turn (select_streams), so that neither starves the other.
Fairness ==
  /\ WF_vars(TaskEnds) /\ WF_vars(SfsStep) /\ WF_vars(handle_control_message)
  /\ WF_vars(ControlClosed) /\ SF_vars(HandleEvent) /\ SF_vars(handle_timer_tick)
  /\ \A r \in REQUESTS : WF_vars(RequestReports(r))

FairSpec == Spec /\ Fairness

-----------------------------------------------------------------------------
(* Properties                                                              *)

\* A server that is removed, and not added again, is left, also when the
\* removal meets a connection that is just being made (index_client.rs,
\* remove_index_server and handle_index_server_connected).
RemovedServerIsLeft ==
  \A x \in SERVERS : (~Contains(servers, x)) ~> (status.server # x \/ Contains(servers, x))

\* If a session lasts, the index server learns the present state of every
\* friend, although send_full_state may skip a friend that changes meanwhile
\* and may send a value that is older than the one sent before: the keepalives
\* repair it (index_client.rs, handle_timer_tick, apply_mutations).
ServerCatchesUp ==
  <>[](status.type = "Connected" /\ status.control /\ session)
  => <>[](\A f \in DOMAIN friends.map : index[f] = friends.map[f])
=============================================================================
