----------------------------- MODULE AppServer -----------------------------
(***************************************************************************)
(* The app server of a node (app_server/src/server.rs): it keeps the node  *)
(* report, gives every app a copy and its changes, passes the requests of  *)
(* the apps on to the funder and the index client and the answers back,    *)
(* and tells the index client what the funder reports.                     *)
(***************************************************************************)
EXTENDS NodeReport, FiniteSets

CONSTANTS
  APPS,        \* the connections of apps, numbered as app_counter numbers them
  FORBIDDEN,   \* the apps without the permissions for what they ask
  PEERS,       \* friends of the node
  UIDS,        \* identifiers of requests that are answered
  MAX_BATCH,   \* bound: report mutations of one funder message
  INBOX        \* bound: messages an app has not read

VARIABLES
  as,          \* the loop: "off", "running", "ended" or "panicked"
  app_counter,
  accepts,     \* ~incoming_connections_closed
  apps,        \* apps: the connections in the map
  task,        \* per app the task that reads from it: "none", "reading", "closed"
  report,      \* node_report
  copy, inbox, \* per app: its copy of the report, the changes under way to it
  told,        \* what the index client was told of the friends
  asked        \* route_requests, transactions, close_payment_requests: the app that
               \* asked last, of every request without an answer

vars == <<as, app_counter, accepts, apps, task, report, copy, inbox, told, asked>>

InitAt(at) ==
  /\ as = at
  /\ app_counter = 1 /\ accepts = TRUE /\ apps = {}
  /\ task = [a \in APPS |-> "none"]
  /\ report = [funder |-> [f \in PEERS |-> NewFriend(Unset)], server |-> FALSE]
  /\ copy = [a \in APPS |-> <<>>] /\ inbox = [a \in APPS |-> <<>>]
  /\ told = <<>> /\ asked = <<>>
Init == InitAt("running")

\* The loop waits until the app has taken the report, so that no change can
\* come in between.
handle_incoming_connection ==
  /\ as = "running" /\ accepts /\ app_counter \in APPS
  /\ apps' = apps \cup {app_counter}
  /\ task' = [task EXCEPT ![app_counter] = "reading"]
  /\ copy' = [copy EXCEPT ![app_counter] = report]
  /\ app_counter' = app_counter + 1
  /\ UNCHANGED <<as, accepts, report, inbox, told, asked>>

\* The app went away before it took the report or gave its channels: the error
\* ends the loop.
ConnectionGone ==
  /\ as = "running" /\ accepts /\ app_counter \in APPS
  /\ as' = "ended"
  /\ UNCHANGED <<app_counter, accepts, apps, task, report, copy, inbox, told, asked>>

\* The loop returns AllAppsClosed when nobody is left and nobody can come.
handle_incoming_connections_closed ==
  /\ as = "running" /\ accepts
  /\ accepts' = FALSE
  /\ as' = IF apps = {} THEN "ended" ELSE as
  /\ UNCHANGED <<app_counter, apps, task, report, copy, inbox, told, asked>>

\* Mutant: the server keeps the report it began with.
Mutated_Not(batch) == report

\* Mutate our node report.
Mutated(batch) == FoldLeft(node_mutate, report, batch)

broadcast_node_report_mutations(batch) ==
  /\ \A a \in apps : Len(inbox[a]) < INBOX
  /\ inbox' = [a \in APPS |-> IF a \in apps THEN Append(inbox[a], batch) ELSE inbox[a]]

\* FunderOutgoingControl::ReportMutations: every mutation is turned into index
\* mutations against the report as it was before the batch.
FunderReports(batch) ==
  LET old == report.funder
      step(index, m) == Told(index, old, mutate(old, m))
  IN
  /\ as = "running"
  /\ \A i \in DOMAIN batch : Applies(old, batch[i])
  /\ told' = FoldLeft(step, told, batch)
  /\ report' = Mutated(batch)
  /\ broadcast_node_report_mutations(batch)
  /\ UNCHANGED <<as, app_counter, accepts, apps, task, copy, asked>>

\* IndexClientToAppServer::ReportMutations
IndexClientReports(m) ==
  /\ as = "running"
  /\ report' = Mutated(<<m>>)
  /\ broadcast_node_report_mutations(<<m>>)
  /\ UNCHANGED <<as, app_counter, accepts, apps, task, copy, told, asked>>

AppReads(a) ==
  /\ as = "running" /\ inbox[a] # <<>>
  /\ copy' = [copy EXCEPT ![a] = FoldLeft(node_mutate, @, Head(inbox[a]))]
  /\ inbox' = [inbox EXCEPT ![a] = Tail(@)]
  /\ UNCHANGED <<as, app_counter, accepts, apps, task, report, told, asked>>

check_request_permissions(a) == a \notin FORBIDDEN
check_app_permissions(a) == a \in apps /\ check_request_permissions(a)

\* An app asks for something.  An app that may not is removed.  When the
\* identifier is in use already, the answer goes to the one who asked last.
handle_app_message(a, u) ==
  /\ as = "running" /\ task[a] = "reading"
  /\ IF ~check_app_permissions(a)
     THEN /\ apps' = apps \ {a} /\ UNCHANGED asked
          /\ copy' = [copy EXCEPT ![a] = <<>>] /\ inbox' = [inbox EXCEPT ![a] = <<>>]
     ELSE /\ asked' = [x \in DOMAIN asked \cup {u} |-> IF x = u THEN a ELSE asked[x]]
          /\ UNCHANGED <<apps, copy, inbox>>
  /\ UNCHANGED <<as, app_counter, accepts, task, report, told>>

\* TransactionResult, ResponseClosePayment, ResponseRoutes: asked[u] is sent the
\* answer, if it is still there.
Answer(u) ==
  /\ as = "running" /\ u \in DOMAIN asked
  /\ asked' = [x \in DOMAIN asked \ {u} |-> asked[x]]
  /\ UNCHANGED <<as, app_counter, accepts, apps, task, report, copy, inbox, told>>

AppCloses(a) ==
  /\ as = "running" /\ task[a] = "reading"
  /\ task' = [task EXCEPT ![a] = "closed"]
  /\ UNCHANGED <<as, app_counter, accepts, apps, report, copy, inbox, told, asked>>

\* handle_from_app with None: unwrap() of what apps.remove() returns.
AppClosed(a) ==
  /\ as = "running" /\ task[a] = "closed"
  /\ task' = [task EXCEPT ![a] = "none"]
  /\ apps' = apps \ {a} /\ inbox' = [inbox EXCEPT ![a] = <<>>]
  /\ copy' = [copy EXCEPT ![a] = <<>>]
  /\ as' = IF a \notin apps THEN "panicked"
           ELSE IF apps' = {} /\ ~accepts THEN "ended" ELSE as
  /\ UNCHANGED <<app_counter, accepts, report, told, asked>>

\* What the funder may report of a friend: changes of its state, of the list of
\* friends and of what is not kept.
friend_mutations(f) ==
  {Mutation("SetStatus", f, v) : v \in {"Enabled", "Disabled"}}
  \cup {Mutation("CurrencyConfig", f, v) : v \in {"open", "none"}}
  \cup {Mutation("SetChannelStatus", f, v) : v \in Channels}
funder_mutations(f) == {Mutation("RemoveFriend", f, 0), Mutation("AddFriend", f, Unset)}
ephemeral_mutations(f) == {Mutation("SetLiveness", f, v) : v \in {"Online", "Offline"}}
Mutations ==
  UNION {friend_mutations(f) \cup funder_mutations(f) \cup ephemeral_mutations(f) : f \in PEERS}

\* One change, or the statuses a channel goes through in one funder step: an
\* operation that comes in and its answer that goes out at once.
Batches ==
  {<<m>> : m \in Mutations}
  \cup IF MAX_BATCH = 1 THEN {}
       ELSE {<<Mutation("SetChannelStatus", f, v), Mutation("SetChannelStatus", f, w)>> :
               f \in PEERS, v \in 0 .. MAX_DEBT, w \in 0 .. MAX_DEBT}

Next ==
  \/ handle_incoming_connection \/ ConnectionGone \/ handle_incoming_connections_closed
  \/ \E b \in Batches : FunderReports(b)
  \/ \E v \in BOOLEAN : IndexClientReports([kind |-> "SetConnectedServer", value |-> v])
  \/ \E a \in APPS : AppReads(a) \/ AppCloses(a) \/ AppClosed(a)
  \/ \E a \in APPS, u \in UIDS : handle_app_message(a, u)
  \/ \E u \in UIDS : Answer(u)

Spec == Init /\ [][Next]_vars

-----------------------------------------------------------------------------
(* Properties                                                              *)

\* An app that has read everything has the report of the server, whenever it
\* came and whatever was reported meanwhile (server.rs,
\* handle_incoming_connection, broadcast_node_report_mutations).
AppsStayInStep ==
  \A a \in apps : FoldLeft(LAMBDA r, b : FoldLeft(node_mutate, r, b), copy[a], inbox[a]) = report

\* The index client knows what can be received from the friends that are
\* enabled, online, consistent and open: server.rs, handle_from_funder,
\* "Transform the funder report mutation to index mutations and send it to
\* IndexClient".
IndexFollowsReport == told = calc_friends_info(report.funder)

\* "We assert that this application exists in our apps map" (server.rs,
\* handle_from_app).
ClosedAppExists == as # "panicked"
=============================================================================
