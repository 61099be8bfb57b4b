---------------------------- MODULE CompactNode ----------------------------
(***************************************************************************)
(* The compact node (stcompact/src/compact_node): it stands between a user *)
(* and a node, leads payments and invoices through their stages and keeps  *)
(* them in a database, so that it can go on after a crash.                 *)
(*                                                                         *)
(* A handler is a sequence of effects, in the order of the code: what is   *)
(* written to the database, sent to the node and sent to the user.  A      *)
(* crash may come after any of them.  Acks and reports to the user change  *)
(* nothing and are left out.                                               *)
(*                                                                         *)
(* The node is what its app server and its funder do with one payment of   *)
(* the user or one invoice; what happens on the way to the seller and with *)
(* the seller is a choice.                                                 *)
(***************************************************************************)
EXTENDS Naturals, Sequences, SequencesExt

CONSTANTS
  PAYMENTS, INVOICES,
  TXS,           \* transactions of a payment (routes of the chosen multi route)
  MAX_CRASHES,   \* bound: crashes and lost connections
  UNREAD         \* bound: messages the node has not read when an invoice is dealt with

VARIABLES
  cn,            \* the compact node: "off", "down", "running"
  db,            \* CompactState: payments -> status, invoices -> commit
  to_node,       \* per connection: what the node has not read; the connections of
                 \* the compact node are numbered by `crashes`
  from_node,
  node,          \* the node's payments and invoices
  told,          \* what the user was told of each payment and each invoice
  pending,       \* pending_user_requests, of one configuration request
  crashes

vars == <<cn, db, to_node, from_node, node, told, pending, crashes>>

Told(x) == IF x \in DOMAIN told THEN told[x] ELSE {}
Open(s, p) == p \in DOMAIN s.payments
SetPayment(s, p, st) ==
  [s EXCEPT !.payments = [q \in DOMAIN s.payments \cup {p} |-> IF q = p THEN st ELSE s.payments[q]]]
DropPayment(s, p) == [s EXCEPT !.payments = [q \in DOMAIN s.payments \ {p} |-> s.payments[q]]]
SetInvoice(s, i, c) ==
  [s EXCEPT !.invoices = [j \in DOMAIN s.invoices \cup {i} |-> IF j = i THEN c ELSE s.invoices[j]]]
DropInvoice(s, i) == [s EXCEPT !.invoices = [j \in DOMAIN s.invoices \ {i} |-> s.invoices[j]]]

Save(s) == <<[to |-> "db", state |-> s]>>
Send(kind, x) == <<[to |-> "node", kind |-> kind, of |-> x]>>
Tell(x, what) == <<[to |-> "user", of |-> x, what |-> what]>>

\* A payment at the node: its stage; `num`, the transactions in it
\* (num_transactions); `left`, those without a result; `made`, those there ever
\* were; whether one failed before it had a response; whether the connection
\* that is there now is the one in close_payment_requests and the one in
\* `transactions` of the app server; and that it was the first of them and is
\* not any more, because a request of an earlier connection came after it.
NewPayment == [st |-> "none", num |-> 0, left |-> 0, made |-> 0, bad |-> FALSE,
               asked |-> FALSE, ours |-> FALSE, overtaken |-> FALSE]

\* The user deals with the payments and the invoices of X.
InitAt(at, X) ==
  /\ cn = at
  /\ db = [payments |-> <<>>, invoices |-> <<>>]
  /\ to_node = [c \in 0 .. MAX_CRASHES |-> <<>>] /\ from_node = <<>>
  /\ node = [pay |-> [p \in PAYMENTS |-> NewPayment], open |-> {}]
  /\ told = [x \in X |-> {}]
  /\ pending = FALSE /\ crashes = 0
Init == InitAt("down", PAYMENTS \cup INVOICES)

-----------------------------------------------------------------------------
(* handle_user                                                             *)

\* A payment that is open is answered with what is known of it.
InitPayment(p) ==
  IF Open(db, p) THEN (IF db.payments[p] = "FoundRoute" THEN Tell(p, "fees") ELSE <<>>)
  ELSE Send("routes", p) \o Save(SetPayment(db, p, "SearchingRoute"))

\* The requests for the transactions and for closing follow at once.
ConfirmPaymentFees(p, matches) ==
  IF ~Open(db, p) \/ ~matches THEN <<>>
  ELSE IF db.payments[p] # "FoundRoute" THEN <<>>
  ELSE Save(SetPayment(db, p, "Sending")) \o Send("create", p)
       \o FlattenSeq([t \in 1 .. TXS |-> Send("tx", p)]) \o Send("close", p)

CancelPayment(p) ==
  IF ~Open(db, p) THEN <<>>
  ELSE IF db.payments[p] \notin {"SearchingRoute", "FoundRoute", "Sending"} THEN <<>>
  ELSE Save(SetPayment(db, p, "Failure")) \o Tell(p, "Failure")

AckPaymentDone(p, matches) ==
  IF ~Open(db, p) THEN <<>>
  ELSE IF db.payments[p] \notin {"Success", "Failure"} \/ ~matches THEN <<>>
  ELSE Save(DropPayment(db, p))

AddInvoice(i) ==
  IF i \in DOMAIN db.invoices THEN <<>>
  ELSE Save(SetInvoice(db, i, "none")) \o Send("add_invoice", i)

CancelInvoice(i) ==
  IF i \notin DOMAIN db.invoices THEN <<>>
  ELSE Send("cancel_invoice", i) \o Save(DropInvoice(db, i))

\* verify_commit is asked again; a commit that does not hold is not sent.
CommitInvoice(i) ==
  IF i \notin DOMAIN db.invoices THEN <<>>
  ELSE IF db.invoices[i] # "good" THEN <<>>
  ELSE Send("commit_invoice", i) \o Save(DropInvoice(db, i))

\* The commit is kept whatever came of its verification.
RequestVerifyCommit(i, commit) ==
  IF i \notin DOMAIN db.invoices THEN <<>>
  ELSE (IF commit = "good" /\ db.invoices[i] = "none" THEN Tell(i, "verified") ELSE <<>>)
       \o Save(SetInvoice(db, i, commit))

-----------------------------------------------------------------------------
(* handle_node                                                             *)

ResponseRoutes(p, found) ==
  IF ~Open(db, p) THEN <<>>
  ELSE IF db.payments[p] # "SearchingRoute" THEN <<>>
  ELSE IF found THEN Save(SetPayment(db, p, "FoundRoute")) \o Tell(p, "fees")
  ELSE Save(SetPayment(db, p, "Failure")) \o Tell(p, "unreachable")

\* Mutant: the commit is taken also when the payment was given up.
Awaits_Always(p) == Open(db, p)

\* Transactions are looked for in the payments that are being sent.
Awaits(p) == IF Open(db, p) THEN db.payments[p] = "Sending" ELSE FALSE

\* `open_transactions` is the copy from before the removal, so it is never
\* empty: after a Success that is not Complete nothing happens.
TransactionResult(p, result) ==
  IF ~Awaits(p) \/ result = "Success" THEN <<>>
  ELSE IF result = "Complete" THEN Save(SetPayment(db, p, "Commit")) \o Tell(p, "commit")
  ELSE Save(SetPayment(db, p, "Failure")) \o Tell(p, "Failure")

ack_close_payment(p, status) == IF status = "NotFound" THEN <<>> ELSE Send("ack", p)

ResponseClosePayment(p, status) ==
  LET st == IF Open(db, p) THEN db.payments[p] ELSE "none"
      to == IF st = "Commit" /\ status = "Success" THEN "Success" ELSE "Failure"
  IN  (IF st \in {"Sending", "Commit"} THEN Save(SetPayment(db, p, to)) \o Tell(p, to) ELSE <<>>)
      \o ack_close_payment(p, status)

Handled(m) ==
  CASE m.kind = "routes" -> ResponseRoutes(m.of, m.result = "found")
    [] m.kind = "result" -> TransactionResult(m.of, m.result)
    [] m.kind = "closed" -> ResponseClosePayment(m.of, m.result)
    [] m.kind = "mutations" -> <<>>

-----------------------------------------------------------------------------
(* compact_node_init                                                       *)

\* Mutant: the commit is told again, and nobody asks what became of it.
ResumeCommit_Silent(p) == Tell(p, "commit")

ResumeCommit(p) == Send("close", p) \o Tell(p, "commit")

Resumed(p) ==
  LET st == db.payments[p]
      Fail == Save(SetPayment(db, p, "Failure")) \o Tell(p, "Failure")
  IN  CASE st \in {"SearchingRoute", "FoundRoute"} -> Fail
        [] st = "Sending" -> Send("close", p) \o Fail
        [] st = "Commit" -> ResumeCommit(p)
        [] OTHER -> Tell(p, st)

-----------------------------------------------------------------------------
(* The effects of a handler, all of them or up to a crash                  *)

At(effects, to) == SelectSeq(effects, LAMBDA e : e.to = to)
Stored(effects) ==
  LET states == At(effects, "db") IN IF states = <<>> THEN db ELSE Last(states).state
Tellings(effects) ==
  LET said == ToSet(At(effects, "user"))
  IN  [x \in DOMAIN told |-> told[x] \cup {e.what : e \in {t \in said : t.of = x}}]

Perform(effects) ==
  /\ db' = Stored(effects) /\ told' = Tellings(effects)
  /\ to_node' = [to_node EXCEPT ![crashes] = @ \o At(effects, "node")]

\* What the node has to say to a connection that is gone is lost, and so may be
\* the last of what it has not read from it yet.
Remains(sent) ==
  \E n \in 0 .. Len(to_node[crashes] \o sent) :
    to_node' = [to_node EXCEPT ![crashes] = SubSeq(@ \o sent, 1, n)]

Lost ==
  /\ crashes < MAX_CRASHES /\ crashes' = crashes + 1
  /\ cn' = "down" /\ from_node' = <<>> /\ pending' = FALSE
  /\ node' = [node EXCEPT !.pay = [p \in PAYMENTS |->
                [@[p] EXCEPT !.asked = FALSE, !.ours = FALSE, !.overtaken = FALSE]]]

Crash ==
  /\ cn = "running" /\ Lost
  /\ Remains(<<>>)
  /\ UNCHANGED <<db, told>>

\* A crash in the middle of a handler.
Interrupted(effects) ==
  /\ Lost
  /\ \E n \in 1 .. Len(effects) - 1 :
       LET done == SubSeq(effects, 1, n) IN
       /\ db' = Stored(done) /\ told' = Tellings(done)
       /\ Remains(At(done, "node"))

User(effects) ==
  /\ cn = "running" /\ effects # <<>>
  /\ \/ Perform(effects) /\ UNCHANGED <<cn, from_node, node, pending, crashes>>
     \/ Interrupted(effects)

\* A payment is not begun again under the identifier of one that is done.
UserPays(p) ==
  \/ told[p] = {} /\ User(InitPayment(p))
  \/ Open(db, p) /\ User(InitPayment(p))
  \/ \E ok \in BOOLEAN : User(ConfirmPaymentFees(p, ok)) \/ User(AckPaymentDone(p, ok))
  \/ User(CancelPayment(p))

\* Nor is an invoice opened again that had a commit.
UserSells(i) ==
  /\ Len(to_node[crashes]) < UNREAD
  /\ \/ told[i] = {} /\ User(AddInvoice(i))
     \/ \E c \in {"good", "bad"} : User(RequestVerifyCommit(i, c))
     \/ User(CancelInvoice(i)) \/ User(CommitInvoice(i))

\* Configuration requests are passed on with the identifier of the user.
Configure ==
  /\ cn = "running" /\ ~pending
  /\ pending' = TRUE
  /\ Perform(Send("config", "node"))
  /\ UNCHANGED <<cn, from_node, node, crashes>>

handle_node ==
  /\ cn = "running" /\ from_node # <<>>
  /\ LET m == Head(from_node) IN
     \/ /\ Perform(Handled(m))
        /\ pending' = (pending /\ m.kind # "mutations")
        /\ from_node' = Tail(from_node)
        /\ UNCHANGED <<cn, node, crashes>>
     \/ Interrupted(Handled(m))

compact_node_init ==
  /\ cn = "down"
  /\ \E order \in SetToSeqs(DOMAIN db.payments) :
       LET effects == FlattenSeq([k \in DOMAIN order |-> Resumed(order[k])]) IN
       \/ /\ Perform(effects) /\ cn' = "running"
          /\ UNCHANGED <<from_node, node, pending, crashes>>
       \/ Interrupted(effects)

-----------------------------------------------------------------------------
(* The node: app_server/src/server.rs and the handlers of the funder       *)

Says(kind, x, result) == [kind |-> kind, of |-> x, result |-> result]
SetPay(p, r) == [node EXCEPT !.pay[p] = r]

control_create_payment(r) == IF r.st = "none" THEN [r EXCEPT !.st = "open"] ELSE r

\* A transaction that cannot be sent fails later (remove_transaction); one for
\* a payment that takes none is not answered.
control_create_transaction(r, live) ==
  IF r.st # "open" THEN r
  ELSE [r EXCEPT !.num = @ + 1, !.left = @ + 1, !.made = @ + 1, !.ours = live]

\* The answer, or "" when it has to wait; then the one who asked last gets it.
CloseStatus(r) ==
  CASE r.st \in {"none", "acked"} -> "NotFound"
    [] r.st = "open" /\ r.num = 0 -> "Canceled"
    [] r.st \in {"Success", "Canceled"} -> r.st
    [] OTHER -> ""
control_request_close_payment(r, live) ==
  CASE CloseStatus(r) = "" ->
         [r EXCEPT !.st = "closing", !.asked = live, !.overtaken = @ \/ (r.asked /\ ~live)]
    [] r.st = "open" /\ r.num = 0 -> [r EXCEPT !.st = "Canceled"]
    [] OTHER -> r

control_ack_close_payment(r) ==
  IF r.st \in {"Success", "Canceled"} THEN [r EXCEPT !.st = "acked", !.bad = FALSE] ELSE r

\* The node reads the next message of connection c.
NodeTakes(c) ==
  /\ to_node[c] # <<>> /\ to_node' = [to_node EXCEPT ![c] = Tail(@)]
  /\ LET m == Head(to_node[c])
         live == c = crashes
         r == node.pay[m.of]
         Reply(kind, result) ==
           from_node' = IF live /\ result # "" THEN Append(from_node, Says(kind, m.of, result))
                        ELSE from_node
         Quiet(n) == node' = n /\ UNCHANGED from_node
     IN  CASE m.kind = "routes" ->
                \E found \in {"found", "none"} : Reply("routes", found) /\ UNCHANGED node
           [] m.kind = "config" -> Reply("mutations", "done") /\ UNCHANGED node
           [] m.kind = "create" -> Quiet(SetPay(m.of, control_create_payment(r)))
           [] m.kind = "tx" -> Quiet(SetPay(m.of, control_create_transaction(r, live)))
           [] m.kind = "close" ->
                /\ Reply("closed", CloseStatus(r))
                /\ node' = SetPay(m.of, control_request_close_payment(r, live))
           [] m.kind = "ack" -> Quiet(SetPay(m.of, control_ack_close_payment(r)))
           [] m.kind = "add_invoice" -> Quiet([node EXCEPT !.open = @ \cup {m.of}])
           [] OTHER -> Quiet([node EXCEPT !.open = @ \ {m.of}])
  /\ UNCHANGED <<cn, db, told, pending, crashes>>

\* One transaction less: it was collected, or canceled.  A payment that is over,
\* or was over before, is reported; who asked is forgotten then.
Ended(r, collected) ==
  LET left == r.num - 1
      st == CASE r.st \in {"open", "closing"} /\ collected -> "Success"
              [] r.st = "closing" /\ left = 0 -> "Canceled"
              [] OTHER -> r.st
  IN  [r EXCEPT !.num = left, !.st = st, !.asked = @ /\ st \notin {"Success", "Canceled"}]
ClosedReport(p, r, after) ==
  IF after.st \in {"Success", "Canceled"} /\ r.asked THEN <<Says("closed", p, after.st)>> ELSE <<>>
ResultReport(p, r, result) == IF r.ours THEN <<Says("result", p, result)>> ELSE <<>>

\* A response: Complete comes with the last one when none has failed.
handle_response_send_funds(p) ==
  LET r == node.pay[p]
      result == IF r.left = 1 /\ ~r.bad /\ r.made = TXS THEN "Complete" ELSE "Success"
  IN
  /\ r.left > 0
  /\ node' = SetPay(p, [r EXCEPT !.left = @ - 1])
  /\ from_node' = from_node \o ResultReport(p, r, result)
  /\ UNCHANGED <<cn, db, to_node, told, pending, crashes>>

\* A transaction is canceled, with or without a response.  The funder reports
\* the transaction before the payment when it gives up a request of its own
\* (cancel_request), and after it when a cancel comes in.
remove_transaction(p) ==
  LET r == node.pay[p]
      after == Ended(r, FALSE)
      failed == ResultReport(p, r, "Failure")
      closed == ClosedReport(p, r, after)
  IN
  /\ r.num > 0
  /\ \/ r.left > 0 /\ node' = SetPay(p, [after EXCEPT !.left = @ - 1, !.bad = TRUE])
     \/ r.num > r.left /\ node' = SetPay(p, after)
  /\ from_node' \in {from_node \o failed \o closed, from_node \o closed \o failed}
  /\ UNCHANGED <<cn, db, to_node, told, pending, crashes>>

\* The seller collects only with the commit that the user has handed over.
handle_collect_send_funds(p) ==
  LET r == node.pay[p]
      after == Ended(r, TRUE)
  IN
  /\ r.num > r.left /\ "commit" \in Told(p)
  /\ node' = SetPay(p, after)
  /\ from_node' = from_node \o ClosedReport(p, r, after)
  /\ UNCHANGED <<cn, db, to_node, told, pending, crashes>>

NodeWorks ==
  \E p \in PAYMENTS :
    handle_response_send_funds(p) \/ remove_transaction(p) \/ handle_collect_send_funds(p)

Next ==
  \/ compact_node_init \/ handle_node \/ Configure \/ Crash \/ NodeWorks
  \/ \E c \in 0 .. MAX_CRASHES : NodeTakes(c)
  \/ \E p \in PAYMENTS \cap DOMAIN told : UserPays(p)
  \/ \E i \in INVOICES \cap DOMAIN told : UserSells(i)

Spec == Init /\ [][Next]_vars
\* The streams of the user and of the node are served in turn (select_streams);
\* the node answers; a compact node that is down is opened again.
Fairness ==
  /\ WF_vars(compact_node_init) /\ WF_vars(handle_node)
  /\ WF_vars(NodeWorks) /\ \A c \in 0 .. MAX_CRASHES : WF_vars(NodeTakes(c))
FairSpec == Spec /\ Fairness

-----------------------------------------------------------------------------
(* Properties                                                              *)

\* The user is never told that a payment failed that went through, nor that
\* one went through that did not, whatever crashes and cancellations come in
\* between (handle_user.rs, handle_node.rs, server_init.rs).
OutcomeIsTrue ==
  \A p \in PAYMENTS :
    /\ ~{"Success", "Failure"} \subseteq Told(p)
    /\ "Failure" \in Told(p) => node.pay[p].st # "Success"
    /\ "Success" \in Told(p) => node.pay[p].st \in {"Success", "acked"}

\* A payment that was sent is decided, and the user is told, also when the
\* compact node crashes at any point (server_init.rs), unless a request to close
\* it that an earlier connection sent reaches the app server after the one of
\* the connection that is there now, and takes the answer away from it
\* (app_server/src/server.rs, handle_app_message: "payment_id clash").
PaymentIsDecided ==
  \A p \in PAYMENTS :
    (IF Open(db, p) THEN db.payments[p] \in {"Sending", "Commit"} ELSE FALSE)
      ~> (Told(p) \cap {"Success", "Failure"} # {} \/ node.pay[p].overtaken)

\* "In any case, we acknowledge the `ResponseClosePayment` message, to make
\* sure the done payment is not stuck forever inside the node"
\* (handle_node.rs).
NodeForgetsPayments ==
  \A p \in PAYMENTS : node.pay[p].st \in {"Success", "Canceled"} ~> node.pay[p].st = "acked"

\* "If a crash happens, we will the open invoice in our persistent database,
\* and we will be able to resend it" (handle_user.rs, AddInvoice): an invoice
\* that is open here gets to the node.
InvoicesReachTheNode ==
  \A i \in INVOICES : i \in DOMAIN db.invoices ~> (i \in node.open \/ i \notin DOMAIN db.invoices)

\* "Optional commit that we got for this invoice. This allows to hold a commit
\* for a while before applying it." (persist.rs, OpenInvoice): a commit that the
\* user was told is good is held until the invoice is closed.
VerifiedCommitIsHeld ==
  \A i \in DOMAIN db.invoices : "verified" \in Told(i) => db.invoices[i] = "good"
=============================================================================
