-------------------------------- MODULE Funder --------------------------------
(***************************************************************************)
(* The funder of one node (components/funder/src): its payments as a       *)
(* buyer, its invoices as a seller, and the requests it forwards between   *)
(* friends (handler/handle_friend.rs, handle_control.rs, canceler.rs,      *)
(* state.rs, friend.rs).  A handler is an operator from the state of a     *)
(* node to its state afterwards; module FunderNetwork lets nodes interact. *)
(*                                                                         *)
(* One currency, active on every channel, is modelled.  A channel is       *)
(* consistent or its friend was removed; how channels break and are reset  *)
(* is module FriendChannel's subject.  The ledgers are module              *)
(* MutualCredit's.                                                         *)
(***************************************************************************)
EXTENDS MutualCredit, Sequences, SequencesExt

CONSTANTS
    Node,          \* the nodes
    PaymentId,     \* payments that buyers create
    InvoiceId,     \* invoices that sellers issue
    Friend,        \* Friend[n]: the friends of n
    Pay,           \* Pay[p]: buyer, dest, invoice and total_dest_payment
    Inv,           \* Inv[i]: seller and total_dest_payment
    Tx,            \* Tx[u]: payment, route, dest_payment and fees
    LocalFee,      \* LocalFee[n]: what Rate::calc_fee asks for at n
    MaxDebt,       \* MaxDebt[n]: the remote_max_debt that n first grants a friend
    MaxBatch,      \* max_operations_in_batch
    MaxUserQueue,  \* max_pending_user_requests
    None           \* Option::None

(* A plain lock is random; it is known by the payment or invoice it locks.  *)
ASSUME LocksAssumption == PaymentId \cup InvoiceId \subseteq PlainLock

(* PaymentStage and its num_transactions; None stands for no payment. *)
PaymentOf(stage, num) == [stage |-> stage, num |-> num]
(* OpenTransaction; `response` is None, "Success" or "Complete". *)
TransactionOf(p, response) == [payment |-> p, response |-> response]
(* OpenInvoice *)
InvoiceOf(lock, incoming) == [src_hashed_lock |-> lock, incoming |-> incoming]

(* FunderState::new, with a fresh channel to every friend. *)
InitNode(n) ==
    [friends |-> Friend[n],                          \* existing friends
     mc |-> [f \in Friend[n] |-> NewMutualCredit(0)],
     backwards |-> [f \in Friend[n] |-> <<>>],       \* pending_backwards_ops
     requests |-> [f \in Friend[n] |-> <<>>],        \* pending_requests
     user |-> [f \in Friend[n] |-> <<>>],            \* pending_user_requests
     online |-> Friend[n],                           \* Ephemeral.liveness
     open |-> Friend[n],                             \* currency_config.is_open
     enabled |-> Friend[n],                          \* FriendStatus
     limit |-> [f \in Friend[n] |-> MaxDebt[n]],     \* remote_max_debt
     payments |-> [p \in PaymentId |-> None],
     transactions |-> [u \in Uid |-> None],          \* open_transactions
     invoices |-> [i \in InvoiceId |-> None],        \* open_invoices
     unsigned |-> <<>>,                              \* unsigned_responses
     told |-> [u \in Uid |-> None],                  \* last TransactionResult
     closed |-> [p \in PaymentId |-> {}],            \* ResponseClosePayment statuses
     commits |-> {},                                 \* payments with a Commit
     asked |-> {},                                   \* CreateTransaction commands
     issued |-> {},                                  \* AddInvoice commands
     paid |-> {},                                    \* invoices that were committed
     halt |-> "No"]                                  \* "Panic": an unwrap() failed;
                                                     \* "Inconsistent": a bad batch
-------------------------------------------------------------------------------
Panic(s) == [s EXCEPT !.halt = "Panic"]

(* find_request_origin: the friends that sent the request. *)
Origins(s, u) == {f \in s.friends : s.mc[f].remote[u] # NoPending}
Origin(s, u) == CHOOSE f \in Origins(s, u) : TRUE

PushBackwards(s, f, op) == [s EXCEPT !.backwards[f] = Append(@, op)]

ReplyWithCancel(s, f, u) == PushBackwards(s, f, [type |-> "Cancel", id |-> u])

(* The stage of a payment after one of its transactions failed. *)
AfterFailure(pay) ==
    CASE pay.stage = "InProgress" /\ pay.num = 1 -> PaymentOf("Canceled", 0)
      [] pay.stage = "AfterSuccessAck" /\ pay.num = 1 -> None
      [] OTHER -> PaymentOf(pay.stage, pay.num - 1)

(* ... and after one was collected: the buyer has a receipt. *)
AfterCollect(pay) ==
    CASE pay.stage = "AfterSuccessAck" /\ pay.num = 1 -> None
      [] pay.stage = "AfterSuccessAck" /\ pay.num > 1 -> PaymentOf("AfterSuccessAck", pay.num - 1)
      [] OTHER -> PaymentOf("Success", pay.num - 1)

(* What the user is told (ResponseClosePayment) when a payment gets so far. *)
Status(pay) ==
    IF pay # None /\ pay.stage \in {"Success", "Canceled"} THEN {pay.stage} ELSE {}

PaymentFor(s, u) == s.payments[s.transactions[u].payment]

(* The transaction and its payment exist, and are counted: else an unwrap(), *)
(* an unreachable!() or an assert!() of the handlers stops the node.        *)
IsCounted(s, u) ==
    /\ s.transactions[u] # None
    /\ LET pay == PaymentFor(s, u) IN
       pay # None /\ pay.num > 0 /\ pay.stage # "Canceled"

(* One transaction less: the payment becomes pay. *)
EndTransaction(s, u, pay) ==
    LET p == s.transactions[u].payment
    IN [s EXCEPT !.transactions[u] = None, !.payments[p] = pay,
                 !.closed[p] = @ \cup Status(pay)]

RemoveTransaction(s, u) ==
    IF IsCounted(s, u) THEN EndTransaction(s, u, AfterFailure(PaymentFor(s, u))) ELSE Panic(s)

(* cancel_request, and handle_cancel_send_funds: the cancellation is passed *)
(* to where the request came from.                                          *)
CancelRequest(s, u) ==
    IF Origins(s, u) = {}
    THEN [RemoveTransaction(s, u) EXCEPT !.told[u] = "Failure"]
    ELSE ReplyWithCancel(s, Origin(s, u), u)

(* Mutant: the queues are emptied, and nobody is told. *)
CancelPendingRequestsForgets(s, f) == [s EXCEPT !.requests[f] = <<>>, !.user[f] = <<>>]

(* cancel_pending_requests: what waits to be sent to f.  The second         *)
(* RemovePendingRequests of the code finds both queues empty.               *)
CancelPendingRequests(s, f) ==
    LET canceled == FoldLeft(LAMBDA t, op : CancelRequest(t, op.id), s, s.requests[f] \o s.user[f])
    IN [canceled EXCEPT !.requests[f] = <<>>, !.user[f] = <<>>]

(* cancel_nonuser_pending_requests: RemovePendingRequestsCurrency leaves    *)
(* the user's own requests in their queue.                                  *)
CancelNonuserPendingRequests(s, f) ==
    LET canceled == FoldLeft(LAMBDA t, op : CancelRequest(t, op.id), s, s.requests[f])
    IN [canceled EXCEPT !.requests[f] = <<>>]

(* cancel_local_pending_transactions: what f may already have been sent. *)
CancelLocalPendingTransactions(s, f) ==
    FoldSet(LAMBDA u, t : CancelRequest(t, u), s, {u \in Uid : s.mc[f].local[u] # NoPending})
-------------------------------------------------------------------------------
(* handle_request_send_funds, at the destination. *)

(* The credits that arrived for an invoice. *)
Arrived(s, incoming) ==
    MapThenSumSet(LAMBDA u : s.mc[Origin(s, u)].remote[u].dest_payment, incoming)

(* check_request: every transaction of an invoice carries the lock of the   *)
(* first, and they do not pay more than the total.                          *)
CheckRequest(s, op) ==
    LET invoice == s.invoices[op.invoice]
        paid == Arrived(s, invoice.incoming) + op.dest_payment
    IN IF invoice = None THEN "Failure"
       ELSE IF \/ invoice.src_hashed_lock \notin {NoLock, op.src_hashed_lock}
               \/ op.total # Inv[op.invoice].total
               \/ op.dest_payment > op.total THEN "Failure"
       ELSE IF \E u \in invoice.incoming : Origins(s, u) = {} THEN "Panic"
       ELSE IF paid > op.total THEN "Failure"
       ELSE IF paid < op.total THEN "Success" ELSE "Complete"

ResponseTo(op, result) ==
    [type |-> "Response", id |-> op.id, dest_hashed_lock |-> HashLock(op.invoice),
     signed |-> TRUE, is_complete |-> result = "Complete"]

(* queue_unsigned_response *)
AcceptRequest(s, f, op, result) ==
    [s EXCEPT !.invoices[op.invoice] =
                  InvoiceOf(IF @.src_hashed_lock = NoLock THEN op.src_hashed_lock ELSE @.src_hashed_lock,
                            @.incoming \cup {op.id}),
              !.unsigned = Append(@, [to |-> f, op |-> ResponseTo(op, result)])]

HandleRequestAtDestination(s, f, op) ==
    LET result == CheckRequest(s, op) IN
    CASE result = "Panic"   -> Panic(s)
      [] result = "Failure" -> ReplyWithCancel(s, f, op.id)
      [] OTHER              -> AcceptRequest(s, f, op, result)

(* Mutant: the fee is added to what is left for the rest of the route. *)
HandleRequestOnTheWayAddsFee(n, s, f, op) ==
    LET next == Head(op.route) IN
    IF /\ f \in s.open
       /\ next \in s.friends /\ next \in s.open /\ next \in s.online
       /\ op.left_fees >= LocalFee[n]
    THEN [s EXCEPT !.requests[next] =
              Append(@, [op EXCEPT !.route = Tail(@), !.left_fees = @ + LocalFee[n]])]
    ELSE ReplyWithCancel(s, f, op.id)

(* ... and on the way: the next node must be ready and the fee covered. *)
HandleRequestOnTheWay(n, s, f, op) ==
    LET next == Head(op.route) IN
    IF /\ f \in s.open
       /\ next \in s.friends /\ next \in s.open /\ next \in s.online
       /\ op.left_fees >= LocalFee[n]
    THEN [s EXCEPT !.requests[next] =
              Append(@, [op EXCEPT !.route = Tail(@), !.left_fees = @ - LocalFee[n]])]
    ELSE ReplyWithCancel(s, f, op.id)

HandleRequest(n, s, f, op) ==
    IF op.route = <<>> THEN HandleRequestAtDestination(s, f, op)
    ELSE HandleRequestOnTheWay(n, s, f, op)

(* Mutant: every response yields a Commit. *)
HandleResponseEarlyCommit(s, op) ==
    IF Origins(s, op.id) # {} THEN PushBackwards(s, Origin(s, op.id), op)
    ELSE IF ~IsCounted(s, op.id) \/ s.transactions[op.id].response # None THEN Panic(s)
    ELSE LET p == s.transactions[op.id].payment IN
         [s EXCEPT !.transactions[op.id] = TransactionOf(p, "Success"),
                   !.told[op.id] = "Success", !.commits = @ \cup {p}]

(* handle_response_send_funds.  Only a complete response yields a Commit. *)
HandleResponse(s, op) ==
    IF Origins(s, op.id) # {} THEN PushBackwards(s, Origin(s, op.id), op)
    ELSE IF ~IsCounted(s, op.id) \/ s.transactions[op.id].response # None THEN Panic(s)
    ELSE LET p == s.transactions[op.id].payment
             result == IF op.is_complete THEN "Complete" ELSE "Success"
         IN [s EXCEPT !.transactions[op.id] = TransactionOf(p, result),
                      !.told[op.id] = result,
                      !.commits = IF op.is_complete THEN @ \cup {p} ELSE @]

(* The first collect makes a receipt, from the response that was kept. *)
LacksReceipt(s, u) ==
    /\ s.transactions[u].response = None
    /\ PaymentFor(s, u).stage \in {"NewTransactions", "InProgress"}

(* handle_collect_send_funds *)
HandleCollect(s, op) ==
    IF Origins(s, op.id) # {} THEN PushBackwards(s, Origin(s, op.id), op)
    ELSE IF ~IsCounted(s, op.id) \/ LacksReceipt(s, op.id) THEN Panic(s)
    ELSE EndTransaction(s, op.id, AfterCollect(PaymentFor(s, op.id)))

HandleMessage(n, s, f, msg) ==
    CASE msg.kind = "Request"       -> HandleRequest(n, s, f, msg.op)
      [] msg.kind = "RequestCancel" -> ReplyWithCancel(s, f, msg.op.id)
      [] msg.kind = "Response"      -> HandleResponse(s, msg.op)
      [] msg.kind = "Cancel"        -> CancelRequest(s, msg.op.id)
      [] msg.kind = "Collect"       -> HandleCollect(s, msg.op)
-------------------------------------------------------------------------------
(* A received move token: handle_move_token_success.                        *)

(* process_operations_list: the ledger takes the whole batch first, and     *)
(* says which messages it holds.                                            *)
ReceiveOperation(limit, acc, op) ==
    IF ~acc.ok \/ ProcessCheck(acc.mc, op, limit) # "Ok" THEN [acc EXCEPT !.ok = FALSE]
    ELSE [ok |-> TRUE, mc |-> ProcessOperation(acc.mc, op),
          msgs |-> Append(acc.msgs,
              [op |-> op,
               kind |-> IF op.type = "Request" /\ IsRequestCancel(acc.mc, op, limit)
                        THEN "RequestCancel" ELSE op.type])]

(* sign_responses, after the handlers: the last unsigned response first. *)
SignResponses(s) ==
    FoldRight(LAMBDA r, t : PushBackwards(t, r.to, r.op), s.unsigned, [s EXCEPT !.unsigned = <<>>])

ReceiveBatch(n, s, f, ops) ==
    LET received == FoldLeft(LAMBDA acc, op : ReceiveOperation(s.limit[f], acc, op),
                             [ok |-> TRUE, mc |-> s.mc[f], msgs |-> <<>>], ops)
    IN IF ~received.ok THEN [s EXCEPT !.halt = "Inconsistent"]
       ELSE SignResponses(FoldLeft(LAMBDA t, msg : HandleMessage(n, t, f, msg),
                                   [s EXCEPT !.mc[f] = received.mc], received.msgs))
-------------------------------------------------------------------------------
(* A move token to send: collect_outgoing_move_token and send_move_token.   *)

(* The order in which the queues are emptied. *)
Waiting(s, f) == s.backwards[f] \o s.requests[f] \o s.user[f]

(* max_operations_in_batch *)
Batch(s, f) == SubSeq(Waiting(s, f), 1, Min({MaxBatch, Len(Waiting(s, f))}))

(* What a queue of length `len` keeps when k operations were taken from the *)
(* queues up to its end.                                                    *)
Keep(queue, k) == SubSeq(queue, Max({0, k}) + 1, Len(queue))

(* PendingMoveToken::queue_operation: a ledger that refuses an operation    *)
(* stops the node (unreachable!(), or unwrap() in send_move_token).         *)
QueuedLedger(s, f) ==
    FoldLeft(LAMBDA acc, op : IF acc.ok /\ QueueCheck(acc.mc, op) = "Ok"
                              THEN [ok |-> TRUE, mc |-> QueueOperation(acc.mc, op)]
                              ELSE [acc EXCEPT !.ok = FALSE],
             [ok |-> TRUE, mc |-> s.mc[f]], Batch(s, f))

(* Mutant: an answer that was sent stays in its queue. *)
SendToKeepsAnswers(f, s) ==
    LET queued == QueuedLedger(s, f)
        k == Len(Batch(s, f)) - Len(s.backwards[f])
    IN IF ~queued.ok THEN Panic(s)
       ELSE [s EXCEPT !.mc[f] = queued.mc,
                      !.requests[f] = Keep(@, k),
                      !.user[f] = Keep(@, k - Len(s.requests[f]))]

(* send_move_token *)
SendTo(f, s) ==
    LET queued == QueuedLedger(s, f)
        k == Len(Batch(s, f))
        b == Len(s.backwards[f])
    IN IF ~queued.ok THEN Panic(s)
       ELSE [s EXCEPT !.mc[f] = queued.mc,
                      !.backwards[f] = Keep(@, k),
                      !.requests[f] = Keep(@, k - b),
                      !.user[f] = Keep(@, k - b - Len(s.requests[f]))]
-------------------------------------------------------------------------------
(* Commands of the user and events of the channeler. *)

CreatePayment(s, p) ==
    IF s.payments[p] = None
    THEN [s EXCEPT !.payments[p] = PaymentOf("NewTransactions", 0)] ELSE s

RequestOf(u) ==
    LET tx == Tx[u]
        pay == Pay[tx.payment]
    IN [type |-> "Request", id |-> u, dest_payment |-> tx.dest_payment,
        left_fees |-> tx.fees, src_hashed_lock |-> HashLock(tx.payment),
        well_formed |-> tx.dest_payment <= pay.total,
        route |-> SubSeq(tx.route, 3, Len(tx.route)),
        invoice |-> pay.invoice, total |-> pay.total]

(* The conditions of control_create_transaction_inner; the friend is ready. *)
MayCreate(s, u) ==
    LET f == Tx[u].route[2] IN
    /\ f \in s.friends /\ f \in s.online
    /\ \A i \in DOMAIN s.user[f] : s.user[f][i].id # u
    /\ s.mc[f].local[u] = NoPending
    /\ Len(s.user[f]) < MaxUserQueue

(* control_create_transaction: a repeated command repeats the answer.       *)
CreateTransaction(s, u) ==
    LET p == Tx[u].payment IN
    IF s.payments[p] = None \/ s.payments[p].stage # "NewTransactions" THEN s
    ELSE IF s.transactions[u] # None
         THEN [s EXCEPT !.told[u] = IF s.transactions[u].response = None
                                    THEN @ ELSE s.transactions[u].response]
    ELSE IF ~MayCreate(s, u) THEN [s EXCEPT !.told[u] = "Failure"]
    ELSE [s EXCEPT !.transactions[u] = TransactionOf(p, None),
                   !.payments[p].num = @ + 1,
                   !.user[Tx[u].route[2]] = Append(@, RequestOf(u))]

Closed(pay) ==
    IF pay # None /\ pay.stage = "NewTransactions"
    THEN IF pay.num > 0 THEN PaymentOf("InProgress", pay.num) ELSE PaymentOf("Canceled", 0)
    ELSE pay

RequestClosePayment(s, p) ==
    LET pay == Closed(s.payments[p])
        not_found == pay = None \/ pay.stage = "AfterSuccessAck"
    IN [s EXCEPT !.payments[p] = pay,
                 !.closed[p] = @ \cup (IF not_found THEN {"PaymentNotFound"} ELSE Status(pay))]

AckClosePayment(s, p) ==
    LET pay == s.payments[p] IN
    IF pay = None \/ pay.stage \notin {"Success", "Canceled"} THEN s
    ELSE [s EXCEPT !.payments[p] =
              IF pay.stage = "Success" /\ pay.num > 0
              THEN PaymentOf("AfterSuccessAck", pay.num) ELSE None]

AddInvoice(s, i) ==
    IF s.invoices[i] = None
    THEN [s EXCEPT !.invoices[i] = InvoiceOf(NoLock, {}), !.issued = @ \cup {i}] ELSE s

CancelInvoice(s, i) ==
    IF s.invoices[i] = None THEN s
    ELSE LET incoming == s.invoices[i].incoming IN
         IF \E u \in incoming : Origins(s, u) = {} THEN Panic(s)
         ELSE [FoldSet(LAMBDA u, t : ReplyWithCancel(t, Origin(s, u), u), s, incoming)
               EXCEPT !.invoices[i] = None]

(* control_commit_invoice; `src` is the plain lock that the commit reveals. *)
CommitInvoice(s, i, src) ==
    IF s.invoices[i] = None \/ s.invoices[i].src_hashed_lock # HashLock(src) THEN s
    ELSE LET found == {u \in s.invoices[i].incoming : Origins(s, u) # {}}
             collect(u) == [type |-> "Collect", id |-> u, src_plain_lock |-> src,
                            dest_plain_lock |-> i]
         IN [FoldSet(LAMBDA u, t : PushBackwards(t, Origin(s, u), collect(u)), s, found)
             EXCEPT !.invoices[i] = None, !.paid = @ \cup {i}]

(* set_friend_currency_max_debt *)
SetMaxDebt(s, f, debt) == [s EXCEPT !.limit[f] = debt]

(* disable_friend; the channeler will report the friend offline. *)
DisableFriend(s, f) == [CancelPendingRequests(s, f) EXCEPT !.enabled = @ \ {f}]

EnableFriend(s, f) == [s EXCEPT !.enabled = @ \cup {f}]

RemoveFriend(s, f) ==
    [CancelLocalPendingTransactions(DisableFriend(s, f), f) EXCEPT !.friends = @ \ {f}]

(* set_friend_currency_requests_status *)
CloseRequests(s, f) == [CancelNonuserPendingRequests(s, f) EXCEPT !.open = @ \ {f}]
OpenRequests(s, f) == [s EXCEPT !.open = @ \cup {f}]

(* handle_liveness_message *)
Offline(s, f) ==
    IF f \in s.friends
    THEN CancelPendingRequests([s EXCEPT !.online = @ \ {f}], f)
    ELSE [s EXCEPT !.online = @ \ {f}]
Online(s, f) == [s EXCEPT !.online = @ \cup {f}]

(* A node that starts again has its database and no liveness. *)
Restart(s) == [s EXCEPT !.online = {}]
===============================================================================
