---------------------------- MODULE FunderNetwork -----------------------------
(***************************************************************************)
(* Nodes that pay one another: every node runs the funder of module        *)
(* Funder, and each pair of friends shares a token channel.  An action is  *)
(* one call of funder_handle_message: the handler, the signing of          *)
(* responses and the sending of what waits for friends whose token is here *)
(* (create_friend_messages).  Its mutations are saved before anything is   *)
(* sent, so a crash falls between two actions.                             *)
(*                                                                         *)
(* A token channel moves batches of operations in turns, exactly once:     *)
(* module TokenLog, which module TokenChannel implements over a connection *)
(* that loses and repeats messages.                                        *)
(***************************************************************************)
EXTENDS Funder

CONSTANTS
    HoldsFirst,       \* the pairs <<n, f>> in which n holds the first token
    Removable,        \* the pairs <<n, f>> in which n may remove f
    Debts,            \* the limits that users set later
    Disturbances,     \* the kinds of disturbance that occur
    MaxDisturbances,  \* how many occur in a behaviour
    NoBatch           \* no move token is on its way

VARIABLES
    node,      \* node[n]: the state of n
    turn,      \* turn[n][f]: the token of the channel with f is n's, or on its way
    inbox,     \* inbox[n][f]: the move token that f sent and n has not handled
    disturbed  \* disturbances so far

vars == <<node, turn, inbox, disturbed>>

Init ==
    /\ node = [n \in Node |-> InitNode(n)]
    /\ turn = [n \in Node |-> [f \in Friend[n] |-> <<n, f>> \in HoldsFirst]]
    /\ inbox = [n \in Node |-> [f \in Friend[n] |-> NoBatch]]
    /\ disturbed = 0

(* The friends that n has a move token for, when its state becomes s and it *)
(* has handled what `handled` sent: there is something to send, or the      *)
(* friend asked for the token (remote_wants_token, resend_outgoing).        *)
SendsTo(n, s, handled, asked) ==
    {f \in s.friends \cap s.online :
        /\ turn[n][f]
        /\ f \in handled \/ inbox[n][f] = NoBatch
        /\ f \in asked \/ Waiting(s, f) # <<>>}

(* token_wanted: the batch was full. *)
MoveTokenTo(s, f) ==
    [ops |-> Batch(s, f), wanted |-> Len(Waiting(s, f)) > MaxBatch]

(* n's state becomes s, and it sends what it can.  A node that panics saves *)
(* nothing and handles nothing more; `asked` is a record of what its user   *)
(* did.                                                                     *)
Handle(n, s, handled, asked) ==
    LET to == SendsTo(n, s, handled, asked)
        sent == FoldSet(SendTo, s, to)
    IN /\ node[n].halt = "No"
       /\ node' = [node EXCEPT ![n] =
              IF s.halt # "No" THEN [@ EXCEPT !.halt = s.halt]
              ELSE IF sent.halt # "No" THEN [@ EXCEPT !.halt = sent.halt, !.asked = s.asked]
              ELSE sent]
       /\ IF s.halt # "No" \/ sent.halt # "No" THEN UNCHANGED <<turn, inbox>>
          ELSE /\ turn' = [x \in Node |-> [f \in Friend[x] |->
                      IF x = n /\ f \in to THEN FALSE
                      ELSE IF f = n /\ x \in to THEN TRUE ELSE turn[x][f]]]
               /\ inbox' = [x \in Node |-> [f \in Friend[x] |->
                      IF x = n /\ f \in handled THEN NoBatch
                      ELSE IF f = n /\ x \in to THEN MoveTokenTo(s, x) ELSE inbox[x][f]]]

(* A command of the user. *)
Command(n, s) ==
    /\ s # node[n]
    /\ Handle(n, s, {}, {})
    /\ UNCHANGED disturbed
-------------------------------------------------------------------------------
UserCreatesPayment(p) ==
    LET n == Pay[p].buyer IN
    /\ node[n].closed[p] = {}   \* payment ids are fresh
    /\ Command(n, CreatePayment(node[n], p))

UserCreatesTransaction(u) ==
    LET n == Pay[Tx[u].payment].buyer IN
    Command(n, [CreateTransaction(node[n], u) EXCEPT !.asked = @ \cup {u}])

UserClosesPayment(p) ==
    LET n == Pay[p].buyer IN Command(n, RequestClosePayment(node[n], p))

UserAcksPayment(p) ==
    LET n == Pay[p].buyer IN Command(n, AckClosePayment(node[n], p))

UserAddsInvoice(i) ==
    LET n == Inv[i].seller IN
    /\ i \notin node[n].issued   \* invoice ids are fresh
    /\ Command(n, AddInvoice(node[n], i))

UserCancelsInvoice(i) ==
    LET n == Inv[i].seller IN Command(n, CancelInvoice(node[n], i))

(* The buyer hands the commit to the seller out of band. *)
UserCommitsInvoice(p) ==
    LET n == Pay[p].dest IN
    /\ p \in node[Pay[p].buyer].commits
    /\ Command(n, CommitInvoice(node[n], Pay[p].invoice, p))

(* A move token of f arrives.  It is repeated until it is answered, so it   *)
(* waits while the friend is not online.                                    *)
MayReceive(n, f) ==
    /\ inbox[n][f] # NoBatch
    /\ f \in node[n].friends \cap node[n].online

Receive(n, f) ==
    /\ MayReceive(n, f)
    /\ Handle(n, ReceiveBatch(n, node[n], f, inbox[n][f].ops), {f},
              IF inbox[n][f].wanted THEN {f} ELSE {})
    /\ UNCHANGED disturbed

(* Mutant: what goes back to a friend is no reason to want the token. *)
IsTokenWantedForRequests(n, f) ==
    /\ turn[n][f] /\ inbox[n][f] = NoBatch
    /\ f \in node[n].friends \cap node[n].online
    /\ n \in node[f].friends \cap node[f].online /\ node[f].halt = "No"
    /\ node[f].requests[n] \o node[f].user[n] # <<>>

(* A friend that has something to send, and not the token, repeats its last *)
(* move token with token_wanted (transmit_outgoing); n sends the token.     *)
IsTokenWanted(n, f) ==
    /\ turn[n][f] /\ inbox[n][f] = NoBatch
    /\ f \in node[n].friends \cap node[n].online
    /\ n \in node[f].friends \cap node[f].online /\ node[f].halt = "No"
    /\ Waiting(node[f], n) # <<>>

TokenWanted(n, f) ==
    /\ IsTokenWanted(n, f)
    /\ Handle(n, node[n], {}, {f})
    /\ UNCHANGED disturbed

Disturb(kind) ==
    /\ kind \in Disturbances
    /\ disturbed < MaxDisturbances
    /\ disturbed' = disturbed + 1

(* The channeler reports that the connection was closed, or opened. *)
GoOffline(n, f) ==
    /\ Disturb("offline")
    /\ f \in node[n].online
    /\ Handle(n, Offline(node[n], f), {}, {})

MayGoOnline(n, f) == f \in (node[n].friends \cap node[n].enabled) \ node[n].online

GoOnline(n, f) ==
    /\ MayGoOnline(n, f)
    /\ Handle(n, Online(node[n], f), {}, {f})
    /\ UNCHANGED disturbed

(* The node stops and starts again. *)
RestartNode(n) ==
    /\ Disturb("restart")
    /\ Handle(n, Restart(node[n]), {}, {})

UserSetsFriendStatus(n, f) ==
    /\ f \in node[n].friends
    /\ \/ /\ Disturb("disable")
          /\ f \in node[n].enabled
          /\ Handle(n, DisableFriend(node[n], f), {}, {})
       \/ /\ f \notin node[n].enabled
          /\ Handle(n, EnableFriend(node[n], f), {}, {})
          /\ UNCHANGED disturbed

UserSetsRequestsStatus(n, f) ==
    /\ f \in node[n].friends
    /\ Disturb("requests")
    /\ Handle(n, IF f \in node[n].open THEN CloseRequests(node[n], f)
                 ELSE OpenRequests(node[n], f), {}, {})

UserSetsMaxDebt(n, f) ==
    /\ Disturb("limit")
    /\ f \in node[n].friends
    /\ \E debt \in Debts : Handle(n, SetMaxDebt(node[n], f, debt), {}, {})

UserRemovesFriend(n, f) ==
    /\ Disturb("remove")
    /\ <<n, f>> \in Removable
    /\ f \in node[n].friends
    /\ Handle(n, RemoveFriend(node[n], f), {}, {})

Next ==
    \/ \E p \in PaymentId : \/ UserCreatesPayment(p)
                            \/ UserClosesPayment(p)
                            \/ UserAcksPayment(p)
                            \/ UserCommitsInvoice(p)
    \/ \E u \in Uid : UserCreatesTransaction(u)
    \/ \E i \in InvoiceId : UserAddsInvoice(i) \/ UserCancelsInvoice(i)
    \/ \E n \in Node : \/ RestartNode(n)
                       \/ \E f \in Friend[n] : \/ Receive(n, f)
                                               \/ TokenWanted(n, f)
                                               \/ GoOffline(n, f)
                                               \/ GoOnline(n, f)
                                               \/ UserSetsFriendStatus(n, f)
                                               \/ UserSetsRequestsStatus(n, f)
                                               \/ UserSetsMaxDebt(n, f)
                                               \/ UserRemovesFriend(n, f)

Spec == Init /\ [][Next]_vars

(* The funder's loop handles what arrives, and the channeler reconnects.    *)
(* Each conjunct is weak fairness of one action, with ENABLED spelled out:  *)
(* a node that runs and meets the guard can take the step, and the step     *)
(* changes the state.                                                       *)
Fairness ==
    \A n \in Node : \A f \in Friend[n] :
        /\ []<>~(MayReceive(n, f) /\ node[n].halt = "No") \/ []<><<Receive(n, f)>>_vars
        /\ []<>~(IsTokenWanted(n, f) /\ node[n].halt = "No") \/ []<><<TokenWanted(n, f)>>_vars
        /\ []<>~(MayGoOnline(n, f) /\ node[n].halt = "No") \/ []<><<GoOnline(n, f)>>_vars

FairSpec == Spec /\ Fairness
-------------------------------------------------------------------------------
(* The requests whose origin was removed: their friend is gone, and they    *)
(* are still in an invoice or with the next friend.                         *)
Orphans(s) ==
    {u \in Uid : \E f \in DOMAIN s.mc \ s.friends : s.mc[f].remote[u] # NoPending}

(* The transactions that the user asked for and that exceed their payment's *)
(* total, which control_create_transaction does not compare.                *)
Oversized(s) == {u \in s.asked : Tx[u].dest_payment > Pay[Tx[u].payment].total}

(* The only ways to stop a node.  "TODO: Can this unwrap() ever panic?"     *)
(* (canceler.rs): it can, and so can those of handle_response_send_funds,   *)
(* handle_collect_send_funds, check_request and control_cancel_invoice, in  *)
(* a node that removed a friend while it held a request of that friend;     *)
(* and the unreachable!() of queue_operation (sender.rs) is reached by a    *)
(* transaction larger than its payment.  Nothing else stops a node: every   *)
(* other unwrap(), assert!() and unreachable!() holds, and no node sends    *)
(* its friend a batch that the friend finds inconsistent.                   *)
OnlyKnownStops ==
    \A n \in Node :
        /\ node[n].halt # "Inconsistent"
        /\ node[n].halt = "Panic" => Orphans(node[n]) # {} \/ Oversized(node[n]) # {}

OpenTransactions(s, p) == {u \in Uid : s.transactions[u] # None /\ s.transactions[u].payment = p}

(* The counter of a payment is the number of its open transactions, through *)
(* every order of commands, answers, cancellations and collects: a payment  *)
(* is forgotten, or reported canceled, only when none is left.              *)
TransactionsAreCounted ==
    \A n \in Node, p \in PaymentId :
        LET pay == node[n].payments[p]
            open == Cardinality(OpenTransactions(node[n], p))
        IN IF pay = None THEN open = 0
           ELSE /\ pay.num = open
                /\ pay.stage \in {"InProgress", "AfterSuccessAck"} => open > 0
                /\ pay.stage = "Canceled" => open = 0

IsQueued(queue, u, types) == \E i \in DOMAIN queue : queue[i].id = u /\ queue[i].type \in types

(* The places where a node may have a request that it received from f: at   *)
(* the destination in an invoice, waiting for or held by the next friend,   *)
(* or with its final answer waiting for f.                                  *)
Places(s, f, u) ==
    {<<"invoice", i>> : i \in {i \in InvoiceId : s.invoices[i] # None /\ u \in s.invoices[i].incoming}}
    \cup {<<"waits", g>> : g \in {g \in s.friends : IsQueued(s.requests[g], u, {"Request"})}}
    \cup {<<"sent", g>> : g \in {g \in s.friends : s.mc[g].local[u] # NoPending}}
    \cup (IF IsQueued(s.backwards[f], u, {"Cancel", "Collect"}) THEN {<<"answered", f>>} ELSE {})

(* A node that froze a friend's credits for a request always has the        *)
(* request in exactly one place: it is neither forgotten, which would leave *)
(* the credits frozen for ever, nor answered twice or both passed on and    *)
(* answered.                                                                *)
RequestsAreAccountedFor ==
    \A n \in Node, f \in Node, u \in Uid :
        (f \in node[n].friends /\ node[n].mc[f].remote[u] # NoPending)
            => Cardinality(Places(node[n], f, u)) = 1

(* A node that finds no friend from which a request came made it itself, or *)
(* removed that friend.  The handlers leave the second case out ("We        *)
(* couldn't find any external origin. It means that we are the origin of    *)
(* this request", handle_friend.rs).                                        *)
OriginIsKnown ==
    \A n \in Node, u \in Uid :
        LET s == node[n] IN
        ((\E g \in s.friends : s.mc[g].local[u] # NoPending \/ IsQueued(s.requests[g], u, {"Request"}))
            /\ Origins(s, u) = {}) => s.transactions[u] # None \/ u \in Orphans(s)

(* The requests held by an invoice came from friends that exist or were     *)
(* removed since.  Again the code leaves the second case out ("We expect    *)
(* that the origin of this request must be from an existing friend",        *)
(* handle_control.rs).                                                      *)
InvoicesAreBacked ==
    \A n \in Node, i \in InvoiceId :
        node[n].invoices[i] # None =>
            \A u \in node[n].invoices[i].incoming :
                Origins(node[n], u) # {} \/ u \in Orphans(node[n])

(* The books of a node agree with one another, whatever the order in which  *)
(* friends, users and cancellations come: payments count their open         *)
(* transactions, requests of friends are in exactly one place, and the      *)
(* origin of a request can be found unless that friend was removed.         *)
BooksAgree ==
    TransactionsAreCounted /\ RequestsAreAccountedFor /\ OriginIsKnown /\ InvoicesAreBacked

(* What a node has, counting the collects it has yet to send. *)
Credit(s) ==
    MapThenSumSet(LAMBDA f :
        s.mc[f].balance + FrozenBy(s.mc[f].remote, {u \in Uid : IsQueued(s.backwards[f], u, {"Collect"})}),
        DOMAIN s.mc)

(* What a buyer owes for the payments it has a receipt for. *)
Owed(n) ==
    MapThenSumSet(LAMBDA p : Pay[p].total +
                      MapThenSumSet(LAMBDA u : Tx[u].fees, {u \in node[n].asked : Tx[u].payment = p}),
                  {p \in PaymentId : Pay[p].buyer = n /\ "Success" \in node[n].closed[p]})

(* No node pays more than what it ordered and has a receipt for, the fees   *)
(* included; a node that only forwards never loses credits, whatever the    *)
(* order in which the answers on its two sides arrive.                      *)
NobodyOverpays == \A n \in Node : Credit(node[n]) >= -Owed(n)

(* A commit that the seller accepts collects exactly the invoice's total:   *)
(* the transactions of a payment are paid all together.  A seller that      *)
(* removed the friend from which some of them came passes those over.       *)
CommitCollectsTotal ==
    [][\A n \in Node : \A i \in node'[n].paid \ node[n].paid :
         LET incoming == node[n].invoices[i].incoming IN
         incoming \cap Orphans(node[n]) = {} => Arrived(node[n], incoming) = Inv[i].total]_vars

(* Friends that are no longer friends, or are disabled. *)
Parted ==
    \E n \in Node : \E f \in Friend[n] : f \notin node[n].friends \cap node[n].enabled

(* A payment in progress ends once the seller settled the invoice: it is    *)
(* paid, or all of its transactions come back canceled, although            *)
(* connections close, nodes restart, limits change and requests are closed  *)
(* on the way.  Friends that were removed or stay disabled are beyond help, *)
(* and so is a buyer that a transaction larger than its payment stops.      *)
PaymentsEnd ==
    \A p \in PaymentId :
        LET buyer == Pay[p].buyer
            seller == Inv[Pay[p].invoice].seller
            InProgress == node[buyer].payments[p] # None /\ node[buyer].payments[p].stage = "InProgress"
            Settled == Pay[p].invoice \in node[seller].issued
                       /\ node[seller].invoices[Pay[p].invoice] = None
        IN (InProgress /\ Settled) ~> (~InProgress \/ Parted \/ Oversized(node[buyer]) # {})
===============================================================================
