---------------------------- MODULE FriendChannel -----------------------------
(***************************************************************************)
(* How the channel of two friends breaks and is reset (components/funder/  *)
(* src/friend.rs, token_channel.rs, handler/handle_friend.rs, sender.rs,   *)
(* canceler.rs).                                                           *)
(*                                                                         *)
(* A side that cannot process a move token becomes inconsistent: it makes  *)
(* reset terms (a fresh token and the balance it asks for) and sends them  *)
(* in an InconsistencyError.  The other side becomes inconsistent in turn. *)
(* When the user of a side accepts the friend's terms, that side sends a   *)
(* move token that continues the terms' token, and the friend, if its      *)
(* terms are still those, takes it as the start of a new channel.          *)
(*                                                                         *)
(* Amounts are abstracted: a request is worth one credit, and whether the  *)
(* friend's ledger refuses a batch (CreditsCalcOverflow is possible, see   *)
(* MutualCreditPair) is a choice.  A move token takes all that waits;      *)
(* max_operations_in_batch is module TokenChannel's subject.               *)
(***************************************************************************)
EXTENDS Integers, Sequences, FiniteSets

CONSTANTS
    Low, High,   \* the two friends; Low has the smaller public key
    Own,         \* Own[n]: the requests that n makes
    None,        \* Option::None
    MaxBreaks,   \* bound: broken connections and crashes
    MaxFaults,   \* bound: batches that a ledger refuses
    MaxResets    \* bound: resets that the users ask for

ASSUME NodesAssumption == Low # High
ASSUME OwnAssumption == Own[Low] \cap Own[High] = {}

Node == {Low, High}
Other(n) == IF n = Low THEN High ELSE Low
Uid == Own[Low] \cup Own[High]
Author(u) == IF u \in Own[Low] THEN Low ELSE High

VARIABLES
    chan,     \* chan[n]: ChannelStatus, with the token channel or the reset terms
    requests, \* requests[n]: pending_requests and pending_user_requests
    answers,  \* answers[n]: pending_backwards_ops
    fate,     \* fate[u]: what u's author knows: "New", "Open", "Collected" or "Canceled"
    online,   \* online[n]: n's funder believes its friend is online
    up,       \* a connection exists
    net,      \* net[n]: messages on their way to n
    issued,   \* the tokens made so far (the source of random ones)
    bounds    \* breaks, faults and resets so far

vars == <<chan, requests, answers, fate, online, up, net, issued, bounds>>
-------------------------------------------------------------------------------
(* MutualCredit, as far as resets are concerned: each request freezes one   *)
(* credit.                                                                  *)
LedgerOf(balance, local, remote) == [balance |-> balance, local |-> local, remote |-> remote]
NewLedger(balance) == LedgerOf(balance, {}, {})

Ids(ops, types) == {op.id : op \in {op \in ops : op.type \in types}}
Answer == {"Collect", "Cancel"}

(* The ledger of the side that sends, and that receives, the operations. *)
Queued(l, ops) ==
    LedgerOf(l.balance + Cardinality(Ids(ops, {"Collect"})),
             l.local \cup Ids(ops, {"Request"}), l.remote \ Ids(ops, Answer))
Processed(l, ops) ==
    LedgerOf(l.balance - Cardinality(Ids(ops, {"Collect"})),
             l.local \ Ids(ops, Answer), l.remote \cup Ids(ops, {"Request"}))

(* TokenInfo, from the point of view of the sender: BalanceInfo and         *)
(* CountersInfo.                                                            *)
InfoOf(l, inc, count) ==
    [balance |-> l.balance, local_debt |-> Cardinality(l.local),
     remote_debt |-> Cardinality(l.remote), inc |-> inc, count |-> count]
Flip(info) ==
    [info EXCEPT !.balance = -@, !.local_debt = info.remote_debt, !.remote_debt = info.local_debt]

MoveTokenOf(old, new, ops, relays, info) ==
    [old |-> old, new |-> new, ops |-> ops, relays |-> relays, info |-> info]

(* ChannelStatus *)
ConsistentOf(dir, mt, ledger) ==
    [status |-> "Consistent", dir |-> dir, mt |-> mt, ledger |-> ledger]
InconsistentOf(local, remote) ==
    [status |-> "Inconsistent", local |-> local, remote |-> remote]

IsConsistent(c) == c.status = "Consistent"
Holds(c) == IsConsistent(c) /\ c.dir = "In"
Waits(c) == IsConsistent(c) /\ c.dir = "Out"

(* FriendMessage *)
MoveTokenRequest(mt, token_wanted) == [type |-> "MoveToken", mt |-> mt, token_wanted |-> token_wanted]
InconsistencyError(terms) == [type |-> "InconsistencyError", terms |-> terms]

InitialMoveToken == MoveTokenOf(-1, 0, {}, FALSE, InfoOf(NewLedger(0), 0, 0))

(* FriendState::new and TokenChannel::new *)
Init ==
    /\ chan = [n \in Node |-> ConsistentOf(IF n = Low THEN "Out" ELSE "In", InitialMoveToken, NewLedger(0))]
    /\ requests = [n \in Node |-> {}]
    /\ answers = [n \in Node |-> {}]
    /\ fate = [u \in Uid |-> "New"]
    /\ online = [n \in Node |-> FALSE]
    /\ up = FALSE
    /\ net = [n \in Node |-> <<>>]
    /\ issued = 0
    /\ bounds = [breaks |-> 0, faults |-> 0, resets |-> 0]

Spend(bound, max) ==
    /\ bounds[bound] < max
    /\ bounds' = [bounds EXCEPT ![bound] = @ + 1]
-------------------------------------------------------------------------------
(* What a handler leaves to create_friend_messages, and how it is sent.     *)

(* What a queue becomes when a message is sent: the channeler's overwrite   *)
(* channel replaces a message that it could not pass on yet.                *)
Posted(queue, msg) ==
    {Append(queue, msg)} \cup (IF queue = <<>> THEN {} ELSE {Append(SubSeq(queue, 1, Len(queue) - 1), msg)})

Post(n, msg, from) ==
    IF up THEN \E queue \in Posted(from[Other(n)], msg) : net' = [from EXCEPT ![Other(n)] = queue]
          ELSE net' = from

(* send_move_token: the operations ops, on top of the channel c. *)
SendMoveToken(n, c, ops, relays, from, used) ==
    LET ledger == Queued(c.ledger, ops)
        mt == MoveTokenOf(c.mt.new, used + 1, ops, relays,
                          InfoOf(ledger, c.mt.info.inc, c.mt.info.count + 1))
    IN /\ chan' = [chan EXCEPT ![n] = ConsistentOf("Out", mt, ledger)]
       /\ requests' = [requests EXCEPT ![n] = {}]
       /\ answers' = [answers EXCEPT ![n] = {}]
       /\ issued' = used + 1
       /\ Post(n, MoveTokenRequest(mt, relays), from)

(* send_friend_iter1, when the channel of n is c, the requests req and the  *)
(* answers ans wait, and the handler asked for cmds: "try" (try_send),      *)
(* "resend" (resend_outgoing), "wanted" (remote_wants_token) or "relays"    *)
(* (resend_relays).  `used` counts the tokens made so far, `from` is the    *)
(* network after the handler took its message.                              *)
Send(n, is_online, c, req, ans, cmds, from, used) ==
    LET ops == ans \cup {[type |-> "Request", id |-> u] : u \in req}
        keep == /\ chan' = [chan EXCEPT ![n] = c]
                /\ requests' = [requests EXCEPT ![n] = req]
                /\ answers' = [answers EXCEPT ![n] = ans]
                /\ issued' = used
    IN IF is_online /\ ~IsConsistent(c) /\ cmds \cap {"try", "resend"} # {}
       THEN keep /\ Post(n, InconsistencyError(c.local), from)
       ELSE IF is_online /\ Waits(c) /\ cmds # {} /\ (ops # {} \/ "resend" \in cmds)
       THEN keep /\ Post(n, MoveTokenRequest(c.mt, ops # {} \/ c.mt.relays), from)
       ELSE IF is_online /\ Holds(c) /\ cmds # {}
               /\ (ops # {} \/ cmds \cap {"resend", "wanted", "relays"} # {})
       THEN SendMoveToken(n, c, ops, "relays" \in cmds, from, used)
       ELSE keep /\ net' = from
-------------------------------------------------------------------------------
(* gen_reset_terms *)
GenResetTerms(c, used) ==
    [token |-> used + 1, inc |-> c.mt.info.inc + 1,
     balance |-> c.ledger.balance + Cardinality(c.ledger.remote)]

(* The requests `us` end at their author. *)
Cancel(us) == fate' = [u \in Uid |-> IF u \in us THEN "Canceled" ELSE fate[u]]

(* handle_move_token_error: what was sent and what waits is canceled. *)
HandleMoveTokenError(n, from) ==
    LET c == chan[n] IN
    /\ Cancel(c.ledger.local \cup requests[n])
    /\ Send(n, TRUE, InconsistentOf(GenResetTerms(c, issued), None), {}, {}, {"try"}, from, issued + 1)

(* simulate_receive_move_token, apart from the operations: *)
Classify(c, mt) ==
    IF c.dir = "In" THEN (IF mt = c.mt THEN "Duplicate" ELSE "Error")
    ELSE IF mt.old = c.mt.new
         THEN IF mt.info = Flip(InfoOf(Processed(c.ledger, mt.ops), c.mt.info.inc, c.mt.info.count + 1))
              THEN "Received" ELSE "Error"
    ELSE IF c.mt.old = mt.new THEN "RetransmitOutgoing" ELSE "Error"

Wanted(msg) == IF msg.token_wanted THEN {"wanted"} ELSE {}

(* handle_move_token_success *)
HandleMoveTokenSuccess(n, msg, class, from) ==
    LET c == chan[n]
        mt == msg.mt
    IN CASE class = "Duplicate" ->
              /\ Send(n, TRUE, c, requests[n], answers[n], Wanted(msg), from, issued)
              /\ UNCHANGED fate
         [] class = "RetransmitOutgoing" ->
              /\ Send(n, TRUE, c, requests[n], answers[n], {"resend"}, from, issued)
              /\ UNCHANGED fate
         [] class = "Received" ->
              /\ fate' = [u \in Uid |-> IF u \in Ids(mt.ops, {"Collect"}) THEN "Collected"
                                        ELSE IF u \in Ids(mt.ops, {"Cancel"}) THEN "Canceled" ELSE fate[u]]
              /\ Send(n, TRUE, ConsistentOf("In", mt, Processed(c.ledger, mt.ops)),
                      requests[n], answers[n], {"try"} \cup Wanted(msg), from, issued)

(* The conditions of try_reset_channel. *)
IsResetMoveToken(terms, mt) ==
    /\ mt.old = terms.token /\ mt.ops = {}
    /\ mt.info = InfoOf(NewLedger(-terms.balance), terms.inc, 0)

(* Mutant: the balance is taken from the sender's point of view. *)
TryResetChannelNotNegated(n, msg, from) ==
    LET c == chan[n] IN
    /\ IF IsResetMoveToken(c.local, msg.mt)
       THEN Send(n, TRUE, ConsistentOf("In", msg.mt, NewLedger(msg.mt.info.balance)), {}, {},
                 {"try", "relays"} \cup Wanted(msg), from, issued)
       ELSE Send(n, TRUE, c, {}, {}, {"resend"}, from, issued)
    /\ UNCHANGED fate

(* try_reset_channel *)
TryResetChannel(n, msg, from) ==
    LET c == chan[n] IN
    /\ IF IsResetMoveToken(c.local, msg.mt)
       THEN Send(n, TRUE, ConsistentOf("In", msg.mt, NewLedger(-msg.mt.info.balance)), {}, {},
                 {"try", "relays"} \cup Wanted(msg), from, issued)
       ELSE Send(n, TRUE, c, {}, {}, {"resend"}, from, issued)
    /\ UNCHANGED fate

(* handle_move_token_request.  A ledger may refuse a batch of operations. *)
HandleMoveTokenRequest(n, msg, from) ==
    IF ~IsConsistent(chan[n]) THEN TryResetChannel(n, msg, from) /\ UNCHANGED bounds
    ELSE LET class == Classify(chan[n], msg.mt) IN
         \/ class = "Error" /\ HandleMoveTokenError(n, from) /\ UNCHANGED bounds
         \/ /\ class = "Received" /\ msg.mt.ops # {}
            /\ Spend("faults", MaxFaults)
            /\ HandleMoveTokenError(n, from)
         \/ class # "Error" /\ HandleMoveTokenSuccess(n, msg, class, from) /\ UNCHANGED bounds

(* handle_inconsistency_error: only what waits is canceled.  A side that    *)
(* holds the token ignores the message (InconsistencyWhenTokenOwned).       *)
HandleInconsistencyError(n, terms, from) ==
    LET c == chan[n] IN
    IF Holds(c) THEN net' = from /\ UNCHANGED <<chan, requests, answers, fate, issued>>
    ELSE IF Waits(c)
    THEN /\ Cancel(requests[n])
         /\ Send(n, TRUE, InconsistentOf(GenResetTerms(c, issued), terms), {}, {}, {"try"}, from, issued + 1)
    ELSE /\ Send(n, TRUE, InconsistentOf(c.local, terms), {}, {}, {}, from, issued)
         /\ UNCHANGED fate

(* handle_friend_message *)
Receive(n) ==
    /\ online[n] /\ net[n] # <<>>
    /\ LET msg == Head(net[n])
           from == [net EXCEPT ![n] = Tail(@)]
       IN \/ /\ msg.type = "MoveToken"
             /\ HandleMoveTokenRequest(n, msg, from)
          \/ /\ msg.type = "InconsistencyError"
             /\ HandleInconsistencyError(n, msg.terms, from)
             /\ UNCHANGED bounds
    /\ UNCHANGED <<online, up>>

(* control_reset_friend_channel and apply_local_reset: the friend's terms   *)
(* are accepted.  While the friend is offline the command has no effect.    *)
UserResetsChannel(n) ==
    /\ ~IsConsistent(chan[n]) /\ chan[n].remote # None /\ online[n]
    /\ Spend("resets", MaxResets)
    /\ LET terms == chan[n].remote
           ledger == NewLedger(-terms.balance)
           mt == MoveTokenOf(terms.token, issued + 1, {}, TRUE, InfoOf(ledger, terms.inc, 0))
       IN /\ chan' = [chan EXCEPT ![n] = ConsistentOf("Out", mt, ledger)]
          /\ issued' = issued + 1
          /\ Post(n, MoveTokenRequest(mt, TRUE), net)
    /\ UNCHANGED <<requests, answers, fate, online, up>>
-------------------------------------------------------------------------------
(* The funder makes a request (is_friend_ready), or answers one. *)
MakeRequest(n, u) ==
    /\ u \in Own[n] /\ fate[u] = "New"
    /\ online[n] /\ IsConsistent(chan[n])
    /\ fate' = [fate EXCEPT ![u] = "Open"]
    /\ Send(n, TRUE, chan[n], requests[n] \cup {u}, answers[n], {"try"}, net, issued)
    /\ UNCHANGED <<online, up, bounds>>

AnswerRequest(n, u, type) ==
    /\ IsConsistent(chan[n])
    /\ u \in chan[n].ledger.remote \ Ids(answers[n], Answer)
    /\ Send(n, online[n], chan[n], requests[n], answers[n] \cup {[type |-> type, id |-> u]},
            {"try"}, net, issued)
    /\ UNCHANGED <<fate, online, up, bounds>>

(* A connection is established; what was sent on an earlier one is gone. *)
LinkUp ==
    /\ ~up /\ \A n \in Node : ~online[n]
    /\ up' = TRUE
    /\ net' = [n \in Node |-> <<>>]
    /\ UNCHANGED <<chan, requests, answers, fate, online, issued, bounds>>

(* The connection breaks: each direction loses what was not received yet    *)
(* from some message on.                                                    *)
Break ==
    /\ up /\ Spend("breaks", MaxBreaks)
    /\ up' = FALSE
    /\ \E i \in 0 .. Len(net[Low]), j \in 0 .. Len(net[High]) :
           net' = [n \in Node |-> SubSeq(net[n], 1, IF n = Low THEN i ELSE j)]
    /\ UNCHANGED <<chan, requests, answers, fate, online, issued>>

(* Mutant: nothing is resent on a new connection. *)
GoOnlineSilent(n) ==
    /\ up /\ ~online[n]
    /\ online' = [online EXCEPT ![n] = TRUE]
    /\ Send(n, TRUE, chan[n], requests[n], answers[n], {}, net, issued)
    /\ UNCHANGED <<fate, up, bounds>>

(* handle_liveness_message: Online resends, Offline cancels what waits. *)
GoOnline(n) ==
    /\ up /\ ~online[n]
    /\ online' = [online EXCEPT ![n] = TRUE]
    /\ Send(n, TRUE, chan[n], requests[n], answers[n], {"resend"}, net, issued)
    /\ UNCHANGED <<fate, up, bounds>>

(* Mutant: requests that were sent are canceled too. *)
GoOfflineCancelsSent(n) ==
    /\ ~up /\ online[n] /\ net[n] = <<>>
    /\ online' = [online EXCEPT ![n] = FALSE]
    /\ Cancel(requests[n] \cup (IF IsConsistent(chan[n]) THEN chan[n].ledger.local ELSE {}))
    /\ requests' = [requests EXCEPT ![n] = {}]
    /\ UNCHANGED <<chan, answers, up, net, issued, bounds>>

GoOffline(n) ==
    /\ ~up /\ online[n] /\ net[n] = <<>>
    /\ online' = [online EXCEPT ![n] = FALSE]
    /\ Cancel(requests[n])
    /\ requests' = [requests EXCEPT ![n] = {}]
    /\ UNCHANGED <<chan, answers, up, net, issued, bounds>>

(* The node stops and restarts from its database; liveness is ephemeral. *)
Crash(n) ==
    /\ online[n] /\ Spend("breaks", MaxBreaks)
    /\ up' = FALSE
    /\ online' = [online EXCEPT ![n] = FALSE]
    /\ \E i \in 0 .. Len(net[Other(n)]) :
           net' = [m \in Node |-> IF m = n THEN <<>> ELSE SubSeq(net[m], 1, i)]
    /\ UNCHANGED <<chan, requests, answers, fate, issued>>

Next ==
    \/ LinkUp
    \/ Break
    \/ \E n \in Node :
          \/ Receive(n)
          \/ UserResetsChannel(n)
          \/ \E u \in Uid : \/ MakeRequest(n, u)
                            \/ \E type \in Answer : AnswerRequest(n, u, type)
          \/ GoOnline(n)
          \/ GoOffline(n)
          \/ Crash(n)

Spec == Init /\ [][Next]_vars

(* Channelers reconnect and report, and what arrives is handled; users need *)
(* not do anything.                                                         *)
Fairness ==
    /\ WF_vars(LinkUp)
    /\ \A n \in Node : WF_vars(GoOnline(n)) /\ WF_vars(GoOffline(n)) /\ WF_vars(Receive(n))

FairSpec == Spec /\ Fairness
-------------------------------------------------------------------------------
Mirror(l) == LedgerOf(-l.balance, l.remote, l.local)

(* n and its friend are on the same chain of move tokens: n's last move     *)
(* token is the friend's too, or the friend has yet to receive it.          *)
SameToken(n) == Holds(chan[Other(n)]) /\ Waits(chan[n]) /\ chan[n].mt = chan[Other(n)].mt
OneAhead(n) == Waits(chan[n]) /\ Waits(chan[Other(n)]) /\ chan[n].mt.old = chan[Other(n)].mt.new
ResetSent(n) == Waits(chan[n]) /\ ~IsConsistent(chan[Other(n)]) /\ chan[n].mt.old = chan[Other(n)].local.token

(* Through every order of failures, crossing resets and reconnections, two  *)
(* sides whose chains of tokens meet keep ledgers that mirror one another,  *)
(* and a reset that will be accepted opens the balance its receiver asked   *)
(* for: a reset move token is never taken for a reset to other terms.  They *)
(* never hold the token both, not even after resets that both users asked   *)
(* for.                                                                     *)
ChainsAgree ==
    /\ ~(Holds(chan[Low]) /\ Holds(chan[High]))
    /\ \A n \in Node :
        /\ SameToken(n) => chan[n].ledger = Mirror(chan[Other(n)].ledger)
        /\ OneAhead(n) => chan[n].ledger = Mirror(Processed(chan[Other(n)].ledger, chan[n].mt.ops))
        /\ ResetSent(n) => chan[n].ledger = NewLedger(-chan[Other(n)].local.balance)

(* A request that its author reported canceled, when the channel broke or   *)
(* the friend left, is not collected afterwards through the channel that    *)
(* follows, nor is a collected one canceled.                                *)
FateIsFinal ==
    [][\A u \in Uid : fate[u] \in {"Collected", "Canceled"} => fate'[u] = fate[u]]_vars

(* A side that broke the channel gets the friend's reset terms, so that its *)
(* user can reset, or the friend resets first; and a reset that was sent is *)
(* received, or one of the sides goes on.                                   *)
ResetArrives ==
    \A n \in Node :
        /\ (~IsConsistent(chan[n]) /\ chan[n].remote = None)
                ~> (IsConsistent(chan[n]) \/ chan[n].remote # None)
        /\ ResetSent(n) ~> ~ResetSent(n)
===============================================================================
