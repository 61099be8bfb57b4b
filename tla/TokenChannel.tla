----------------------------- MODULE TokenChannel -----------------------------
(***************************************************************************)
(* The token channel of two friends (components/funder/src/token_channel.rs*)
(* with handler/sender.rs, handle_friend.rs and handle_liveness.rs).       *)
(*                                                                         *)
(* The two sides take turns: a side that holds the token (direction        *)
(* Incoming) may send a move token with a batch of operations, after which *)
(* it is Outgoing.  Connections break, messages are lost or overtaken by   *)
(* newer ones, nodes crash and come back with their database; on every     *)
(* reconnection both sides resend.  The mutual credits are abstracted to   *)
(* the sequence of operations applied to them; what applying does is       *)
(* module MutualCredit's subject.  Breaking and resetting the channel is   *)
(* module FriendChannel's.                                                 *)
(***************************************************************************)
EXTENDS Integers, Sequences, Functions

CONSTANTS
    Low, High,   \* the two friends; Low has the smaller public key
    MaxBatch,    \* max_operations_in_batch
    MaxOps,      \* bound: MaxOps[n] operations are produced by n
    MaxBreaks    \* bound: broken connections and crashes

ASSUME NodesAssumption == Low # High
ASSUME BatchAssumption == MaxBatch \in Nat \ {0}

Node == {Low, High}
ASSUME BoundsAssumption == MaxOps \in [Node -> Nat] /\ MaxBreaks \in Nat

Other(n) == IF n = Low THEN High ELSE Low

(* An operation is known by its author and a serial number.  Backwards      *)
(* operations answer requests of the friend; requests are canceled when the *)
(* friend goes offline.                                                     *)
Kind == {"Backwards", "Request"}
Operation == [author : Node, num : Nat, kind : Kind]

(* A move token: the token it continues, its own (a signature over a random *)
(* nonce, so always new), its operations and the token info it commits to.  *)
MoveToken ==
    [old : Int, new : Nat, batch : Seq(Operation),
     info : [count : Nat, ops : Seq(Operation)]]

MoveTokenOf(old, new, batch, info) ==
    [old |-> old, new |-> new, batch |-> batch, info |-> info]
InfoOf(count, ops) == [count |-> count, ops |-> ops]
DirectionOf(dir, mt) == [dir |-> dir, mt |-> mt]

InitialMoveToken == MoveTokenOf(-1, 0, <<>>, InfoOf(0, <<>>))

(* MoveTokenRequest *)
Message == [mt : MoveToken, token_wanted : BOOLEAN]
MessageOf(mt, token_wanted) == [mt |-> mt, token_wanted |-> token_wanted]

VARIABLES
    tc,        \* tc[n]: direction of the channel at n, and its last move token
    view,      \* view[n]: the operations applied to n's mutual credits
    backwards, \* backwards[n]: pending_backwards_ops
    requests,  \* requests[n]: pending_requests and pending_user_requests
    online,    \* online[n]: n's funder believes its friend is online
    up,        \* a connection exists
    net,       \* net[n]: messages on their way to n
    outcome,   \* outcome[n]: the error n met when it received, or "Ok"
    issued,    \* the tokens issued so far (the source of fresh ones)
    produced,  \* produced[n][kind]: operations that n's funder produced
    breaks     \* connections broken so far

vars == <<tc, view, backwards, requests, online, up, net, outcome, issued, produced, breaks>>
-------------------------------------------------------------------------------
(* TokenChannel::new: both sides know the first move token; the lower key   *)
(* is taken to have sent it.                                                *)
Init ==
    /\ tc = [n \in Node |-> DirectionOf(IF n = Low THEN "Out" ELSE "In", InitialMoveToken)]
    /\ view = [n \in Node |-> <<>>]
    /\ backwards = [n \in Node |-> <<>>]
    /\ requests = [n \in Node |-> <<>>]
    /\ online = [n \in Node |-> FALSE]
    /\ up = FALSE
    /\ net = [n \in Node |-> <<>>]
    /\ outcome = [n \in Node |-> "Ok"]
    /\ issued = 0
    /\ produced = [n \in Node |-> [kind \in Kind |-> 0]]
    /\ breaks = 0

(* What a queue becomes when a message is sent.  The channeler's overwrite  *)
(* channel replaces a message that it could not pass on yet.                *)
Posted(queue, msg) ==
    {Append(queue, msg)} \cup (IF queue = <<>> THEN {} ELSE {Append(SubSeq(queue, 1, Len(queue) - 1), msg)})

(* n sends, from the messages `from`; without a connection it is lost. *)
Post(n, msg, from) ==
    IF up THEN \E queue \in Posted(from[Other(n)], msg) :
                   net' = [from EXCEPT ![Other(n)] = queue]
          ELSE net' = from

(* estimate_should_send *)
IsPending(b, r) == b # <<>> \/ r # <<>>

TransmitNotWanted(n, b, r, from) == Post(n, MessageOf(tc[n].mt, FALSE), from)

(* transmit_outgoing: n repeats its last move token. *)
Transmit(n, b, r, from) == Post(n, MessageOf(tc[n].mt, IsPending(b, r)), from)

(* PendingMoveToken::queue_operation stops at max_operations_in_batch. *)
BatchSize(pending) == IF pending < MaxBatch THEN pending ELSE MaxBatch

(* PopFrontPending...: the queue without the operations that were batched. *)
LeftBehind(queue, taken) == SubSeq(queue, taken + 1, Len(queue))

(* SetDirection::Outgoing *)
Outgoing(mt) == DirectionOf("Out", mt)

(* collect_outgoing_move_token and send_move_token, for a side that holds   *)
(* the token mt, has applied v and queued b and r: as many operations as    *)
(* fit, answers first; what is left makes the token wanted.                 *)
SendMoveToken(n, mt, v, b, r, from) ==
    LET size == BatchSize(Len(b) + Len(r))
        batch == SubSeq(b \o r, 1, size)
        ops == v \o batch
        left_b == LeftBehind(b, size)
        left_r == LeftBehind(r, IF size < Len(b) THEN 0 ELSE size - Len(b))
        new == MoveTokenOf(mt.new, issued + 1, batch, InfoOf(mt.info.count + 1, ops))
    IN /\ tc' = [tc EXCEPT ![n] = Outgoing(new)]
       /\ view' = [view EXCEPT ![n] = ops]
       /\ backwards' = [backwards EXCEPT ![n] = left_b]
       /\ requests' = [requests EXCEPT ![n] = left_r]
       /\ issued' = issued + 1
       /\ Post(n, MessageOf(new, IsPending(left_b, left_r)), from)
-------------------------------------------------------------------------------
(* A connection is established; neither channeler has another one, and what *)
(* was sent on an earlier one is gone.                                      *)
LinkUp ==
    /\ ~up /\ \A n \in Node : ~online[n]
    /\ up' = TRUE
    /\ net' = [n \in Node |-> <<>>]
    /\ UNCHANGED <<tc, view, backwards, requests, online, outcome, issued, produced, breaks>>

(* The connection breaks: each direction loses what was not received yet    *)
(* from some message on.                                                    *)
Break ==
    /\ up /\ breaks < MaxBreaks
    /\ up' = FALSE
    /\ breaks' = breaks + 1
    /\ \E i \in 0 .. Len(net[Low]), j \in 0 .. Len(net[High]) :
           net' = [n \in Node |-> SubSeq(net[n], 1, IF n = Low THEN i ELSE j)]
    /\ UNCHANGED <<tc, view, backwards, requests, online, outcome, issued, produced>>

(* Online: the funder resends.  A side that holds the token sends it, even  *)
(* with nothing to say.                                                     *)
GoOnline(n) ==
    /\ up /\ ~online[n]
    /\ online' = [online EXCEPT ![n] = TRUE]
    /\ \/ /\ tc[n].dir = "Out"
          /\ Transmit(n, backwards[n], requests[n], net)
          /\ UNCHANGED <<tc, view, backwards, requests, issued>>
       \/ /\ tc[n].dir = "In"
          /\ SendMoveToken(n, tc[n].mt, view[n], backwards[n], requests[n], net)
    /\ UNCHANGED <<up, outcome, produced, breaks>>

(* Offline: comes after the last message; cancel_pending_requests. *)
GoOffline(n) ==
    /\ ~up /\ online[n] /\ net[n] = <<>>
    /\ online' = [online EXCEPT ![n] = FALSE]
    /\ requests' = [requests EXCEPT ![n] = <<>>]
    /\ UNCHANGED <<tc, view, backwards, up, net, outcome, issued, produced, breaks>>

(* The node stops and restarts from its database; liveness is ephemeral. *)
Crash(n) ==
    /\ breaks < MaxBreaks /\ online[n]
    /\ breaks' = breaks + 1
    /\ up' = FALSE
    /\ online' = [online EXCEPT ![n] = FALSE]
    /\ \E i \in 0 .. Len(net[Other(n)]) :
           net' = [m \in Node |-> IF m = n THEN <<>> ELSE SubSeq(net[m], 1, i)]
    /\ UNCHANGED <<tc, view, backwards, requests, outcome, issued, produced>>

(* The funder queues an operation for the friend and tries to send.  A side *)
(* without the token asks for it by repeating its move token.  Requests are *)
(* only accepted while the friend is online (is_friend_ready).              *)
Produce(n, kind) ==
    /\ produced[n]["Backwards"] + produced[n]["Request"] < MaxOps[n]
    /\ outcome[n] = "Ok"
    /\ kind = "Request" => online[n]
    /\ produced' = [produced EXCEPT ![n][kind] = @ + 1]
    /\ LET op == [author |-> n, num |-> produced[n][kind] + 1, kind |-> kind]
           b == IF kind = "Backwards" THEN Append(backwards[n], op) ELSE backwards[n]
           r == IF kind = "Request" THEN Append(requests[n], op) ELSE requests[n]
       IN \/ /\ online[n] /\ tc[n].dir = "In"
             /\ SendMoveToken(n, tc[n].mt, view[n], b, r, net)
          \/ /\ ~(online[n] /\ tc[n].dir = "In")
             /\ backwards' = [backwards EXCEPT ![n] = b]
             /\ requests' = [requests EXCEPT ![n] = r]
             /\ IF online[n] THEN Transmit(n, b, r, net) ELSE net' = net
             /\ UNCHANGED <<tc, view, issued>>
    /\ UNCHANGED <<online, up, outcome, breaks>>

(* One side takes the predecessor of its own move token for a new one. *)
ClassifyOldAccepted(d, v, mt) ==
    CASE d.dir = "In" -> IF mt = d.mt THEN "Duplicate" ELSE "ChainInconsistency"
      [] d.dir = "Out" -> "Received"
(* An outgoing side does not recognise the predecessor of its move token. *)
ClassifyNoRetransmit(d, v, mt) ==
    CASE d.dir = "In" -> IF mt = d.mt THEN "Duplicate" ELSE "ChainInconsistency"
      [] d.dir = "Out" -> IF mt.old = d.mt.new THEN "Received" ELSE "ChainInconsistency"

(* simulate_receive_move_token.  An incoming side only accepts the move     *)
(* token it already has; an outgoing one accepts the continuation of its    *)
(* own, if the token info is the one it computes, or answers an old one by  *)
(* repeating its own.                                                       *)
Classify(d, v, mt) ==
    CASE d.dir = "In" -> IF mt = d.mt THEN "Duplicate" ELSE "ChainInconsistency"
      [] d.dir = "Out" /\ mt.old = d.mt.new ->
             IF mt.info = InfoOf(d.mt.info.count + 1, v \o mt.batch)
             THEN "Received" ELSE "InvalidTokenInfo"
      [] d.dir = "Out" /\ mt.old # d.mt.new ->
             IF d.mt.old = mt.new THEN "RetransmitOutgoing" ELSE "ChainInconsistency"

(* The token is here: it is sent on if there is something to send or the    *)
(* friend wants it back.                                                    *)
HandleReceived(n, msg, from) ==
    LET v == view[n] \o msg.mt.batch IN
    IF IsPending(backwards[n], requests[n]) \/ msg.token_wanted
    THEN SendMoveToken(n, msg.mt, v, backwards[n], requests[n], from)
    ELSE /\ tc' = [tc EXCEPT ![n] = DirectionOf("In", msg.mt)]
         /\ view' = [view EXCEPT ![n] = v]
         /\ net' = from
         /\ UNCHANGED <<backwards, requests, issued>>

(* A duplicate is answered with the token if the friend wants it. *)
HandleDuplicate(n, msg, from) ==
    IF msg.token_wanted
    THEN SendMoveToken(n, tc[n].mt, view[n], backwards[n], requests[n], from)
    ELSE /\ net' = from
         /\ UNCHANGED <<tc, view, backwards, requests, issued>>

HandleRetransmit(n, from) ==
    /\ Transmit(n, backwards[n], requests[n], from)
    /\ UNCHANGED <<tc, view, backwards, requests, issued>>

HandleError(n, class, from) ==
    /\ outcome' = [outcome EXCEPT ![n] = class]
    /\ net' = from
    /\ UNCHANGED <<tc, view, backwards, requests, issued>>

(* handle_move_token_request *)
Receive(n) ==
    /\ online[n] /\ net[n] # <<>> /\ outcome[n] = "Ok"
    /\ LET msg == Head(net[n])
           from == [net EXCEPT ![n] = Tail(@)]
           class == Classify(tc[n], view[n], msg.mt)
       IN \/ class = "Received" /\ HandleReceived(n, msg, from) /\ UNCHANGED outcome
          \/ class = "Duplicate" /\ HandleDuplicate(n, msg, from) /\ UNCHANGED outcome
          \/ class = "RetransmitOutgoing" /\ HandleRetransmit(n, from) /\ UNCHANGED outcome
          \/ class \in {"ChainInconsistency", "InvalidTokenInfo"} /\ HandleError(n, class, from)
    /\ UNCHANGED <<online, up, produced, breaks>>

Next ==
    \/ LinkUp
    \/ Break
    \/ \E n \in Node :
          \/ GoOnline(n)
          \/ GoOffline(n)
          \/ Crash(n)
          \/ Receive(n)
          \/ \E kind \in Kind : Produce(n, kind)

Spec == Init /\ [][Next]_vars

(* The channelers keep connecting, report what they see, and hand over what *)
(* arrives: the tasks of a running node are scheduled.                      *)
Fairness ==
    /\ WF_vars(LinkUp)
    /\ \A n \in Node : WF_vars(GoOnline(n)) /\ WF_vars(GoOffline(n)) /\ WF_vars(Receive(n))

FairSpec == Spec /\ Fairness
-------------------------------------------------------------------------------
TypeOK ==
    /\ tc \in [Node -> [dir : {"In", "Out"}, mt : MoveToken]]
    /\ view \in [Node -> Seq(Operation)]
    /\ backwards \in [Node -> Seq(Operation)]
    /\ requests \in [Node -> Seq(Operation)]
    /\ online \in [Node -> BOOLEAN]
    /\ up \in BOOLEAN
    /\ net \in [Node -> Seq(Message)]
    /\ outcome \in [Node -> {"Ok", "ChainInconsistency", "InvalidTokenInfo"}]
    /\ issued \in Nat /\ breaks \in Nat
    /\ produced \in [Node -> [Kind -> Nat]]
    /\ \A n \in Node : Len(tc[n].mt.batch) <= MaxBatch

(* Lost, repeated and overtaken messages, broken connections and crashes    *)
(* never make two correct friends disagree: simulate_receive_move_token     *)
(* never returns ChainInconsistency or InvalidTokenInfo.                    *)
StaysConsistent == \A n \in Node : outcome[n] = "Ok"

(* The token is never held by both sides, and a side that holds it has seen *)
(* everything: both ledgers are equal then, so it may build on its own.     *)
HolderIsUpToDate ==
    /\ \E n \in Node : tc[n].dir = "Out"
    /\ (\E n \in Node : tc[n].dir = "In") => view[Low] = view[High]

(* Once connections stop breaking, every answer reaches the friend.         *)
(* (Breaks are bounded, so this is about the time after the last one.)      *)
AnswersArrive ==
    \A n \in Node : \A k \in 1 .. MaxOps[n] :
        produced[n]["Backwards"] >= k ~>
            [author |-> n, num |-> k, kind |-> "Backwards"] \in Range(view[Other(n)])
-------------------------------------------------------------------------------
(* The side that extends the shared log next: the holder of the token, or   *)
(* the one to which the newest move token is on its way.                    *)
Turn ==
    IF tc[Low].dir = "In" THEN Low
    ELSE IF tc[High].dir = "In" THEN High
    ELSE IF tc[Low].mt.info.count < tc[High].mt.info.count THEN Low
    ELSE High

Log == INSTANCE TokenLog
           WITH Entry <- Operation,
                log <- view[Other(Turn)],
                seen <- [n \in Node |-> Len(view[n])],
                turn <- Turn

(* The protocol implements the shared log of TokenLog: whatever is lost or  *)
(* repeated, both sides apply the same operations in the same order, in     *)
(* turns.                                                                   *)
ImplementsTokenLog == Log!Spec
===============================================================================
