--------------------------- MODULE MutualCreditPair ---------------------------
(***************************************************************************)
(* The two mutual credits of one currency of a token channel, one on each  *)
(* side, and the operations that travel between them.  The side that holds *)
(* the token queues operations (simulate_send_move_token), moves the token *)
(* and the other side processes them in order (process_operations_list)    *)
(* on a clone of its ledger, which replaces the ledger when all succeed.   *)
(* An operation that fails makes the channel inconsistent; a reset starts  *)
(* both ledgers anew.                                                      *)
(* That a batch arrives exactly once and in order is module TokenChannel's *)
(* subject.                                                                *)
(***************************************************************************)
EXTENDS MutualCredit, Sequences

CONSTANTS
    Alice, Bob,   \* the two friends
    Amount, Fee,  \* credits that requests ask for, and the fees they leave
    Limit,        \* the values users give to remote_max_debt
    MaxOperations \* max_operations_in_batch

ASSUME SidesAssumption == Alice # Bob
ASSUME AmountAssumption == 
    Amount \subseteq U128 /\ Fee \subseteq U128 /\ Limit \subseteq U128
ASSUME BatchAssumption == MaxOperations \in Nat \ {0}

Side == {Alice, Bob}
Other(s) == IF s = Alice THEN Bob ELSE Alice

VARIABLES
    mc,       \* mc[s]: the mutual credit kept by s
    clone,    \* the ledger on which the holder processes a received batch
    holder,   \* the side that holds the token, or that it is on its way to
    phase,    \* "queue": the holder batches operations; "flight": a move token
              \* is on its way to it; "process": it processes the batch;
              \* "inconsistent": it met an error
    wire,     \* operations queued and not yet processed by the other side
    max_debt, \* max_debt[s]: remote_max_debt, the limit s sets for its friend
    refused,  \* refused[s]: remote requests that s received as RequestCancel
    error     \* the error that made the channel inconsistent, or "Ok"

vars == <<mc, clone, holder, phase, wire, max_debt, refused, error>>

(* The value of `clone` while there is none. *)
NoClone == NewMutualCredit(0)

Init ==
    /\ mc = [s \in Side |-> NewMutualCredit(0)]
    /\ clone = NoClone
    /\ holder \in Side
    /\ phase = "queue"
    /\ wire = <<>>
    /\ max_debt = [s \in Side |-> 0]
    /\ refused = [s \in Side |-> {}]
    /\ error = "Ok"

(* The operations a funder may want to queue. *)
QueueInputs ==
    [type : {"Request"}, id : Uid, dest_payment : Amount, left_fees : Fee,
     src_hashed_lock : HashedLock, well_formed : BOOLEAN]
    \cup ResponseOp \cup CancelOp \cup CollectOp

(* A request that came as RequestCancel is only ever answered with a cancel *)
(* (handle_request_send_funds_cancel).                                      *)
FunderMayQueue(s, op) == op.type \in {"Response", "Collect"} => op.id \notin refused[s]

(* The holder adds an operation to its batch, if the ledger accepts it. *)
Queue(s, op) ==
    /\ phase = "queue" /\ holder = s
    /\ Len(wire) < MaxOperations
    /\ FunderMayQueue(s, op)
    /\ QueueCheck(mc[s], op) = "Ok"
    /\ mc' = [mc EXCEPT ![s] = QueueOperation(@, op)]
    /\ wire' = Append(wire, op)
    /\ refused' = [refused EXCEPT ![s] = IF op.type = "Cancel" THEN @ \ {op.id} ELSE @]
    /\ UNCHANGED <<clone, holder, phase, max_debt, error>>

(* The batch is signed and sent; the token is on its way to the other side. *)
MoveToken(s) ==
    /\ phase = "queue" /\ holder = s
    /\ holder' = Other(s)
    /\ phase' = "flight"
    /\ UNCHANGED <<mc, clone, wire, max_debt, refused, error>>

(* The move token arrives: its operations are tried on a clone. *)
Receive(s) ==
    /\ phase = "flight" /\ holder = s
    /\ phase' = "process"
    /\ clone' = mc[s]
    /\ UNCHANGED <<mc, holder, wire, max_debt, refused, error>>

(* One operation of the received batch.  An error discards the clone. *)
Process(s) ==
    /\ phase = "process" /\ holder = s /\ wire # <<>>
    /\ LET op == Head(wire)
           check == ProcessCheck(clone, op, max_debt[s])
       IN IF check = "Ok"
          THEN /\ clone' = ProcessOperation(clone, op)
               /\ refused' = [refused EXCEPT ![s] =
                      IF op.type = "Request" /\ IsRequestCancel(clone, op, max_debt[s])
                      THEN @ \cup {op.id} ELSE @]
               /\ wire' = Tail(wire)
               /\ UNCHANGED <<phase, error>>
          ELSE /\ phase' = "inconsistent"
               /\ error' = check
               /\ clone' = NoClone
               /\ UNCHANGED <<refused, wire>>
    /\ UNCHANGED <<mc, holder, max_debt>>

(* The whole batch is processed and its mutations are applied: the holder   *)
(* may start a batch of its own.                                            *)
Received(s) ==
    /\ phase = "process" /\ holder = s /\ wire = <<>>
    /\ phase' = "queue"
    /\ mc' = [mc EXCEPT ![s] = clone]
    /\ clone' = NoClone
    /\ UNCHANGED <<holder, wire, max_debt, refused, error>>

(* set_friend_currency_max_debt; a batch is processed with one limit. *)
SetMaxDebt(s, limit) ==
    /\ phase # "process"
    /\ max_debt' = [max_debt EXCEPT ![s] = limit]
    /\ UNCHANGED <<mc, clone, holder, phase, wire, refused, error>>

(* Side s accepts the reset terms of its friend and sends the reset move   *)
(* token; the friend opens its ledger with the balance it asked for.       *)
Reset(s) ==
    /\ phase = "inconsistent"
    /\ LET terms == BalanceForReset(mc[Other(s)]) IN
       mc' = [x \in Side |-> NewMutualCredit(IF x = s THEN -terms ELSE terms)]
    /\ holder' = Other(s)
    /\ phase' = "queue"
    /\ wire' = <<>>
    /\ refused' = [x \in Side |-> {}]
    /\ error' = "Ok"
    /\ UNCHANGED <<clone, max_debt>>

Next ==
    \E s \in Side :
        \/ \E op \in QueueInputs : Queue(s, op)
        \/ MoveToken(s)
        \/ Receive(s)
        \/ Process(s)
        \/ Received(s)
        \/ \E limit \in Limit : SetMaxDebt(s, limit)
        \/ Reset(s)

Spec == Init /\ [][Next]_vars
-------------------------------------------------------------------------------
TypeOK ==
    /\ mc \in [Side -> MutualCreditState]
    /\ clone \in MutualCreditState
    /\ holder \in Side
    /\ phase \in {"queue", "flight", "process", "inconsistent"}
    /\ wire \in Seq(FriendTcOp) /\ Len(wire) <= MaxOperations
    /\ max_debt \in [Side -> U128]
    /\ refused \in [Side -> SUBSET Uid]
    /\ error \in ProcessOutcome

(* The side that has to catch up with the operations on the wire. *)
Behind == IF phase = "queue" THEN Other(holder) ELSE holder

(* The ledger of s with what it has processed of the batch at hand. *)
Current(s) == IF phase = "process" /\ holder = s THEN clone ELSE mc[s]

(* At rest, when every operation that was sent is processed, the two sides  *)
(* agree on the ledger: the balances are opposite and the pending           *)
(* transactions of one side are those of the other.                         *)
MirroredAtRest ==
    (phase # "inconsistent" /\ wire = <<>>) => Current(Alice) = Mirror(Current(Bob))

(* Each side's frozen credits are exactly the credits of the transactions  *)
(* it has pending: no sequence of requests, answers and resets leaks or     *)
(* loses frozen credits (the unwrap()s on checked_sub rely on it).          *)
FrozenCreditsAreAccounted ==
    \A s \in Side :
        /\ Current(s).local_pending_debt = FrozenBy(Current(s).local, Uid)
        /\ Current(s).remote_pending_debt = FrozenBy(Current(s).remote, Uid)

(* Between two correct sides only an arithmetic overflow can break the      *)
(* channel: every operation that one side managed to queue is accepted by   *)
(* the other, and no unwrap() of incoming.rs panics.                       *)
OnlyOverflowBreaksTheChannel == error \in {"Ok", "CreditsCalcOverflow"}

(* Whenever a side has to make reset terms, the sum it asks for fits an     *)
(* i128 and so does its negation, which the friend opens its ledger with:   *)
(* neither the expect() of balance_for_reset nor the checked_neg().unwrap() *)
(* of try_reset_channel and apply_local_reset panics.                      *)
ResetTermsFit == \A s \in Side : BalanceForReset(mc[s]) \in -MaxI128 .. MaxI128

(* What s stands to be owed if every request it accepted is collected.      *)
Exposure(s) ==
    Current(s).balance + FrozenBy(Current(s).remote, Uid \ refused[s])

(* The credit a side gives its friend grows only up to the limit in force   *)
(* when the request is processed; a request refused for insufficient trust  *)
(* never becomes exposure.  Lowering the limit does not call credit back.   *)
ExposureGrowsWithinLimit ==
    [][\A s \in Side :
         (phase # "inconsistent" /\ phase' # "inconsistent" /\ Exposure(s)' > Exposure(s))
             => Exposure(s)' <= max_debt[s]]_vars
===============================================================================
