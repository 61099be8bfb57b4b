----------------------------- MODULE MutualCredit -----------------------------
(***************************************************************************)
(* The ledger that one side of a token channel keeps for one currency      *)
(* (components/funder/src/mutual_credit).  A mutual credit is changed by   *)
(* queueing an outgoing operation (outgoing.rs) or by processing one that  *)
(* arrived (incoming.rs).  Each of the two is split in a check, which      *)
(* yields "Ok", the error the code returns, or "Panic" where an unwrap()   *)
(* would fail, and the ledger that results when the check says "Ok".       *)
(***************************************************************************)
EXTENDS Integers, FiniteSets, FiniteSetsExt

CONSTANTS
    Uid,        \* request identifiers
    PlainLock,  \* plain locks (preimages)
    NoPending,  \* "no pending transaction under this request id"
    NoLock,     \* the destination lock of a transaction without a response
    MaxI128     \* the largest i128

ASSUME MaxAssumption == MaxI128 \in Nat \ {0}

(* crypto::hash_lock: collision free, and different from its argument. *)
HashLock(plain) == [hashed |-> plain]
HashedLock == {HashLock(p) : p \in PlainLock}

ASSUME NoLockAssumption == NoLock \notin HashedLock

(* Machine integers.  i128::MIN has no negation, so it is a value of I128. *)
U128Max == 2 * MaxI128 + 1
U128 == 0 .. U128Max
I128 == (-MaxI128 - 1) .. MaxI128

(* What a ledger remembers of a request: the credits it freezes, its source *)
(* lock and how far it got.  Route, invoice and signature data are left out; *)
(* where the code validates them an operation carries the verdict instead.  *)
PendingTransaction ==
    [dest_payment : U128, left_fees : U128, src_hashed_lock : HashedLock,
     stage : {"Request", "Response"}, dest_hashed_lock : HashedLock \cup {NoLock}]

ASSUME NoPendingAssumption == NoPending \notin PendingTransaction

Freeze(pending) == pending.dest_payment + pending.left_fees

Pendings == [Uid -> PendingTransaction \cup {NoPending}]
NonePending == [u \in Uid |-> NoPending]

MutualCreditState ==
    [balance : I128, local_pending_debt : U128, remote_pending_debt : U128,
     local : Pendings, remote : Pendings]

MutualCreditOf(balance, local_debt, remote_debt, local, remote) ==
    [balance |-> balance, local_pending_debt |-> local_debt,
     remote_pending_debt |-> remote_debt, local |-> local, remote |-> remote]

NewMutualCredit(balance) == MutualCreditOf(balance, 0, 0, NonePending, NonePending)

(* The balance this side asks for when the channel is reset. *)
BalanceForReset(mc) == mc.balance + mc.remote_pending_debt

(* The operations of a move token.  `well_formed` stands for a valid route  *)
(* and dest_payment <= total_dest_payment, `signed` for a response signature *)
(* that verifies under the destination's key.                              *)
RequestOp ==
    [type : {"Request"}, id : Uid, dest_payment : U128, left_fees : U128,
     src_hashed_lock : HashedLock, well_formed : BOOLEAN]
ResponseOp ==
    [type : {"Response"}, id : Uid, dest_hashed_lock : HashedLock, signed : BOOLEAN]
CancelOp == [type : {"Cancel"}, id : Uid]
CollectOp ==
    [type : {"Collect"}, id : Uid, src_plain_lock : PlainLock, dest_plain_lock : PlainLock]
FriendTcOp == RequestOp \cup ResponseOp \cup CancelOp \cup CollectOp

CreatePendingTransaction(op) ==
    [dest_payment |-> op.dest_payment, left_fees |-> op.left_fees,
     src_hashed_lock |-> op.src_hashed_lock, stage |-> "Request",
     dest_hashed_lock |-> NoLock]

(* A request that got its response remembers the destination's lock. *)
Answered(pending, op) ==
    [dest_payment |-> pending.dest_payment, left_fees |-> pending.left_fees,
     src_hashed_lock |-> pending.src_hashed_lock, stage |-> "Response",
     dest_hashed_lock |-> op.dest_hashed_lock]

(* Both locks of a collect open the pending transaction it names. *)
LockError(pending, op) ==
    IF HashLock(op.src_plain_lock) # pending.src_hashed_lock THEN "InvalidSrcPlainLock"
    ELSE IF HashLock(op.dest_plain_lock) # pending.dest_hashed_lock THEN "InvalidDestPlainLock"
    ELSE "Ok"
-------------------------------------------------------------------------------
(* Outgoing operations: OutgoingMc::queue_operation. *)

QueueRequestCheck(mc, op) ==
    IF ~op.well_formed THEN "InvalidRequest"
    ELSE IF op.dest_payment + op.left_fees > U128Max THEN "CreditsCalcOverflow"
    ELSE IF mc.local_pending_debt + op.dest_payment + op.left_fees > U128Max
         THEN "CreditsCalcOverflow"
    ELSE IF mc.local[op.id] # NoPending THEN "RequestAlreadyExists"
    ELSE "Ok"

QueueRequest(mc, op) ==
    MutualCreditOf(mc.balance, mc.local_pending_debt + op.dest_payment + op.left_fees,
                   mc.remote_pending_debt,
                   [mc.local EXCEPT ![op.id] = CreatePendingTransaction(op)], mc.remote)

(* Mutant: a request may be answered twice. *)
QueueResponseCheckAnyStage(mc, op) ==
    IF mc.remote[op.id] = NoPending THEN "RequestDoesNotExist"
    ELSE IF ~op.signed THEN "InvalidResponseSignature"
    ELSE "Ok"

QueueResponseCheck(mc, op) ==
    IF mc.remote[op.id] = NoPending THEN "RequestDoesNotExist"
    ELSE IF ~op.signed THEN "InvalidResponseSignature"
    ELSE IF mc.remote[op.id].stage # "Request" THEN "NotExpectingResponse"
    ELSE "Ok"

QueueResponse(mc, op) ==
    MutualCreditOf(mc.balance, mc.local_pending_debt, mc.remote_pending_debt,
                   mc.local, [mc.remote EXCEPT ![op.id] = Answered(@, op)])

QueueCancelCheck(mc, op) ==
    IF mc.remote[op.id] = NoPending THEN "RequestDoesNotExist"
    ELSE IF mc.remote_pending_debt < Freeze(mc.remote[op.id]) THEN "Panic"
    ELSE "Ok"

QueueCancel(mc, op) ==
    MutualCreditOf(mc.balance, mc.local_pending_debt,
                   mc.remote_pending_debt - Freeze(mc.remote[op.id]),
                   mc.local, [mc.remote EXCEPT ![op.id] = NoPending])

QueueCollectCheck(mc, op) ==
    LET pending == mc.remote[op.id] IN
    IF pending = NoPending THEN "RequestDoesNotExist"
    ELSE IF pending.stage # "Response" THEN "NotExpectingCollect"
    ELSE IF LockError(pending, op) # "Ok" THEN LockError(pending, op)
    ELSE IF \/ mc.remote_pending_debt < Freeze(pending)
            \/ mc.balance + Freeze(pending) > MaxI128 THEN "Panic"
    ELSE "Ok"

QueueCollect(mc, op) ==
    MutualCreditOf(mc.balance + Freeze(mc.remote[op.id]), mc.local_pending_debt,
                   mc.remote_pending_debt - Freeze(mc.remote[op.id]),
                   mc.local, [mc.remote EXCEPT ![op.id] = NoPending])

QueueCheck(mc, op) ==
    CASE op.type = "Request"  -> QueueRequestCheck(mc, op)
      [] op.type = "Response" -> QueueResponseCheck(mc, op)
      [] op.type = "Cancel"   -> QueueCancelCheck(mc, op)
      [] op.type = "Collect"  -> QueueCollectCheck(mc, op)

QueueOperation(mc, op) ==
    CASE op.type = "Request"  -> QueueRequest(mc, op)
      [] op.type = "Response" -> QueueResponse(mc, op)
      [] op.type = "Cancel"   -> QueueCancel(mc, op)
      [] op.type = "Collect"  -> QueueCollect(mc, op)
-------------------------------------------------------------------------------
(* Incoming operations: process_operation. *)

ProcessRequestCheck(mc, op, max_debt) ==
    LET new_debt == mc.remote_pending_debt + op.dest_payment + op.left_fees IN
    IF ~op.well_formed THEN "InvalidRequest"
    ELSE IF mc.remote[op.id] # NoPending THEN "RequestAlreadyExists"
    ELSE IF \/ op.dest_payment + op.left_fees > U128Max
            \/ new_debt > U128Max
            \/ mc.balance + new_debt > MaxI128
            \/ mc.balance + new_debt - max_debt < -MaxI128 - 1 THEN "CreditsCalcOverflow"
    ELSE "Ok"

(* Mutant: the request itself is not counted. *)
IsRequestCancelTooLate(mc, op, max_debt) ==
    mc.balance + mc.remote_pending_debt - max_debt > 0

(* A request beyond the friend's credit limit is frozen like any other, and *)
(* handed to the funder as RequestCancel, to be canceled at once.           *)
IsRequestCancel(mc, op, max_debt) ==
    mc.balance + mc.remote_pending_debt + op.dest_payment + op.left_fees - max_debt > 0

ProcessRequest(mc, op) ==
    MutualCreditOf(mc.balance, mc.local_pending_debt,
                   mc.remote_pending_debt + op.dest_payment + op.left_fees,
                   mc.local, [mc.remote EXCEPT ![op.id] = CreatePendingTransaction(op)])

ProcessResponseCheck(mc, op) ==
    IF mc.local[op.id] = NoPending THEN "RequestDoesNotExist"
    ELSE IF ~op.signed THEN "InvalidResponseSignature"
    ELSE IF mc.local[op.id].stage # "Request" THEN "NotExpectingResponse"
    ELSE "Ok"

ProcessResponse(mc, op) ==
    MutualCreditOf(mc.balance, mc.local_pending_debt, mc.remote_pending_debt,
                   [mc.local EXCEPT ![op.id] = Answered(@, op)], mc.remote)

ProcessCancelCheck(mc, op) ==
    IF mc.local[op.id] = NoPending THEN "RequestDoesNotExist"
    ELSE IF mc.local_pending_debt < Freeze(mc.local[op.id]) THEN "Panic"
    ELSE "Ok"

(* Mutant: the credits of the canceled request stay frozen. *)
ProcessCancelStaysFrozen(mc, op) ==
    MutualCreditOf(mc.balance, mc.local_pending_debt, mc.remote_pending_debt,
                   [mc.local EXCEPT ![op.id] = NoPending], mc.remote)

ProcessCancel(mc, op) ==
    MutualCreditOf(mc.balance, mc.local_pending_debt - Freeze(mc.local[op.id]),
                   mc.remote_pending_debt,
                   [mc.local EXCEPT ![op.id] = NoPending], mc.remote)

ProcessCollectCheck(mc, op) ==
    LET pending == mc.local[op.id] IN
    IF pending = NoPending THEN "RequestDoesNotExist"
    ELSE IF pending.stage # "Response" THEN "NotExpectingCollect"
    ELSE IF LockError(pending, op) # "Ok" THEN LockError(pending, op)
    ELSE IF \/ mc.local_pending_debt < Freeze(pending)
            \/ mc.balance - Freeze(pending) < -MaxI128 - 1 THEN "Panic"
    ELSE "Ok"

(* Mutant: the payer's balance is not charged. *)
ProcessCollectUnpaid(mc, op) ==
    MutualCreditOf(mc.balance,
                   mc.local_pending_debt - Freeze(mc.local[op.id]), mc.remote_pending_debt,
                   [mc.local EXCEPT ![op.id] = NoPending], mc.remote)

ProcessCollect(mc, op) ==
    MutualCreditOf(mc.balance - Freeze(mc.local[op.id]),
                   mc.local_pending_debt - Freeze(mc.local[op.id]), mc.remote_pending_debt,
                   [mc.local EXCEPT ![op.id] = NoPending], mc.remote)

ProcessCheck(mc, op, max_debt) ==
    CASE op.type = "Request"  -> ProcessRequestCheck(mc, op, max_debt)
      [] op.type = "Response" -> ProcessResponseCheck(mc, op)
      [] op.type = "Cancel"   -> ProcessCancelCheck(mc, op)
      [] op.type = "Collect"  -> ProcessCollectCheck(mc, op)

(* ProcessOperationError *)
ProcessOutcome ==
    {"Ok", "InvalidRequest", "RequestAlreadyExists", "CreditsCalcOverflow",
     "RequestDoesNotExist", "InvalidResponseSignature", "NotExpectingResponse",
     "NotExpectingCollect", "InvalidSrcPlainLock", "InvalidDestPlainLock", "Panic"}

ProcessOperation(mc, op) ==
    CASE op.type = "Request"  -> ProcessRequest(mc, op)
      [] op.type = "Response" -> ProcessResponse(mc, op)
      [] op.type = "Cancel"   -> ProcessCancel(mc, op)
      [] op.type = "Collect"  -> ProcessCollect(mc, op)
-------------------------------------------------------------------------------
(* The same ledger as the other side sees it ("The other side keeps the     *)
(* negation of this value").                                                *)
Mirror(mc) ==
    MutualCreditOf(-mc.balance, mc.remote_pending_debt, mc.local_pending_debt,
                   mc.remote, mc.local)

(* The credits frozen by the transactions under the given ids. *)
FrozenBy(pendings, ids) ==
    MapThenSumSet(LAMBDA u : Freeze(pendings[u]), {u \in ids : pendings[u] # NoPending})
===============================================================================
