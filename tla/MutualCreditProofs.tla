-------------------------- MODULE MutualCreditProofs --------------------------
(***************************************************************************)
(* Proofs about MutualCreditPair, for every set of request ids, locks,     *)
(* amounts, every batch size and every integer width.                      *)
(*                                                                         *)
(* The argument: a ledger to which an operation can be queued, and the     *)
(* mirror image of that ledger, stay mirror images when the first queues   *)
(* and the second processes the operation (lemma QueueThenProcess).  While *)
(* operations are on the wire the two ledgers are not mirror images; the   *)
(* inductive invariant therefore speaks of the ledgers the sender went     *)
(* through while it queued them (Trail).                                   *)
(***************************************************************************)
EXTENDS MutualCreditPair, TLAPS

(* A ledger whose balance can be negated, with the bound that               *)
(* process_request_send_funds keeps: collecting everything fits an i128.    *)
Ledger ==
    {m \in [balance : (-MaxI128) .. MaxI128,
            local_pending_debt : U128, remote_pending_debt : U128,
            local : Pendings, remote : Pendings] :
        m.balance + m.remote_pending_debt <= MaxI128}

(* What the dispatch on the type of an operation selects. *)
LEMMA Dispatch ==
    ASSUME NEW m, NEW op \in FriendTcOp, NEW limit
    PROVE  /\ op.type = "Request" =>
                /\ op \in RequestOp
                /\ QueueCheck(m, op) = QueueRequestCheck(m, op)
                /\ QueueOperation(m, op) = QueueRequest(m, op)
                /\ ProcessCheck(m, op, limit) = ProcessRequestCheck(m, op, limit)
                /\ ProcessOperation(m, op) = ProcessRequest(m, op)
           /\ op.type = "Response" =>
                /\ op \in ResponseOp
                /\ QueueCheck(m, op) = QueueResponseCheck(m, op)
                /\ QueueOperation(m, op) = QueueResponse(m, op)
                /\ ProcessCheck(m, op, limit) = ProcessResponseCheck(m, op)
                /\ ProcessOperation(m, op) = ProcessResponse(m, op)
           /\ op.type = "Cancel" =>
                /\ op \in CancelOp
                /\ QueueCheck(m, op) = QueueCancelCheck(m, op)
                /\ QueueOperation(m, op) = QueueCancel(m, op)
                /\ ProcessCheck(m, op, limit) = ProcessCancelCheck(m, op)
                /\ ProcessOperation(m, op) = ProcessCancel(m, op)
           /\ op.type = "Collect" =>
                /\ op \in CollectOp
                /\ QueueCheck(m, op) = QueueCollectCheck(m, op)
                /\ QueueOperation(m, op) = QueueCollect(m, op)
                /\ ProcessCheck(m, op, limit) = ProcessCollectCheck(m, op)
                /\ ProcessOperation(m, op) = ProcessCollect(m, op)
           /\ op.type \in {"Request", "Response", "Cancel", "Collect"}
<1>1. /\ op.type \in {"Request", "Response", "Cancel", "Collect"}
      /\ op.type = "Request" => op \in RequestOp
      /\ op.type = "Response" => op \in ResponseOp
      /\ op.type = "Cancel" => op \in CancelOp
      /\ op.type = "Collect" => op \in CollectOp
  BY DEF FriendTcOp, RequestOp, ResponseOp, CancelOp, CollectOp
<1> QED
  BY <1>1 DEF QueueCheck, QueueOperation, ProcessCheck, ProcessOperation

(* Queueing an accepted operation keeps a ledger a ledger. *)
LEMMA QueueKeepsLedger ==
    ASSUME NEW m \in Ledger, NEW op \in FriendTcOp, QueueCheck(m, op) = "Ok"
    PROVE  QueueOperation(m, op) \in Ledger
<1> USE MaxAssumption
<1>1. CASE op.type = "Request"
  <2>1. /\ op \in RequestOp /\ QueueRequestCheck(m, op) = "Ok"
        /\ QueueOperation(m, op) = QueueRequest(m, op)
    BY <1>1, Dispatch
  <2>2. CreatePendingTransaction(op) \in PendingTransaction
    BY <2>1 DEF CreatePendingTransaction, PendingTransaction, RequestOp
  <2>3. /\ m.local_pending_debt + op.dest_payment + op.left_fees \in U128
        /\ op.id \in Uid
    BY <2>1 DEF QueueRequestCheck, RequestOp, U128, U128Max, Ledger
  <2> QED
    BY <2>1, <2>2, <2>3 DEF QueueRequest, MutualCreditOf, Ledger, Pendings
<1>2. CASE op.type = "Response"
  <2>1. /\ op \in ResponseOp /\ QueueResponseCheck(m, op) = "Ok"
        /\ QueueOperation(m, op) = QueueResponse(m, op)
    BY <1>2, Dispatch
  <2>2. m.remote[op.id] \in PendingTransaction /\ op.id \in Uid
    BY <2>1 DEF QueueResponseCheck, ResponseOp, Ledger, Pendings
  <2>3. Answered(m.remote[op.id], op) \in PendingTransaction
    BY <2>1, <2>2 DEF Answered, PendingTransaction, ResponseOp
  <2> QED
    BY <2>1, <2>2, <2>3 DEF QueueResponse, MutualCreditOf, Ledger, Pendings
<1>3. CASE op.type = "Cancel"
  <2>1. /\ op \in CancelOp /\ QueueCancelCheck(m, op) = "Ok"
        /\ QueueOperation(m, op) = QueueCancel(m, op)
    BY <1>3, Dispatch
  <2>2. m.remote[op.id] \in PendingTransaction /\ op.id \in Uid
    BY <2>1 DEF QueueCancelCheck, CancelOp, Ledger, Pendings
  <2>3. /\ Freeze(m.remote[op.id]) \in Nat
        /\ m.remote_pending_debt - Freeze(m.remote[op.id]) \in U128
    BY <2>1, <2>2 DEF QueueCancelCheck, Freeze, PendingTransaction, Ledger, U128, U128Max
  <2> QED
    BY <2>1, <2>2, <2>3 DEF QueueCancel, MutualCreditOf, Ledger, Pendings, U128, U128Max
<1>4. CASE op.type = "Collect"
  <2>1. /\ op \in CollectOp /\ QueueCollectCheck(m, op) = "Ok"
        /\ QueueOperation(m, op) = QueueCollect(m, op)
    BY <1>4, Dispatch
  <2>2. m.remote[op.id] \in PendingTransaction /\ op.id \in Uid
    BY <2>1 DEF QueueCollectCheck, CollectOp, Ledger, Pendings
  <2>3. /\ Freeze(m.remote[op.id]) \in Nat
        /\ m.remote_pending_debt - Freeze(m.remote[op.id]) \in U128
        /\ m.balance + Freeze(m.remote[op.id]) \in (-MaxI128) .. MaxI128
    BY <2>1, <2>2 DEF QueueCollectCheck, Freeze, PendingTransaction, Ledger, U128, U128Max
  <2> QED
    BY <2>1, <2>2, <2>3 DEF QueueCollect, MutualCreditOf, Ledger, Pendings, U128, U128Max
<1> QED
  BY <1>1, <1>2, <1>3, <1>4, Dispatch

(* Mirroring twice changes nothing. *)
LEMMA MirrorInvolution ==
    ASSUME NEW m \in Ledger
    PROVE  Mirror(Mirror(m)) = m
BY MaxAssumption DEF Mirror, MutualCreditOf, Ledger, U128, U128Max

(* One side queues an operation, the other processes it: the operation is   *)
(* accepted unless the arithmetic of process_request_send_funds overflows,  *)
(* and the ledgers are mirror images again.                                 *)
LEMMA QueueThenProcess ==
    ASSUME NEW r \in Ledger, NEW op \in FriendTcOp, NEW limit,
           QueueCheck(Mirror(r), op) = "Ok"
    PROVE  /\ ProcessCheck(r, op, limit) \in {"Ok", "CreditsCalcOverflow"}
           /\ ProcessOperation(r, op) = Mirror(QueueOperation(Mirror(r), op))
<1> DEFINE m == Mirror(r)
<1> USE MaxAssumption
<1>0. /\ m.balance = -r.balance /\ r.balance \in Int
      /\ m.local_pending_debt = r.remote_pending_debt /\ r.remote_pending_debt \in Int
      /\ m.remote_pending_debt = r.local_pending_debt /\ r.local_pending_debt \in Int
      /\ m.local = r.remote /\ m.remote = r.local
      /\ r.local \in Pendings /\ r.remote \in Pendings
  BY DEF Mirror, MutualCreditOf, Ledger, U128, U128Max
<1>t. \A u \in Uid : r.local[u] # NoPending => Freeze(r.local[u]) \in Int
  BY <1>0 DEF Pendings, Freeze, PendingTransaction, U128, U128Max
<1> HIDE DEF m
<1>1. CASE op.type = "Request"
  <2>1. /\ op \in RequestOp /\ QueueRequestCheck(m, op) = "Ok"
        /\ QueueOperation(m, op) = QueueRequest(m, op)
        /\ ProcessOperation(r, op) = ProcessRequest(r, op)
        /\ ProcessCheck(r, op, limit) = ProcessRequestCheck(r, op, limit)
    BY Zenon, <1>1, Dispatch DEF m
  <2>2. ProcessRequestCheck(r, op, limit) \in {"Ok", "CreditsCalcOverflow"}
    BY <1>0, <2>1 DEF QueueRequestCheck, ProcessRequestCheck
  <2>3. ProcessRequest(r, op) = Mirror(QueueRequest(m, op))
    BY <1>0, <2>1 DEF QueueRequest, ProcessRequest, Mirror, MutualCreditOf, RequestOp
  <2> QED
    BY <2>1, <2>2, <2>3 DEF m
<1>2. CASE op.type = "Response"
  <2>1. /\ op \in ResponseOp /\ QueueResponseCheck(m, op) = "Ok"
        /\ QueueOperation(m, op) = QueueResponse(m, op)
        /\ ProcessOperation(r, op) = ProcessResponse(r, op)
        /\ ProcessCheck(r, op, limit) = ProcessResponseCheck(r, op)
    BY <1>2, Dispatch DEF m
  <2>2. ProcessResponseCheck(r, op) = "Ok"
    BY <1>0, <2>1 DEF QueueResponseCheck, ProcessResponseCheck
  <2>3. ProcessResponse(r, op) = Mirror(QueueResponse(m, op))
    BY <1>0, <2>1 DEF QueueResponse, ProcessResponse, Mirror, MutualCreditOf
  <2> QED
    BY <2>1, <2>2, <2>3 DEF m
<1>3. CASE op.type = "Cancel"
  <2>1. /\ op \in CancelOp /\ QueueCancelCheck(m, op) = "Ok"
        /\ QueueOperation(m, op) = QueueCancel(m, op)
        /\ ProcessOperation(r, op) = ProcessCancel(r, op)
        /\ ProcessCheck(r, op, limit) = ProcessCancelCheck(r, op)
    BY <1>3, Dispatch DEF m
  <2>2. ProcessCancelCheck(r, op) = "Ok"
    BY <1>0, <2>1 DEF QueueCancelCheck, ProcessCancelCheck
  <2>3. ProcessCancel(r, op) = Mirror(QueueCancel(m, op))
    BY <1>0, <2>1 DEF QueueCancel, ProcessCancel, Mirror, MutualCreditOf
  <2> QED
    BY <2>1, <2>2, <2>3 DEF m
<1>4. CASE op.type = "Collect"
  <2>1. /\ op \in CollectOp /\ QueueCollectCheck(m, op) = "Ok"
        /\ QueueOperation(m, op) = QueueCollect(m, op)
        /\ ProcessOperation(r, op) = ProcessCollect(r, op)
        /\ ProcessCheck(r, op, limit) = ProcessCollectCheck(r, op)
        /\ op.id \in Uid
    BY <1>4, Dispatch DEF m, CollectOp
  <2>2. /\ r.local[op.id] # NoPending /\ Freeze(r.local[op.id]) \in Int
        /\ r.local[op.id].stage = "Response" /\ LockError(r.local[op.id], op) = "Ok"
        /\ r.local_pending_debt >= Freeze(r.local[op.id])
        /\ -r.balance + Freeze(r.local[op.id]) <= MaxI128
    BY <1>0, <1>t, <2>1 DEF QueueCollectCheck
  <2>3. ProcessCollectCheck(r, op) = "Ok"
    BY <1>0, <2>2 DEF ProcessCollectCheck
  <2>4. ProcessCollect(r, op) = Mirror(QueueCollect(m, op))
    BY <1>0, <2>1, <2>2 DEF QueueCollect, ProcessCollect, Mirror, MutualCreditOf
  <2> QED
    BY <2>1, <2>3, <2>4 DEF m
<1> QED
  BY <1>1, <1>2, <1>3, <1>4, Dispatch

(* Processing an operation that the mirror image could queue keeps a ledger *)
(* a ledger.                                                                *)
LEMMA ProcessKeepsLedger ==
    ASSUME NEW r \in Ledger, NEW op \in FriendTcOp, NEW limit \in U128,
           Mirror(r) \in Ledger, QueueCheck(Mirror(r), op) = "Ok",
           ProcessCheck(r, op, limit) = "Ok"
    PROVE  ProcessOperation(r, op) \in Ledger
<1> USE MaxAssumption
<1>1. PICK m \in Ledger : ProcessOperation(r, op) = Mirror(m)
  BY QueueThenProcess, QueueKeepsLedger
<1>2. ProcessOperation(r, op).balance + ProcessOperation(r, op).remote_pending_debt <= MaxI128
  <2>1. CASE op.type = "Request"
    <3>1. /\ op \in RequestOp /\ ProcessRequestCheck(r, op, limit) = "Ok"
          /\ ProcessOperation(r, op) = ProcessRequest(r, op)
      BY <2>1, Dispatch
    <3> QED
      BY <3>1 DEF ProcessRequestCheck, ProcessRequest, MutualCreditOf, RequestOp, Ledger,
                  U128, U128Max
  <2>2. CASE op.type = "Response"
    BY <2>2, Dispatch DEF ProcessResponse, MutualCreditOf, Ledger
  <2>3. CASE op.type = "Cancel"
    BY <2>3, Dispatch DEF ProcessCancel, MutualCreditOf, Ledger
  <2>4. CASE op.type = "Collect"
    <3>1. /\ op \in CollectOp /\ ProcessCollectCheck(r, op) = "Ok"
          /\ ProcessOperation(r, op) = ProcessCollect(r, op)
      BY <2>4, Dispatch
    <3>2. r.local[op.id] \in PendingTransaction
      BY <3>1 DEF ProcessCollectCheck, CollectOp, Ledger, Pendings
    <3>3. Freeze(r.local[op.id]) \in Nat
      BY <3>2 DEF Freeze, PendingTransaction, U128, U128Max
    <3> QED
      BY <3>1, <3>3 DEF ProcessCollect, MutualCreditOf, Ledger, U128, U128Max
  <2> QED
    BY <2>1, <2>2, <2>3, <2>4, Dispatch
<1> QED
  BY <1>1, <1>2 DEF Mirror, MutualCreditOf, Ledger, U128, U128Max
-------------------------------------------------------------------------------
(* t is the history of the sender's ledger while it queued the operations    *)
(* ops that are on the wire: it starts at the mirror image of the ledger    *)
(* that is behind, every operation takes it one step, as queue_operation    *)
(* does, and it ends at the sender's ledger.                                *)
Trail(t, ops, behind, ahead) ==
    /\ t \in [0 .. Len(ops) -> Ledger]
    /\ t[0] = Mirror(behind)
    /\ t[Len(ops)] = ahead
    /\ \A i \in 1 .. Len(ops) :
          /\ QueueCheck(t[i - 1], ops[i]) = "Ok"
          /\ t[i] = QueueOperation(t[i - 1], ops[i])

(* The inductive invariant. *)
Shape ==
    /\ mc \in [Side -> Ledger]
    /\ clone \in Ledger
    /\ holder \in Side
    /\ phase \in {"queue", "flight", "process", "inconsistent"}
    /\ wire \in Seq(FriendTcOp) /\ Len(wire) <= MaxOperations
    /\ max_debt \in [Side -> U128]
    /\ refused \in [Side -> SUBSET Uid]
    /\ OnlyOverflowBreaksTheChannel

IInv ==
    /\ Shape
    /\ phase # "inconsistent" =>
        \E t : Trail(t, wire, Current(Behind), mc[Other(Behind)])

(* The ledgers a channel starts and restarts with. *)
LEMMA NewIsLedger ==
    ASSUME NEW b \in (-MaxI128) .. MaxI128
    PROVE  /\ NewMutualCredit(b) \in Ledger
           /\ Mirror(NewMutualCredit(b)) = NewMutualCredit(-b)
<1>1. 0 \in U128 /\ NonePending \in Pendings
  BY MaxAssumption DEF U128, U128Max, NonePending, Pendings
<1> QED
  BY <1>1, MaxAssumption DEF NewMutualCredit, MutualCreditOf, Mirror, Ledger

LEMMA SidesLemma ==
    /\ Alice \in Side /\ Bob \in Side
    /\ \A s \in Side : Other(s) \in Side /\ Other(s) # s /\ Other(Other(s)) = s
BY SidesAssumption DEF Side, Other

LEMMA InputsAreOperations == QueueInputs \subseteq FriendTcOp
BY AmountAssumption DEF QueueInputs, FriendTcOp, RequestOp

LEMMA InitIInv == Init => IInv
<1> SUFFICES ASSUME Init PROVE IInv
  OBVIOUS
<1> DEFINE t == [i \in 0 .. 0 |-> NewMutualCredit(0)]
<1>1. /\ NewMutualCredit(0) \in Ledger
      /\ Mirror(NewMutualCredit(0)) = NewMutualCredit(0)
  BY NewIsLedger, MaxAssumption
<1>2. Shape
  BY <1>1, MaxAssumption, BatchAssumption
  DEF Init, Shape, NoClone, U128, U128Max, OnlyOverflowBreaksTheChannel
<1>3. Len(wire) = 0 /\ phase = "queue"
  BY DEF Init
<1>4. Trail(t, wire, Current(Behind), mc[Other(Behind)])
  <2>1. Behind \in Side /\ Other(Behind) \in Side
    BY <1>2, SidesLemma DEF Shape, Behind
  <2>2. Current(Behind) = NewMutualCredit(0) /\ mc[Other(Behind)] = NewMutualCredit(0)
    BY <1>3, <2>1 DEF Init, Current
  <2> QED
    BY <1>1, <1>3, <2>2 DEF Trail
<1> QED
  BY <1>2, <1>4 DEF IInv

(* The holder queues an operation: the trail grows by one ledger. *)
LEMMA QueueStep ==
    ASSUME IInv, NEW s \in Side, NEW op \in QueueInputs, Queue(s, op)
    PROVE  IInv'
<1>1. /\ Shape /\ phase = "queue" /\ holder = s /\ op \in FriendTcOp
      /\ mc[s] \in Ledger /\ QueueCheck(mc[s], op) = "Ok"
  BY InputsAreOperations DEF IInv, Shape, Queue
<1>2. QueueOperation(mc[s], op) \in Ledger
  BY <1>1, QueueKeepsLedger
<1>3. /\ Len(wire) \in Nat /\ Len(wire)' = Len(wire) + 1 /\ wire' \in Seq(FriendTcOp)
      /\ \A i \in 1 .. Len(wire) : wire'[i] = wire[i]
      /\ wire'[Len(wire) + 1] = op
  BY <1>1 DEF Queue, Shape
<1>4. Shape'
  BY <1>1, <1>2, <1>3, BatchAssumption DEF Shape, Queue, OnlyOverflowBreaksTheChannel
<1>5. PICK t : Trail(t, wire, Current(Behind), mc[Other(Behind)])
  BY <1>1 DEF IInv
<1> DEFINE u == [i \in 0 .. Len(wire) + 1 |->
                    IF i = Len(wire) + 1 THEN QueueOperation(mc[s], op) ELSE t[i]]
<1>7. /\ Behind = Other(s) /\ Behind' = Other(s) /\ Other(Behind) = s /\ Other(Behind)' = s
      /\ Current(Behind) = mc[Other(s)] /\ Current(Behind)' = mc'[Other(s)]
      /\ mc'[Other(s)] = mc[Other(s)] /\ mc'[s] = QueueOperation(mc[s], op)
  BY SMTT(30), <1>1, SidesLemma DEF Behind, Current, Queue, Shape
<1>8. Trail(u, wire', Current(Behind)', mc'[Other(Behind)'])
  <2>0. u \in [0 .. Len(wire') -> Ledger]
    BY <1>2, <1>3, <1>5 DEF Trail
  <2>1. u[0] = Mirror(Current(Behind)')
    BY SMTT(30), <1>3, <1>5, <1>7 DEF Trail
  <2>2. u[Len(wire)'] = mc'[Other(Behind)']
    BY <1>3, <1>7
  <2>3. ASSUME NEW i \in 1 .. Len(wire)'
        PROVE  /\ QueueCheck(u[i - 1], wire'[i]) = "Ok"
               /\ u[i] = QueueOperation(u[i - 1], wire'[i])
    <3>1. CASE i = Len(wire) + 1
      <4>1. u[i - 1] = mc[s]
        BY SMTT(30), <1>3, <1>5, <1>7, <3>1 DEF Trail
      <4> QED
        BY SMTT(30), <1>1, <1>3, <3>1, <4>1
    <3>2. CASE i # Len(wire) + 1
      BY <1>3, <1>5, <3>2 DEF Trail
    <3> QED
      BY <3>1, <3>2
  <2> QED
    BY Zenon, <2>0, <2>1, <2>2, <2>3 DEF Trail
<1> QED
  BY <1>4, <1>8 DEF IInv

(* Sending, receiving and committing a batch only move the trail's ends to  *)
(* another holder or to the clone.                                          *)
LEMMA MoveTokenStep ==
    ASSUME IInv, NEW s \in Side, MoveToken(s)
    PROVE  IInv'
<1>1. Shape /\ phase = "queue" /\ holder = s /\ phase' = "flight" /\ holder' = Other(s)
  BY DEF IInv, MoveToken
<1>2. Shape'
  BY <1>1, SidesLemma DEF Shape, MoveToken, OnlyOverflowBreaksTheChannel
<1>3. /\ Behind' = Behind /\ Current(Behind)' = Current(Behind)
      /\ mc'[Other(Behind)'] = mc[Other(Behind)] /\ wire' = wire
  BY <1>1, SidesLemma DEF Behind, Current, MoveToken, Other
<1> QED
  BY <1>1, <1>2, <1>3 DEF IInv

LEMMA ReceiveStep ==
    ASSUME IInv, NEW s \in Side, Receive(s)
    PROVE  IInv'
<1>1. Shape /\ phase = "flight" /\ holder = s /\ phase' = "process" /\ holder' = s
  BY DEF IInv, Receive
<1>2. Shape'
  BY <1>1 DEF Shape, Receive, OnlyOverflowBreaksTheChannel
<1>3. /\ Behind' = Behind /\ Current(Behind)' = Current(Behind)
      /\ mc'[Other(Behind)'] = mc[Other(Behind)] /\ wire' = wire
  BY <1>1 DEF Behind, Current, Receive, Other
<1> QED
  BY <1>1, <1>2, <1>3 DEF IInv

LEMMA ReceivedStep ==
    ASSUME IInv, NEW s \in Side, Received(s)
    PROVE  IInv'
<1>1. /\ Shape /\ phase = "process" /\ holder = s /\ phase' = "queue" /\ holder' = s
      /\ wire = <<>> /\ wire' = <<>> /\ mc'[s] = clone /\ mc'[Other(s)] = mc[Other(s)]
  BY SidesLemma DEF IInv, Received, Shape
<1>2. Shape'
  BY <1>1, NewIsLedger, MaxAssumption
  DEF Shape, Received, NoClone, OnlyOverflowBreaksTheChannel
<1>3. /\ Behind = s /\ Current(Behind) = clone
      /\ Behind' = Other(s) /\ Current(Behind)' = mc[Other(s)] /\ mc'[Other(Behind)'] = clone
  BY <1>1, SidesLemma DEF Behind, Current, Received, Other
<1>4. PICK t : Trail(t, wire, clone, mc[Other(s)])
  BY <1>1, <1>3 DEF IInv
<1>5. t[0] = Mirror(clone) /\ t[0] = mc[Other(s)]
  BY <1>1, <1>4 DEF Trail
<1>6. clone = Mirror(mc[Other(s)]) /\ clone \in Ledger
  BY Zenon, <1>1, <1>5, MirrorInvolution DEF Shape
<1> DEFINE u == [i \in 0 .. 0 |-> clone]
<1>7. Trail(u, <<>>, mc[Other(s)], clone)
  BY <1>6 DEF Trail
<1> QED
  BY <1>1, <1>2, <1>3, <1>7 DEF IInv

(* The holder processes an operation: the trail loses its first ledger. *)
LEMMA ProcessStep ==
    ASSUME IInv, NEW s \in Side, Process(s)
    PROVE  IInv'
<1> DEFINE op == Head(wire)
           check == ProcessCheck(clone, op, max_debt[s])
           n == Len(wire)
<1>1. Shape /\ phase = "process" /\ holder = s /\ wire # <<>> /\ holder' = s /\ mc' = mc
  BY DEF IInv, Process
<1>2. /\ n \in Nat \ {0} /\ op \in FriendTcOp /\ op = wire[1]
      /\ clone \in Ledger /\ max_debt[s] \in U128
  BY <1>1 DEF Shape
<1>3. Behind = s /\ Current(Behind) = clone
  BY <1>1 DEF Behind, Current
<1>4. PICK t : Trail(t, wire, clone, mc[Other(s)])
  BY <1>1, <1>3 DEF IInv
<1>5. /\ Mirror(clone) \in Ledger /\ QueueCheck(Mirror(clone), op) = "Ok"
      /\ t[1] = QueueOperation(Mirror(clone), op) /\ t[1] \in Ledger
  BY <1>2, <1>4 DEF Trail
<1>6. /\ check \in {"Ok", "CreditsCalcOverflow"}
      /\ ProcessOperation(clone, op) = Mirror(t[1])
  BY <1>2, <1>5, QueueThenProcess
<1>7. CASE check = "Ok"
  <2>1. /\ clone' = ProcessOperation(clone, op) /\ wire' = Tail(wire)
        /\ phase' = "process" /\ error' = error /\ max_debt' = max_debt
    BY <1>1, <1>7 DEF Process
  <2>2. clone' \in Ledger
    BY SMTT(30), <1>2, <1>5, <1>7, <2>1, ProcessKeepsLedger
  <2>3. refused' \in [Side -> SUBSET Uid]
    <3>1. op.id \in Uid
      BY <1>2 DEF FriendTcOp, RequestOp, ResponseOp, CancelOp, CollectOp
    <3> QED
      BY <1>1, <1>7, <3>1 DEF Process, Shape
  <2>4. /\ Len(wire') = n - 1 /\ wire' \in Seq(FriendTcOp)
        /\ \A i \in 1 .. n - 1 : wire'[i] = wire[i + 1]
    BY <1>1, <1>2, <2>1 DEF Shape
  <2>5. Shape'
    BY <1>1, <1>2, <2>1, <2>2, <2>3, <2>4, BatchAssumption
    DEF Shape, OnlyOverflowBreaksTheChannel
  <2> DEFINE u == [i \in 0 .. n - 1 |-> t[i + 1]]
  <2>6. Trail(u, wire', clone', mc[Other(s)])
    <3>1. u \in [0 .. Len(wire') -> Ledger]
      BY <1>2, <1>4, <2>4 DEF Trail
    <3>2. u[0] = Mirror(clone')
      BY SMTT(30), <1>2, <1>5, <1>6, <2>1, MirrorInvolution
    <3>3. u[Len(wire')] = mc[Other(s)]
      BY <1>2, <1>4, <2>4 DEF Trail
    <3>4. ASSUME NEW i \in 1 .. Len(wire')
          PROVE  /\ QueueCheck(u[i - 1], wire'[i]) = "Ok"
                 /\ u[i] = QueueOperation(u[i - 1], wire'[i])
      <4>1. i + 1 \in 1 .. n /\ wire'[i] = wire[i + 1] /\ u[i - 1] = t[i] /\ u[i] = t[i + 1]
        BY <1>2, <2>4
      <4>2. /\ QueueCheck(t[(i + 1) - 1], wire[i + 1]) = "Ok"
            /\ t[i + 1] = QueueOperation(t[(i + 1) - 1], wire[i + 1])
        BY <1>4, <4>1 DEF Trail
      <4> QED
        BY <4>1, <4>2
    <3> QED
      BY Zenon, <3>1, <3>2, <3>3, <3>4 DEF Trail
  <2>7. Behind' = s /\ Current(Behind)' = clone' /\ mc'[Other(Behind)'] = mc[Other(s)]
    BY <1>1, <2>1 DEF Behind, Current, Other
  <2> QED
    BY <2>5, <2>6, <2>7 DEF IInv
<1>8. CASE check # "Ok"
  <2>1. /\ phase' = "inconsistent" /\ error' = check /\ clone' = NoClone
        /\ wire' = wire /\ refused' = refused /\ max_debt' = max_debt
    BY <1>8 DEF Process
  <2>2. Shape'
    BY SMTT(30), <1>1, <1>6, <2>1, NewIsLedger, MaxAssumption
    DEF Shape, NoClone, OnlyOverflowBreaksTheChannel
  <2> QED
    BY <2>1, <2>2 DEF IInv
<1> QED
  BY <1>7, <1>8

(* Setting a limit touches no ledger. *)
LEMMA SetMaxDebtStep ==
    ASSUME IInv, NEW s \in Side, NEW limit \in Limit, SetMaxDebt(s, limit)
    PROVE  IInv'
<1>1. Shape'
  BY AmountAssumption DEF IInv, Shape, SetMaxDebt, OnlyOverflowBreaksTheChannel
<1>2. /\ Behind' = Behind /\ Current(Behind)' = Current(Behind)
      /\ mc'[Other(Behind)'] = mc[Other(Behind)] /\ wire' = wire /\ phase' = phase
  BY DEF Behind, Current, SetMaxDebt, Other
<1> QED
  BY <1>1, <1>2 DEF IInv

(* A reset opens two fresh ledgers with opposite balances. *)
LEMMA ResetStep ==
    ASSUME IInv, NEW s \in Side, Reset(s)
    PROVE  IInv'
<1> DEFINE terms == BalanceForReset(mc[Other(s)])
<1>1. /\ Shape /\ phase' = "queue" /\ holder' = Other(s) /\ wire' = <<>> /\ error' = "Ok"
      /\ mc' = [x \in Side |-> NewMutualCredit(IF x = s THEN -terms ELSE terms)]
      /\ clone' = clone /\ max_debt' = max_debt /\ refused' = [x \in Side |-> {}]
      /\ Other(s) \in Side /\ Other(s) # s /\ Other(Other(s)) = s
  BY SidesLemma DEF IInv, Reset
<1>2. terms \in (-MaxI128) .. MaxI128 /\ -terms \in (-MaxI128) .. MaxI128
  <2>1. mc[Other(s)] \in Ledger
    BY <1>1 DEF Shape
  <2> QED
    BY <2>1, MaxAssumption DEF Ledger, U128, U128Max, BalanceForReset
<1>3. /\ NewMutualCredit(terms) \in Ledger /\ NewMutualCredit(-terms) \in Ledger
      /\ Mirror(NewMutualCredit(-terms)) = NewMutualCredit(-(-terms))
      /\ -(-terms) = terms
  BY <1>2, NewIsLedger, MaxAssumption
<1>4. Shape'
  BY SMTT(30), <1>1, <1>3, BatchAssumption DEF Shape, OnlyOverflowBreaksTheChannel
<1>5. /\ Behind' = s /\ Current(Behind)' = NewMutualCredit(-terms)
      /\ mc'[Other(Behind)'] = NewMutualCredit(terms)
  BY <1>1 DEF Behind, Current, Other
<1> DEFINE u == [i \in 0 .. 0 |-> NewMutualCredit(terms)]
<1>6. Trail(u, <<>>, NewMutualCredit(-terms), NewMutualCredit(terms))
  BY <1>3 DEF Trail
<1> QED
  BY <1>1, <1>4, <1>5, <1>6 DEF IInv

LEMMA NextIInv == IInv /\ [Next]_vars => IInv'
<1> SUFFICES ASSUME IInv, [Next]_vars PROVE IInv'
  OBVIOUS
<1>1. CASE Next
  BY <1>1, QueueStep, MoveTokenStep, ReceiveStep, ProcessStep, ReceivedStep,
     SetMaxDebtStep, ResetStep DEF Next
<1>2. CASE UNCHANGED vars
  <2>1. Shape'
    BY <1>2 DEF IInv, Shape, vars, OnlyOverflowBreaksTheChannel
  <2>2. /\ Behind' = Behind /\ Current(Behind)' = Current(Behind)
        /\ mc'[Other(Behind)'] = mc[Other(Behind)] /\ wire' = wire /\ phase' = phase
    BY <1>2 DEF Behind, Current, vars, Other
  <2> QED
    BY <2>1, <2>2 DEF IInv
<1> QED
  BY <1>1, <1>2

LEMMA IInvHolds == Spec => []IInv
BY InitIInv, NextIInv, PTL DEF Spec
-------------------------------------------------------------------------------
(* Every state has the types of TypeOK; in particular no balance or pending *)
(* debt leaves the range of its machine integer.                            *)
THEOREM TypeCorrect == Spec => []TypeOK
<1>1. IInv => TypeOK
  <2> SUFFICES ASSUME IInv PROVE TypeOK
    OBVIOUS
  <2>1. Ledger \subseteq MutualCreditState
    BY MaxAssumption DEF Ledger, MutualCreditState, I128, U128, U128Max
  <2>2. mc \in [Side -> MutualCreditState] /\ clone \in MutualCreditState
    BY <2>1 DEF IInv, Shape
  <2>3. error \in ProcessOutcome
    BY DEF IInv, Shape, OnlyOverflowBreaksTheChannel, ProcessOutcome
  <2> QED
    BY <2>2, <2>3 DEF IInv, Shape, TypeOK
<1> QED
  BY <1>1, IInvHolds, PTL

(* Whatever two correct sides queue, the only error that processing can     *)
(* meet is an arithmetic overflow in process_request_send_funds; the        *)
(* unwrap()s of incoming.rs never fail.                                     *)
THEOREM OnlyOverflow == Spec => []OnlyOverflowBreaksTheChannel
<1>1. IInv => OnlyOverflowBreaksTheChannel
  BY DEF IInv, Shape
<1> QED
  BY <1>1, IInvHolds, PTL

(* When every operation that was sent is processed the two ledgers are      *)
(* mirror images.                                                           *)
THEOREM LedgersAgree == Spec => []MirroredAtRest
<1>1. IInv => MirroredAtRest
  <2> SUFFICES ASSUME IInv, phase # "inconsistent", wire = <<>>
               PROVE  Current(Alice) = Mirror(Current(Bob))
    BY DEF MirroredAtRest
  <2>1. PICK t : Trail(t, wire, Current(Behind), mc[Other(Behind)])
    BY DEF IInv
  <2>2. mc[Other(Behind)] = Mirror(Current(Behind))
    BY <2>1 DEF Trail
  <2>3. Shape /\ Behind \in Side /\ Other(Behind) \in Side
    BY SidesLemma DEF IInv, Shape, Behind
  <2>4. mc[Other(Behind)] = Current(Other(Behind))
    BY <2>3, SidesLemma DEF Current, Behind
  <2>5. Current(Behind) \in Ledger
    BY <2>3 DEF Current, Shape
  <2>6. Current(Behind) = Mirror(Current(Other(Behind)))
    BY Zenon, <2>2, <2>4, <2>5, MirrorInvolution
  <2> QED
    BY Zenon, <2>2, <2>3, <2>4, <2>6, SidesAssumption DEF Side, Other
<1> QED
  BY <1>1, IInvHolds, PTL

(* A side that has to make reset terms always can, and the friend can       *)
(* negate them: the expect() of balance_for_reset and the checked_neg() of  *)
(* the resets never fail, at any integer width.                             *)
THEOREM ResetNeverOverflows == Spec => []ResetTermsFit
<1>1. IInv => ResetTermsFit
  <2> SUFFICES ASSUME IInv, NEW s \in Side
               PROVE  BalanceForReset(mc[s]) \in -MaxI128 .. MaxI128
    BY DEF ResetTermsFit
  <2>1. mc[s] \in Ledger
    BY DEF IInv, Shape
  <2> QED
    BY <2>1, MaxAssumption DEF Ledger, U128, U128Max, BalanceForReset
<1> QED
  BY <1>1, IInvHolds, PTL
===============================================================================
