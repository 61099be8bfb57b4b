-------------------------- MODULE TokenChannelProofs --------------------------
(***************************************************************************)
(* Proofs about TokenChannel, for every batch size, any number of          *)
(* operations and any number of broken connections and crashes.            *)
(*                                                                         *)
(* The argument: at any time the two sides are either synced (one holds    *)
(* the token that the other sent last) or a move token is in transit (the  *)
(* last one of one side continues the last one of the other).  What is on  *)
(* its way to a side is then limited to two move tokens, and never in the  *)
(* order newer, older: that is what makes it safe to repeat a move token   *)
(* at any time and to let a newer message replace an older one.            *)
(***************************************************************************)
EXTENDS TokenChannel, SequenceTheorems, TLAPS

(* A move token continues an earlier one. *)
WellFormed(mt) == mt.old < mt.new

(* Every message of the queue carries the move token mt. *)
Same(queue, mt) == \A i \in 1 .. Len(queue) : queue[i].mt = mt

(* Every message of the queue carries a move token with the token `token`. *)
Stale(queue, token) ==
    \A i \in 1 .. Len(queue) : WellFormed(queue[i].mt) /\ queue[i].mt.new = token

(* The messages with token `token` come before the ones with mt. *)
StaleThenSame(queue, token, mt) ==
    /\ \A i \in 1 .. Len(queue) :
           \/ queue[i].mt = mt
           \/ WellFormed(queue[i].mt) /\ queue[i].mt.new = token
    /\ \A i, j \in 1 .. Len(queue) :
           i < j /\ queue[i].mt = mt => queue[j].mt = mt

(* n sent the token and its friend holds it. *)
Synced(n) ==
    /\ tc[n].dir = "Out" /\ tc[Other(n)].dir = "In"
    /\ tc[n].mt = tc[Other(n)].mt
    /\ view[n] = view[Other(n)]
    /\ Same(net[Other(n)], tc[n].mt)
    /\ Stale(net[n], tc[n].mt.old)

(* n sent the token and its friend has not received it. *)
InTransit(n) ==
    /\ tc[n].dir = "Out" /\ tc[Other(n)].dir = "Out"
    /\ tc[n].mt.old = tc[Other(n)].mt.new
    /\ tc[n].mt.info.count = tc[Other(n)].mt.info.count + 1
    /\ view[n] = view[Other(n)] \o tc[n].mt.batch
    /\ StaleThenSame(net[Other(n)], tc[Other(n)].mt.old, tc[n].mt)
    /\ Same(net[n], tc[Other(n)].mt)

Chain ==
    /\ \A n \in Node : /\ WellFormed(tc[n].mt)
                       /\ tc[n].mt.info.ops = view[n]
                       /\ tc[n].mt.new <= issued
    /\ \E n \in Node : Synced(n) \/ InTransit(n)

(* The inductive invariant. *)
IInv == TypeOK /\ Chain /\ StaysConsistent
-------------------------------------------------------------------------------
LEMMA NodeLemma ==
    ASSUME NEW n \in Node
    PROVE  Other(n) \in Node /\ Other(n) # n /\ Other(Other(n)) = n /\ Node = {n, Other(n)}
BY NodesAssumption DEF Node, Other

LEMMA CutLemma ==
    ASSUME NEW queue \in Seq(Message), NEW k \in 0 .. Len(queue)
    PROVE  /\ SubSeq(queue, 1, k) \in Seq(Message) /\ Len(SubSeq(queue, 1, k)) = k
           /\ \A i \in 1 .. k : i \in 1 .. Len(queue) /\ SubSeq(queue, 1, k)[i] = queue[i]
OBVIOUS

(* `new` is a beginning of the queue, followed by msg. *)
BeginningThen(queue, msg, new) ==
    /\ new \in Seq(Message)
    /\ Len(new) \in Nat \ {0} /\ Len(new) <= Len(queue) + 1
    /\ new[Len(new)] = msg
    /\ \A i \in 1 .. Len(new) - 1 : i \in 1 .. Len(queue) /\ new[i] = queue[i]

(* What posting a message does to a queue. *)
LEMMA PostedLemma ==
    ASSUME NEW queue \in Seq(Message), NEW msg \in Message, NEW new \in Posted(queue, msg)
    PROVE  BeginningThen(queue, msg, new)
<1>1. CASE new = Append(queue, msg)
  BY <1>1 DEF BeginningThen
<1>2. CASE queue # <<>> /\ new = Append(SubSeq(queue, 1, Len(queue) - 1), msg)
  <2>1. Len(queue) \in Nat \ {0}
    BY <1>2, EmptySeq
  <2>2. Len(queue) - 1 \in 0 .. Len(queue)
    BY <2>1
  <2>3. LET front == SubSeq(queue, 1, Len(queue) - 1) IN
        /\ front \in Seq(Message) /\ Len(front) = Len(queue) - 1
        /\ \A i \in 1 .. Len(queue) - 1 : front[i] = queue[i]
    BY ZenonT(30), <2>2, CutLemma
  <2> QED
    BY <1>2, <2>1, <2>3 DEF BeginningThen
<1> QED
  BY <1>1, <1>2 DEF Posted

LEMMA TailLemma ==
    ASSUME NEW queue \in Seq(Message), queue # <<>>
    PROVE  /\ Tail(queue) \in Seq(Message) /\ Len(Tail(queue)) = Len(queue) - 1
           /\ \A i \in 1 .. Len(Tail(queue)) : i + 1 \in 1 .. Len(queue) /\ Tail(queue)[i] = queue[i + 1]
           /\ Head(queue) = queue[1] /\ 1 \in 1 .. Len(queue) /\ Head(queue) \in Message
OBVIOUS

(* Losing the end of a queue keeps what is known of it. *)
LEMMA CutKeeps ==
    ASSUME NEW queue \in Seq(Message), NEW k \in 0 .. Len(queue), NEW mt, NEW token
    PROVE  LET cut == SubSeq(queue, 1, k) IN
           /\ Same(queue, mt) => Same(cut, mt)
           /\ Stale(queue, token) => Stale(cut, token)
           /\ StaleThenSame(queue, token, mt) => StaleThenSame(cut, token, mt)
<1>1. /\ SubSeq(queue, 1, k) \in Seq(Message) /\ Len(SubSeq(queue, 1, k)) = k
      /\ \A i \in 1 .. k : i \in 1 .. Len(queue) /\ SubSeq(queue, 1, k)[i] = queue[i]
  BY CutLemma
<1> QED
  BY <1>1 DEF Same, Stale, StaleThenSame

(* So does receiving its first message; if that is mt, only mt is left. *)
LEMMA TailKeeps ==
    ASSUME NEW queue \in Seq(Message), queue # <<>>, NEW mt, NEW token
    PROVE  LET rest == Tail(queue) IN
           /\ Same(queue, mt) => Same(rest, mt) /\ Head(queue).mt = mt
           /\ Stale(queue, token) => /\ Stale(rest, token)
                                     /\ WellFormed(Head(queue).mt) /\ Head(queue).mt.new = token
           /\ StaleThenSame(queue, token, mt) =>
                /\ StaleThenSame(rest, token, mt)
                /\ \/ Head(queue).mt = mt /\ Same(rest, mt)
                   \/ WellFormed(Head(queue).mt) /\ Head(queue).mt.new = token
<1>1. /\ Tail(queue) \in Seq(Message) /\ Len(Tail(queue)) = Len(queue) - 1
      /\ \A i \in 1 .. Len(Tail(queue)) : i + 1 \in 1 .. Len(queue) /\ Tail(queue)[i] = queue[i + 1]
      /\ Head(queue) = queue[1] /\ 1 \in 1 .. Len(queue)
      /\ Len(queue) \in Nat
  BY TailLemma
<1>2. Same(queue, mt) => Same(Tail(queue), mt) /\ Head(queue).mt = mt
  BY <1>1 DEF Same
<1>3. Stale(queue, token) => /\ Stale(Tail(queue), token)
                             /\ WellFormed(Head(queue).mt) /\ Head(queue).mt.new = token
  BY <1>1 DEF Stale
<1>4. ASSUME StaleThenSame(queue, token, mt)
      PROVE  /\ StaleThenSame(Tail(queue), token, mt)
             /\ \/ Head(queue).mt = mt /\ Same(Tail(queue), mt)
                \/ WellFormed(Head(queue).mt) /\ Head(queue).mt.new = token
  <2>1. \A i, j \in 1 .. Len(Tail(queue)) :
            i < j /\ Tail(queue)[i].mt = mt => Tail(queue)[j].mt = mt
    BY <1>1, <1>4 DEF StaleThenSame
  <2>2. Head(queue).mt = mt => Same(Tail(queue), mt)
    BY <1>1, <1>4 DEF StaleThenSame, Same
  <2> QED
    BY <1>1, <1>4, <2>1, <2>2 DEF StaleThenSame
<1> QED
  BY <1>2, <1>3, <1>4

(* Posting mt keeps a queue of mt, and puts it after what is stale. *)
LEMMA PostKeeps ==
    ASSUME NEW queue \in Seq(Message), NEW msg \in Message, NEW new \in Posted(queue, msg), NEW token
    PROVE  /\ new \in Seq(Message)
           /\ Same(queue, msg.mt) => Same(new, msg.mt)
           /\ (Stale(queue, token) /\ msg.mt.new # token) => StaleThenSame(new, token, msg.mt)
           /\ (Stale(queue, token) /\ msg.mt.new = token /\ WellFormed(msg.mt)) => Stale(new, token)
           /\ StaleThenSame(queue, token, msg.mt) => StaleThenSame(new, token, msg.mt)
<1>1. BeginningThen(queue, msg, new)
  BY PostedLemma
<1>2. \A i \in 1 .. Len(new) :
          \/ i = Len(new) /\ new[i] = msg
          \/ i # Len(new) /\ i \in 1 .. Len(queue) /\ new[i] = queue[i]
  BY <1>1 DEF BeginningThen
<1>3. Same(queue, msg.mt) => Same(new, msg.mt)
  BY <1>2 DEF Same
<1>4. ASSUME StaleThenSame(queue, token, msg.mt)
      PROVE  StaleThenSame(new, token, msg.mt)
  <2>1. ASSUME NEW i \in 1 .. Len(new)
        PROVE  new[i].mt = msg.mt \/ (WellFormed(new[i].mt) /\ new[i].mt.new = token)
    <3>1. CASE new[i] = msg
      BY <3>1
    <3>2. CASE i \in 1 .. Len(queue) /\ new[i] = queue[i]
      BY <1>4, <3>2, Zenon DEF StaleThenSame
    <3> QED
      BY <1>2, <3>1, <3>2
  <2>2. ASSUME NEW i \in 1 .. Len(new), NEW j \in 1 .. Len(new), i < j, new[i].mt = msg.mt
        PROVE  new[j].mt = msg.mt
    <3>1. CASE j = Len(new)
      BY <1>2, <3>1
    <3>2. CASE j # Len(new)
      <4>1. i # Len(new)
        BY <2>2, <1>1 DEF BeginningThen
      <4> QED
        BY <1>2, <1>4, <2>2, <3>2, <4>1 DEF StaleThenSame
    <3> QED
      BY <3>1, <3>2
  <2> QED
    BY <2>1, <2>2 DEF StaleThenSame
<1>5. (Stale(queue, token) /\ msg.mt.new = token /\ WellFormed(msg.mt)) => Stale(new, token)
  BY <1>2 DEF Stale
<1>6. ASSUME Stale(queue, token), msg.mt.new # token
      PROVE  StaleThenSame(new, token, msg.mt)
  <2>1. ASSUME NEW i \in 1 .. Len(new)
        PROVE  new[i].mt = msg.mt \/ (WellFormed(new[i].mt) /\ new[i].mt.new = token)
    <3>1. CASE new[i] = msg
      BY <3>1
    <3>2. CASE i \in 1 .. Len(queue) /\ new[i] = queue[i]
      BY <1>6, <3>2, Zenon DEF Stale
    <3> QED
      BY <1>2, <3>1, <3>2
  <2>2. \A i \in 1 .. Len(new) : new[i].mt = msg.mt => i = Len(new)
    BY <1>2, <1>6 DEF Stale
  <2>3. \A i, j \in 1 .. Len(new) : i < j /\ new[i].mt = msg.mt => new[j].mt = msg.mt
    BY <1>1, <2>2 DEF BeginningThen
  <2> QED
    BY <2>1, <2>3 DEF StaleThenSame
<1>7. new \in Seq(Message)
  BY <1>1 DEF BeginningThen
<1> QED
  BY <1>3, <1>4, <1>5, <1>6, <1>7
-------------------------------------------------------------------------------
LEMMA MessageLemma ==
    ASSUME NEW mt \in MoveToken, NEW w \in BOOLEAN
    PROVE  MessageOf(mt, w) \in Message /\ MessageOf(mt, w).mt = mt
BY DEF MessageOf, Message

LEMMA FieldsLemma ==
    ASSUME NEW mt \in MoveToken
    PROVE  /\ mt.old \in Int /\ mt.new \in Nat /\ mt.batch \in Seq(Operation)
           /\ mt.info.count \in Nat /\ mt.info.ops \in Seq(Operation)
BY DEF MoveToken

LEMMA PendingLemma ==
    ASSUME NEW b, NEW r
    PROVE  IsPending(b, r) \in BOOLEAN
BY Zenon DEF IsPending

(* A message of n changes at most the queue of its friend. *)
LEMMA PostLemma ==
    ASSUME NEW n \in Node, NEW msg \in Message, NEW from \in [Node -> Seq(Message)],
           Post(n, msg, from)
    PROVE  /\ net' \in [Node -> Seq(Message)]
           /\ net'[n] = from[n]
           /\ \/ net'[Other(n)] = from[Other(n)]
              \/ net'[Other(n)] \in Posted(from[Other(n)], msg)
<1>1. Other(n) \in Node /\ Other(n) # n
  BY NodeLemma
<1>2. ASSUME NEW queue \in Posted(from[Other(n)], msg), net' = [from EXCEPT ![Other(n)] = queue]
      PROVE  /\ net' \in [Node -> Seq(Message)]
             /\ net'[n] = from[n]
             /\ net'[Other(n)] \in Posted(from[Other(n)], msg)
  <2>1. queue \in Seq(Message)
    BY <1>1, PostKeeps
  <2> QED
    BY <1>1, <1>2, <2>1
<1> QED
  BY <1>2 DEF Post

(* n may send: its friend sent mt last, after v, and n knows it. *)
MaySend(n, mt, v, from) ==
    /\ tc[Other(n)].dir = "Out" /\ tc[Other(n)].mt = mt /\ view[Other(n)] = v
    /\ Same(from[n], mt)
    /\ Stale(from[Other(n)], mt.old)

(* The batch, and what it leaves. *)
LEMMA BatchLemma ==
    ASSUME NEW b \in Seq(Operation), NEW r \in Seq(Operation)
    PROVE  LET size == BatchSize(Len(b) + Len(r)) IN
           /\ size \in Nat /\ size <= MaxBatch
           /\ SubSeq(b \o r, 1, size) \in Seq(Operation)
           /\ Len(SubSeq(b \o r, 1, size)) = size
           /\ LeftBehind(b, size) \in Seq(Operation)
           /\ LeftBehind(r, IF size < Len(b) THEN 0 ELSE size - Len(b)) \in Seq(Operation)
<1> DEFINE size == BatchSize(Len(b) + Len(r))
           taken == IF size < Len(b) THEN 0 ELSE size - Len(b)
<1>1. Len(b) \in Nat /\ Len(r) \in Nat
  OBVIOUS
<1>2. size \in Nat /\ size <= MaxBatch /\ size <= Len(b) + Len(r)
  BY <1>1, BatchAssumption DEF BatchSize
<1>3. b \o r \in Seq(Operation) /\ Len(b \o r) = Len(b) + Len(r)
  OBVIOUS
<1>4. SubSeq(b \o r, 1, size) \in Seq(Operation) /\ Len(SubSeq(b \o r, 1, size)) = size
  <2> HIDE DEF size
  <2> DEFINE all == b \o r
  <2>1. all \in Seq(Operation) /\ size \in 0 .. Len(all)
    BY <1>2, <1>3
  <2> HIDE DEF all
  <2>2. SubSeq(all, 1, size) \in Seq(Operation) /\ Len(SubSeq(all, 1, size)) = size
    BY <2>1
  <2> QED
    BY ZenonT(30), <2>2 DEF all
<1>5. taken \in Nat
  BY <1>1, <1>2
<1>6. \A queue \in Seq(Operation), k \in Nat : LeftBehind(queue, k) \in Seq(Operation)
  BY DEF LeftBehind
<1> QED
  BY ZenonT(30), <1>2, <1>4, <1>5, <1>6

(* The variables that sending and receiving may change keep their types. *)
Types ==
    /\ tc \in [Node -> [dir : {"In", "Out"}, mt : MoveToken]]
    /\ view \in [Node -> Seq(Operation)]
    /\ backwards \in [Node -> Seq(Operation)]
    /\ requests \in [Node -> Seq(Operation)]
    /\ net \in [Node -> Seq(Message)]
    /\ issued \in Nat
    /\ \A n \in Node : Len(tc[n].mt.batch) <= MaxBatch

(* Sending the token starts a transit. *)
LEMMA SendStep ==
    ASSUME NEW n \in Node, NEW mt \in MoveToken, NEW v \in Seq(Operation),
           NEW b \in Seq(Operation), NEW r \in Seq(Operation),
           NEW from \in [Node -> Seq(Message)],
           Types, Chain, mt.info.ops = v,
           MaySend(n, mt, v, from), SendMoveToken(n, mt, v, b, r, from)
    PROVE  Types' /\ Chain'
<1> DEFINE m == Other(n)
           size == BatchSize(Len(b) + Len(r))
           batch == SubSeq(b \o r, 1, size)
           ops == v \o batch
           left_b == LeftBehind(b, size)
           left_r == LeftBehind(r, IF size < Len(b) THEN 0 ELSE size - Len(b))
           new == MoveTokenOf(mt.new, issued + 1, batch, InfoOf(mt.info.count + 1, ops))
           msg == MessageOf(new, IsPending(left_b, left_r))
<1>1. m \in Node /\ m # n /\ Other(m) = n /\ Node = {n, m}
  BY NodeLemma
<1>2. /\ size \in Nat /\ size <= MaxBatch
      /\ batch \in Seq(Operation) /\ Len(batch) = size
      /\ left_b \in Seq(Operation) /\ left_r \in Seq(Operation)
  BY ZenonT(30), BatchLemma
<1>3. /\ tc' = [tc EXCEPT ![n] = Outgoing(new)]
      /\ view' = [view EXCEPT ![n] = ops]
      /\ backwards' = [backwards EXCEPT ![n] = left_b]
      /\ requests' = [requests EXCEPT ![n] = left_r]
      /\ issued' = issued + 1
      /\ Post(n, msg, from)
  BY DEF SendMoveToken
<1> HIDE DEF size, batch, left_b, left_r
<1>4. ops \in Seq(Operation)
  BY <1>2
<1> HIDE DEF ops
<1>5. /\ new \in MoveToken
      /\ new.old = mt.new /\ new.new = issued + 1 /\ new.batch = batch
      /\ new.info.count = mt.info.count + 1 /\ new.info.ops = ops
  <2>1. mt.new \in Int /\ issued + 1 \in Nat /\ mt.info.count + 1 \in Nat
    <3>1. issued \in Nat
      BY DEF Types
    <3> QED
      BY <3>1, FieldsLemma
  <2> QED
    BY <2>1, <1>2, <1>4 DEF MoveToken, MoveTokenOf, InfoOf
<1>6. msg \in Message /\ msg.mt = new
  BY <1>5, MessageLemma, PendingLemma
<1>7. /\ mt = tc[m].mt /\ WellFormed(mt) /\ mt.new <= issued
      /\ mt.old \in Int /\ mt.new \in Nat
  BY <1>1 DEF MaySend, Chain, MoveToken
<1> HIDE DEF new, msg
<1>8. WellFormed(new) /\ new.new # mt.old
  <2>1. issued \in Nat
    BY DEF Types
  <2> QED
    BY <2>1, <1>5, <1>7 DEF WellFormed
<1>9. /\ net' \in [Node -> Seq(Message)] /\ net'[n] = from[n]
      /\ net'[m] = from[m] \/ net'[m] \in Posted(from[m], msg)
  BY ZenonT(30), <1>3, <1>6, PostLemma
<1>10. /\ tc'[n].dir = "Out" /\ tc'[n].mt = new /\ tc'[m] = tc[m]
       /\ view'[n] = ops /\ view'[m] = view[m]
  BY <1>1, <1>3 DEF Types, Outgoing, DirectionOf
<1>11. Types'
  <2>1. tc' \in [Node -> [dir : {"In", "Out"}, mt : MoveToken]]
    BY <1>3, <1>5 DEF Types, Outgoing, DirectionOf
  <2>2. \A x \in Node : Len(tc'[x].mt.batch) <= MaxBatch
    BY SMTT(30), <1>1, <1>2, <1>5, <1>10 DEF Types
  <2>3. /\ view' \in [Node -> Seq(Operation)]
        /\ backwards' \in [Node -> Seq(Operation)]
        /\ requests' \in [Node -> Seq(Operation)]
        /\ issued' \in Nat
    BY <1>2, <1>3, <1>4 DEF Types
  <2> QED
    BY ZenonT(30), <2>1, <2>2, <2>3, <1>9 DEF Types
<1>12. Same(net'[n], mt)
  BY <1>9 DEF MaySend
<1>13. StaleThenSame(net'[m], mt.old, new)
  <2>1. Stale(from[m], mt.old)
    BY DEF MaySend
  <2>2. CASE net'[m] = from[m]
    <3>1. \A i \in 1 .. Len(from[m]) : from[m][i].mt # new
      BY <2>1, <1>8 DEF Stale
    <3> QED
      BY <2>1, <2>2, <3>1 DEF Stale, StaleThenSame
  <2>3. CASE net'[m] \in Posted(from[m], msg)
    BY <2>1, <2>3, <1>1, <1>6, <1>8, PostKeeps
  <2> QED
    BY <2>2, <2>3, <1>9
<1>14. InTransit(n)'
  BY ZenonT(30), <1>5, <1>7, <1>10, <1>12, <1>13 DEF InTransit, MaySend, ops
<1>15. \A x \in Node : /\ WellFormed(tc'[x].mt)
                       /\ tc'[x].mt.info.ops = view'[x]
                       /\ tc'[x].mt.new <= issued'
  <2>1. /\ WellFormed(tc[m].mt) /\ tc[m].mt.info.ops = view[m] /\ tc[m].mt.new <= issued'
    BY SMTT(30), <1>1, <1>3, <1>7 DEF Chain, Types
  <2>2. WellFormed(new) /\ new.info.ops = ops /\ new.new <= issued'
    BY <1>3, <1>5, <1>8 DEF Types
  <2> QED
    BY <2>1, <2>2, <1>1, <1>10 DEF Types
<1> QED
  BY <1>11, <1>14, <1>15 DEF Chain

(* Repeating the last move token changes nothing that matters. *)
LEMMA TransmitStep ==
    ASSUME NEW n \in Node, NEW b, NEW r,
           Types, Chain, tc[n].dir = "Out",
           NEW from \in [Node -> Seq(Message)],
           \A x \in Node : \A mt, token :
               /\ Same(net[x], mt) => Same(from[x], mt)
               /\ Stale(net[x], token) => Stale(from[x], token)
               /\ StaleThenSame(net[x], token, mt) => StaleThenSame(from[x], token, mt),
           Transmit(n, b, r, from), UNCHANGED <<tc, view, issued>>
    PROVE  net' \in [Node -> Seq(Message)] /\ Chain'
<1> DEFINE m == Other(n)
           msg == MessageOf(tc[n].mt, IsPending(b, r))
<1>1. m \in Node /\ m # n /\ Other(m) = n /\ Node = {n, m}
  BY NodeLemma
<1>2. msg \in Message /\ msg.mt = tc[n].mt
  BY MessageLemma, PendingLemma DEF Types
<1>3. Post(n, msg, from)
  BY DEF Transmit
<1> HIDE DEF msg
<1>4. /\ net' \in [Node -> Seq(Message)] /\ net'[n] = from[n]
      /\ net'[m] = from[m] \/ net'[m] \in Posted(from[m], msg)
  BY <1>2, <1>3, PostLemma
<1>5. ASSUME Synced(n) PROVE Synced(n)'
  <2>1. Same(from[m], tc[n].mt) /\ Stale(from[n], tc[n].mt.old)
    BY SMTT(30), <1>1, <1>5 DEF Synced
  <2>2. Same(net'[m], tc[n].mt)
    BY ZenonT(30), <2>1, <1>1, <1>2, <1>4, PostKeeps
  <2> QED
    BY <2>1, <2>2, <1>4, <1>5 DEF Synced
<1>6. ASSUME InTransit(n) PROVE InTransit(n)'
  <2>1. StaleThenSame(from[m], tc[m].mt.old, tc[n].mt) /\ Same(from[n], tc[m].mt)
    BY <1>1, <1>6 DEF InTransit
  <2>2. CASE net'[m] \in Posted(from[m], msg)
    <3>1. StaleThenSame(net'[m], tc[m].mt.old, msg.mt)
      BY ZenonT(30), <2>1, <2>2, <1>1, <1>2, PostKeeps
    <3> QED
      BY <3>1, <2>1, <1>2, <1>4, <1>6 DEF InTransit
  <2>3. CASE net'[m] = from[m]
    BY <2>1, <2>3, <1>4, <1>6 DEF InTransit
  <2> QED
    BY <2>2, <2>3, <1>4
<1>7. ASSUME InTransit(m) PROVE InTransit(m)'
  <2>1. StaleThenSame(from[n], tc[n].mt.old, tc[m].mt) /\ Same(from[m], tc[n].mt)
    BY SMTT(30), <1>1, <1>7 DEF InTransit
  <2>2. Same(net'[m], tc[n].mt)
    BY ZenonT(30), <2>1, <1>1, <1>2, <1>4, PostKeeps
  <2> QED
    BY <2>1, <2>2, <1>1, <1>4, <1>7 DEF InTransit
<1>8. ~Synced(m)
  BY <1>1 DEF Synced
<1>9. \E x \in Node : (Synced(x) \/ InTransit(x))'
  BY <1>1, <1>5, <1>6, <1>7, <1>8 DEF Chain
<1> QED
  BY <1>4, <1>9 DEF Chain

(* Losing messages, with nothing else that matters changed. *)
LEMMA LossStep ==
    ASSUME Types, Chain, UNCHANGED <<tc, view, issued>>,
           net' \in [Node -> Seq(Message)],
           \A x \in Node : \A mt, token :
               /\ Same(net[x], mt) => Same(net'[x], mt)
               /\ Stale(net[x], token) => Stale(net'[x], token)
               /\ StaleThenSame(net[x], token, mt) => StaleThenSame(net'[x], token, mt)
    PROVE  Chain'
<1>1. ASSUME NEW n \in Node, Synced(n) PROVE Synced(n)'
  BY ZenonT(30), <1>1, NodeLemma DEF Synced
<1>2. ASSUME NEW n \in Node, InTransit(n) PROVE InTransit(n)'
  <2>1. Other(n) \in Node
    BY NodeLemma
  <2>2. StaleThenSame(net'[Other(n)], tc[Other(n)].mt.old, tc[n].mt)
    BY <1>2, <2>1 DEF InTransit
  <2>3. Same(net'[n], tc[Other(n)].mt)
    BY ZenonT(30), <1>2 DEF InTransit
  <2> QED
    BY <1>2, <2>2, <2>3 DEF InTransit
<1> QED
  BY <1>1, <1>2 DEF Chain

LEMMA EmptyKeeps ==
    ASSUME NEW mt, NEW token
    PROVE  Same(<<>>, mt) /\ Stale(<<>>, token) /\ StaleThenSame(<<>>, token, mt)
BY DEF Same, Stale, StaleThenSame

(* A side that holds the token may send it. *)
LEMMA HolderMaySend ==
    ASSUME NEW n \in Node, Types, Chain, tc[n].dir = "In"
    PROVE  MaySend(n, tc[n].mt, view[n], net) /\ tc[n].mt.info.ops = view[n]
<1>1. Other(n) \in Node /\ Other(n) # n /\ Other(Other(n)) = n /\ Node = {n, Other(n)}
  BY NodeLemma
<1>2. Synced(Other(n))
  BY ZenonT(30), <1>1 DEF Chain, Synced, InTransit
<1> QED
  BY <1>1, <1>2 DEF Synced, MaySend, Chain

(* What the sides make of the messages that can reach them. *)
(* mt continues the move token that an outgoing side sent. *)
Continues(d, v, mt) ==
    /\ d.dir = "Out" /\ mt.old = d.mt.new
    /\ mt.info.count = d.mt.info.count + 1
    /\ mt.info.ops = v \o mt.batch

LEMMA ClassifyLemma ==
    ASSUME NEW d \in [dir : {"In", "Out"}, mt : MoveToken], NEW v, NEW mt \in MoveToken,
           WellFormed(d.mt)
    PROVE  /\ (d.dir = "In" /\ mt = d.mt) => Classify(d, v, mt) = "Duplicate"
           /\ (d.dir = "Out" /\ WellFormed(mt) /\ mt.new = d.mt.old) =>
                 Classify(d, v, mt) = "RetransmitOutgoing"
           /\ Continues(d, v, mt) => Classify(d, v, mt) = "Received"
<1>1. (d.dir = "In" /\ mt = d.mt) => Classify(d, v, mt) = "Duplicate"
  BY DEF Classify
<1>2. ASSUME d.dir = "Out", WellFormed(mt), mt.new = d.mt.old
      PROVE  Classify(d, v, mt) = "RetransmitOutgoing"
  <2>1. mt.old # d.mt.new
    <3>1. mt.old \in Int /\ mt.new \in Int /\ d.mt.old \in Int /\ d.mt.new \in Int
      BY FieldsLemma
    <3> QED
      BY <3>1, <1>2 DEF WellFormed
  <2> QED
    BY <1>2, <2>1 DEF Classify
<1>3. ASSUME Continues(d, v, mt) PROVE Classify(d, v, mt) = "Received"
  <2>1. mt.info = InfoOf(d.mt.info.count + 1, v \o mt.batch)
    BY <1>3 DEF MoveToken, InfoOf, Continues
  <2> QED
    BY <1>3, <2>1 DEF Classify, Continues
<1> QED
  BY <1>1, <1>2, <1>3
-------------------------------------------------------------------------------
LEMMA InitIInv == Init => IInv
<1> SUFFICES ASSUME Init PROVE IInv
  OBVIOUS
<1>1. InitialMoveToken \in MoveToken /\ WellFormed(InitialMoveToken)
      /\ InitialMoveToken.info.ops = <<>> /\ InitialMoveToken.new = 0
      /\ InitialMoveToken.batch = <<>>
  BY DEF InitialMoveToken, MoveTokenOf, InfoOf, MoveToken, WellFormed
<1>2. /\ tc[Low].dir = "Out" /\ tc[High].dir = "In"
      /\ \A n \in Node : tc[n].mt = InitialMoveToken
      /\ tc \in [Node -> [dir : {"In", "Out"}, mt : MoveToken]]
  BY <1>1, NodesAssumption DEF Init, Node, DirectionOf
<1>3. TypeOK
  <2>1. /\ view \in [Node -> Seq(Operation)] /\ backwards \in [Node -> Seq(Operation)]
        /\ requests \in [Node -> Seq(Operation)] /\ net \in [Node -> Seq(Message)]
    BY DEF Init
  <2>2. produced \in [Node -> [Kind -> Nat]]
    BY DEF Init
  <2>3. online \in [Node -> BOOLEAN] /\ up \in BOOLEAN
    BY ZenonT(30) DEF Init
  <2>4. \A n \in Node : Len(tc[n].mt.batch) <= MaxBatch
    BY <1>1, <1>2, BatchAssumption
  <2>5. /\ outcome \in [Node -> {"Ok", "ChainInconsistency", "InvalidTokenInfo"}]
        /\ issued \in Nat /\ breaks \in Nat
    BY DEF Init
  <2> QED
    BY <1>2, <2>1, <2>2, <2>3, <2>4, <2>5 DEF TypeOK
<1>4. Synced(Low)
  BY ZenonT(30), <1>2, EmptyKeeps, NodesAssumption DEF Init, Synced, Other, Node
<1>5. Chain
  BY <1>1, <1>2, <1>4 DEF Chain, Init, Node
<1>6. StaysConsistent
  BY DEF Init, StaysConsistent
<1> QED
  BY <1>3, <1>5, <1>6 DEF IInv

LEMMA TypesLemma == TypeOK => Types
BY DEF TypeOK, Types

LEMMA LinkUpStep == IInv /\ LinkUp => IInv'
<1> SUFFICES ASSUME IInv, LinkUp PROVE IInv'
  OBVIOUS
<1>1. TypeOK'
  BY DEF IInv, TypeOK, LinkUp
<1>2. Chain'
  BY LossStep, EmptyKeeps, TypesLemma DEF IInv, LinkUp
<1> QED
  BY <1>1, <1>2 DEF IInv, StaysConsistent, LinkUp

LEMMA BreakStep == IInv /\ Break => IInv'
<1> SUFFICES ASSUME IInv, Break PROVE IInv'
  OBVIOUS
<1>1. PICK i \in 0 .. Len(net[Low]), j \in 0 .. Len(net[High]) :
          net' = [n \in Node |-> SubSeq(net[n], 1, IF n = Low THEN i ELSE j)]
  BY DEF Break
<1>2. net \in [Node -> Seq(Message)]
  BY DEF IInv, TypeOK
<1>3. \A n \in Node : (IF n = Low THEN i ELSE j) \in 0 .. Len(net[n])
  BY DEF Node
<1>4. net' \in [Node -> Seq(Message)]
  BY <1>1, <1>2, <1>3, CutLemma
<1>5. TypeOK'
  <2>1. up' \in BOOLEAN /\ online' \in [Node -> BOOLEAN] /\ breaks' \in Nat
    <3>1. breaks \in Nat /\ breaks' = breaks + 1 /\ up' = FALSE
      BY DEF IInv, TypeOK, Break
    <3>2. online' \in [Node -> BOOLEAN]
      BY DEF IInv, TypeOK, Break
    <3>3. up' \in BOOLEAN
      BY <3>1, Zenon
    <3>4. breaks' \in Nat
      BY <3>1
    <3> QED
      BY <3>2, <3>3, <3>4
  <2>2. UNCHANGED <<tc, view, backwards, requests, outcome, issued, produced>>
    BY DEF Break
  <2> QED
    BY <1>4, <2>1, <2>2 DEF IInv, TypeOK
<1>6. Chain'
  BY ZenonT(30), <1>1, <1>2, <1>3, <1>4, LossStep, CutKeeps, TypesLemma DEF IInv, Break
<1> QED
  BY <1>5, <1>6 DEF IInv, StaysConsistent, Break

LEMMA CrashStep == \A n \in Node : IInv /\ Crash(n) => IInv'
<1> SUFFICES ASSUME NEW n \in Node, IInv, Crash(n) PROVE IInv'
  OBVIOUS
<1>1. PICK i \in 0 .. Len(net[Other(n)]) :
          net' = [x \in Node |-> IF x = n THEN <<>> ELSE SubSeq(net[x], 1, i)]
  BY DEF Crash
<1>2. net \in [Node -> Seq(Message)]
  BY DEF IInv, TypeOK
<1>3. \A x \in Node : x = n \/ (x = Other(n) /\ i \in 0 .. Len(net[x]))
  BY NodeLemma
<1>4. net' \in [Node -> Seq(Message)]
  BY <1>1, <1>2, <1>3, CutLemma
<1>5. TypeOK'
  <2>1. up' \in BOOLEAN /\ online' \in [Node -> BOOLEAN] /\ breaks' \in Nat
    <3>1. breaks \in Nat /\ breaks' = breaks + 1 /\ up' = FALSE
      BY DEF IInv, TypeOK, Crash
    <3>2. online' \in [Node -> BOOLEAN]
      BY DEF IInv, TypeOK, Crash
    <3>3. up' \in BOOLEAN
      BY <3>1, Zenon
    <3>4. breaks' \in Nat
      BY <3>1
    <3> QED
      BY <3>2, <3>3, <3>4
  <2>2. UNCHANGED <<tc, view, backwards, requests, outcome, issued, produced>>
    BY DEF Crash
  <2> QED
    BY <1>4, <2>1, <2>2 DEF IInv, TypeOK
<1>6. Chain'
  BY ZenonT(30), <1>1, <1>2, <1>3, <1>4, LossStep, CutKeeps, EmptyKeeps, TypesLemma DEF IInv, Crash
<1> QED
  BY <1>5, <1>6 DEF IInv, StaysConsistent, Crash

LEMMA GoOfflineStep == \A n \in Node : IInv /\ GoOffline(n) => IInv'
<1> SUFFICES ASSUME NEW n \in Node, IInv, GoOffline(n) PROVE IInv'
  OBVIOUS
<1>1. TypeOK'
  BY DEF IInv, TypeOK, GoOffline
<1>2. Chain'
  BY LossStep, TypesLemma DEF IInv, TypeOK, GoOffline
<1> QED
  BY <1>1, <1>2 DEF IInv, StaysConsistent, GoOffline

(* The variables that sending leaves alone. *)
OtherTypes ==
    /\ online \in [Node -> BOOLEAN]
    /\ up \in BOOLEAN
    /\ outcome \in [Node -> {"Ok", "ChainInconsistency", "InvalidTokenInfo"}]
    /\ breaks \in Nat
    /\ produced \in [Node -> [Kind -> Nat]]

LEMMA TypesSplit ==
    /\ TypeOK => Types /\ OtherTypes
    /\ Types' /\ OtherTypes' => TypeOK'
BY DEF TypeOK, Types, OtherTypes

(* With the direction known to be Out, only the network may change. *)
LEMMA TransmitKeepsTypes ==
    ASSUME Types, net' \in [Node -> Seq(Message)],
           UNCHANGED <<tc, view, issued>>,
           backwards' \in [Node -> Seq(Operation)], requests' \in [Node -> Seq(Operation)]
    PROVE  Types'
BY DEF Types

LEMMA GoOnlineStep == \A n \in Node : IInv /\ GoOnline(n) => IInv'
<1> SUFFICES ASSUME NEW n \in Node, IInv, GoOnline(n) PROVE IInv'
  OBVIOUS
<1>1. Types /\ OtherTypes /\ Chain
  BY TypesSplit DEF IInv
<1>2. net \in [Node -> Seq(Message)] /\ backwards[n] \in Seq(Operation) /\ requests[n] \in Seq(Operation)
      /\ tc[n].mt \in MoveToken /\ view[n] \in Seq(Operation)
  BY <1>1 DEF Types
<1>3. OtherTypes'
  <2>1. online' \in [Node -> BOOLEAN]
    BY SMTT(30), <1>1 DEF OtherTypes, GoOnline
  <2>2. UNCHANGED <<up, outcome, produced, breaks>>
    BY DEF GoOnline
  <2> QED
    BY <1>1, <2>1, <2>2 DEF OtherTypes
<1>4. StaysConsistent'
  BY DEF IInv, StaysConsistent, GoOnline
<1>5. CASE /\ tc[n].dir = "Out"
           /\ Transmit(n, backwards[n], requests[n], net)
           /\ UNCHANGED <<tc, view, backwards, requests, issued>>
  <2>1. net' \in [Node -> Seq(Message)] /\ Chain'
    BY ZenonT(30), <1>1, <1>2, <1>5, TransmitStep
  <2>2. Types'
    BY <1>1, <1>5, <2>1 DEF Types
  <2> QED
    BY SMTT(30), <1>3, <1>4, <2>1, <2>2, TypesSplit DEF IInv
<1>6. CASE /\ tc[n].dir = "In"
           /\ SendMoveToken(n, tc[n].mt, view[n], backwards[n], requests[n], net)
  <2>1. MaySend(n, tc[n].mt, view[n], net) /\ tc[n].mt.info.ops = view[n]
    BY <1>1, <1>6, HolderMaySend
  <2>2. Types' /\ Chain'
    BY <1>1, <1>2, <1>6, <2>1, SendStep
  <2> QED
    BY <1>3, <1>4, <2>2, TypesSplit DEF IInv
<1> QED
  BY <1>5, <1>6 DEF GoOnline

LEMMA ProduceStep == \A n \in Node : \A kind \in Kind : IInv /\ Produce(n, kind) => IInv'
<1> SUFFICES ASSUME NEW n \in Node, NEW kind \in Kind, IInv, Produce(n, kind) PROVE IInv'
  OBVIOUS
<1> DEFINE op == [author |-> n, num |-> produced[n][kind] + 1, kind |-> kind]
           b == IF kind = "Backwards" THEN Append(backwards[n], op) ELSE backwards[n]
           r == IF kind = "Request" THEN Append(requests[n], op) ELSE requests[n]
<1>1. Types /\ OtherTypes /\ Chain
  BY TypesSplit DEF IInv
<1>2. /\ net \in [Node -> Seq(Message)] /\ tc[n].mt \in MoveToken /\ tc[n].dir \in {"In", "Out"}
      /\ view[n] \in Seq(Operation)
      /\ backwards[n] \in Seq(Operation) /\ requests[n] \in Seq(Operation)
  BY <1>1 DEF Types
<1>3. op \in Operation
  BY <1>1 DEF OtherTypes, Operation
<1>4. b \in Seq(Operation) /\ r \in Seq(Operation)
  <2> HIDE DEF op
  <2> QED
    BY <1>2, <1>3
<1>5. OtherTypes'
  <2>1. produced' = [produced EXCEPT ![n][kind] = @ + 1] /\ UNCHANGED <<online, up, outcome, breaks>>
    BY DEF Produce
  <2>2. produced' \in [Node -> [Kind -> Nat]]
    BY <1>1, <2>1 DEF OtherTypes
  <2> QED
    BY <1>1, <2>1, <2>2 DEF OtherTypes
<1>6. StaysConsistent'
  BY DEF IInv, StaysConsistent, Produce
<1>7. CASE /\ online[n] /\ tc[n].dir = "In"
           /\ SendMoveToken(n, tc[n].mt, view[n], b, r, net)
  <2> HIDE DEF b, r
  <2>1. MaySend(n, tc[n].mt, view[n], net) /\ tc[n].mt.info.ops = view[n]
    BY SMTT(30), <1>1, <1>7, HolderMaySend
  <2>2. Types' /\ Chain'
    BY <1>1, <1>2, <1>4, <1>7, <2>1, SendStep
  <2> QED
    BY <1>5, <1>6, <2>2, TypesSplit DEF IInv
<1>8. CASE /\ ~(online[n] /\ tc[n].dir = "In")
           /\ backwards' = [backwards EXCEPT ![n] = b]
           /\ requests' = [requests EXCEPT ![n] = r]
           /\ IF online[n] THEN Transmit(n, b, r, net) ELSE net' = net
           /\ UNCHANGED <<tc, view, issued>>
  <2> HIDE DEF b, r
  <2>1. backwards' \in [Node -> Seq(Operation)] /\ requests' \in [Node -> Seq(Operation)]
    BY <1>1, <1>4, <1>8 DEF Types
  <2>2. net' \in [Node -> Seq(Message)] /\ Chain'
    <3>1. CASE online[n]
      BY ZenonT(30), <3>1, <1>1, <1>2, <1>8, TransmitStep
    <3>2. CASE ~online[n]
      BY <3>2, <1>1, <1>2, <1>8, LossStep
    <3> QED
      BY SMTT(30), <3>1, <3>2
  <2>3. Types'
    BY SMTT(30), <1>1, <1>8, <2>1, <2>2, TransmitKeepsTypes
  <2> QED
    BY <1>5, <1>6, <2>2, <2>3, TypesSplit DEF IInv
<1> QED
  BY <1>7, <1>8 DEF Produce

(* The three kinds of messages that n can receive. *)
LEMMA ReceiveCases ==
    ASSUME NEW n \in Node, Types, Chain, net[n] # <<>>
    PROVE  LET mt == Head(net[n]).mt IN
           \/ tc[n].dir = "Out" /\ WellFormed(mt) /\ mt.new = tc[n].mt.old
           \/ tc[n].dir = "In" /\ mt = tc[n].mt
           \/ /\ InTransit(Other(n)) /\ mt = tc[Other(n)].mt
              /\ Same(Tail(net[n]), tc[Other(n)].mt)
<1> DEFINE m == Other(n)
           mt == Head(net[n]).mt
<1>1. m \in Node /\ m # n /\ Other(m) = n /\ Node = {n, m}
  BY NodeLemma
<1>2. net[n] \in Seq(Message)
  BY SMTT(30) DEF Types
<1>7. \A x, token :
         /\ Same(net[n], x) => mt = x
         /\ Stale(net[n], token) => WellFormed(mt) /\ mt.new = token
         /\ StaleThenSame(net[n], token, x) =>
                \/ mt = x /\ Same(Tail(net[n]), x)
                \/ WellFormed(mt) /\ mt.new = token
  BY ZenonT(30), <1>2, TailKeeps
<1> HIDE DEF m, mt
<1>3. CASE Synced(n)
  BY ZenonT(30), <1>3, <1>7 DEF Synced, mt
<1>4. CASE Synced(m)
  <2>1. tc[n].dir = "In" /\ tc[m].mt = tc[n].mt /\ Same(net[n], tc[m].mt)
    BY <1>1, <1>4 DEF Synced
  <2> QED
    BY ZenonT(30), <1>7, <2>1 DEF mt
<1>5. CASE InTransit(n)
  <2>1. Same(net[n], tc[m].mt) /\ tc[n].dir = "Out" /\ tc[n].mt.old = tc[m].mt.new
    BY <1>5 DEF InTransit, m
  <2>2. mt = tc[m].mt
    BY ZenonT(30), <1>7, <2>1
  <2>3. WellFormed(tc[m].mt)
    BY <1>1 DEF Chain
  <2> QED
    BY <2>1, <2>2, <2>3 DEF mt
<1>6. CASE InTransit(m)
  <2>1. StaleThenSame(net[n], tc[n].mt.old, tc[m].mt) /\ tc[n].dir = "Out"
    BY <1>1, <1>6 DEF InTransit
  <2> QED
    BY <1>6, <1>7, <2>1 DEF m, mt
<1> QED
  BY <1>1, <1>3, <1>4, <1>5, <1>6 DEF Chain

LEMMA ReceiveStep == \A n \in Node : IInv /\ Receive(n) => IInv'
<1> SUFFICES ASSUME NEW n \in Node, IInv, Receive(n) PROVE IInv'
  OBVIOUS
<1> DEFINE m == Other(n)
           msg == Head(net[n])
           from == [net EXCEPT ![n] = Tail(@)]
           class == Classify(tc[n], view[n], msg.mt)
<1>1. Types /\ OtherTypes /\ Chain
  BY TypesSplit DEF IInv
<1>2. m \in Node /\ m # n /\ Other(m) = n /\ Node = {n, m}
  BY SMTT(30), NodeLemma
<1>3. /\ net \in [Node -> Seq(Message)] /\ net[n] # <<>>
      /\ tc[n] \in [dir : {"In", "Out"}, mt : MoveToken] /\ tc[n].mt \in MoveToken
      /\ view[n] \in Seq(Operation)
      /\ backwards[n] \in Seq(Operation) /\ requests[n] \in Seq(Operation)
  BY <1>1 DEF Types, Receive
<1>4. /\ msg \in Message /\ msg.mt \in MoveToken /\ WellFormed(tc[n].mt)
      /\ tc[n].mt.info.ops = view[n]
  BY ZenonT(30), <1>1, <1>3, TailLemma DEF Message, Chain
<1>5. /\ from \in [Node -> Seq(Message)]
      /\ from[n] = Tail(net[n]) /\ from[m] = net[m]
  BY <1>2, <1>3, TailLemma
<1>6. \A x \in Node : \A mt, token :
          /\ Same(net[x], mt) => Same(from[x], mt)
          /\ Stale(net[x], token) => Stale(from[x], token)
          /\ StaleThenSame(net[x], token, mt) => StaleThenSame(from[x], token, mt)
  BY SMTT(30), <1>2, <1>3, <1>5, TailKeeps
<1>7. /\ \/ class = "Received" /\ HandleReceived(n, msg, from) /\ UNCHANGED outcome
         \/ class = "Duplicate" /\ HandleDuplicate(n, msg, from) /\ UNCHANGED outcome
         \/ class = "RetransmitOutgoing" /\ HandleRetransmit(n, from) /\ UNCHANGED outcome
         \/ class \in {"ChainInconsistency", "InvalidTokenInfo"} /\ HandleError(n, class, from)
      /\ UNCHANGED <<online, up, produced, breaks>>
  BY DEF Receive
<1> HIDE DEF from, class
<1>8. ASSUME UNCHANGED outcome, Types', Chain' PROVE IInv'
  <2>1. OtherTypes'
    BY <1>1, <1>7, <1>8 DEF OtherTypes
  <2>2. StaysConsistent'
    BY <1>8 DEF IInv, StaysConsistent
  <2> QED
    BY <1>8, <2>1, <2>2, TypesSplit DEF IInv
<1>9. CASE tc[n].dir = "Out" /\ WellFormed(msg.mt) /\ msg.mt.new = tc[n].mt.old
  <2>1. class = "RetransmitOutgoing"
    BY SMTT(30), <1>3, <1>4, <1>9, ClassifyLemma DEF class
  <2>2. /\ Transmit(n, backwards[n], requests[n], from)
        /\ UNCHANGED <<tc, view, backwards, requests, issued>> /\ UNCHANGED outcome
    BY <1>7, <2>1 DEF HandleRetransmit
  <2>3. net' \in [Node -> Seq(Message)] /\ Chain'
    BY ZenonT(30), <1>1, <1>5, <1>6, <1>9, <2>2, TransmitStep
  <2>4. Types'
    BY <1>1, <2>2, <2>3 DEF Types
  <2> QED
    BY SMTT(30), <1>8, <2>2, <2>3, <2>4
<1>10. CASE tc[n].dir = "In" /\ msg.mt = tc[n].mt
  <2>1. class = "Duplicate"
    BY <1>3, <1>4, <1>10, ClassifyLemma DEF class
  <2>2. HandleDuplicate(n, msg, from) /\ UNCHANGED outcome
    BY <1>7, <2>1
  <2>3. CASE msg.token_wanted
    <3>1. SendMoveToken(n, tc[n].mt, view[n], backwards[n], requests[n], from)
      BY <2>2, <2>3 DEF HandleDuplicate
    <3>2. MaySend(n, tc[n].mt, view[n], net)
      BY <1>1, <1>10, HolderMaySend
    <3>3. MaySend(n, tc[n].mt, view[n], from)
      BY SMTT(30), <1>2, <1>6, <3>2 DEF MaySend
    <3>4. Types' /\ Chain'
      BY <1>1, <1>3, <1>4, <1>5, <3>1, <3>3, SendStep
    <3> QED
      BY <1>8, <2>2, <3>4
  <2>4. CASE ~msg.token_wanted
    <3>1. net' = from /\ UNCHANGED <<tc, view, backwards, requests, issued>>
      BY <2>2, <2>4 DEF HandleDuplicate
    <3>2. Chain'
      BY <1>1, <1>5, <1>6, <3>1, LossStep
    <3>3. Types'
      BY <1>1, <1>5, <3>1 DEF Types
    <3> QED
      BY <1>8, <2>2, <3>2, <3>3
  <2> QED
    BY <2>3, <2>4
<1>11. CASE InTransit(m) /\ msg.mt = tc[m].mt /\ Same(Tail(net[n]), tc[m].mt)
  <2> DEFINE v == view[n] \o msg.mt.batch
  <2>1. /\ tc[n].dir = "Out" /\ tc[m].dir = "Out" /\ msg.mt.old = tc[n].mt.new
        /\ msg.mt.info.count = tc[n].mt.info.count + 1
        /\ view[m] = v /\ msg.mt.info.ops = v
        /\ Same(from[n], msg.mt) /\ Same(from[m], tc[n].mt)
    <3>1. /\ tc[n].dir = "Out" /\ tc[m].dir = "Out" /\ tc[m].mt.old = tc[n].mt.new
          /\ tc[m].mt.info.count = tc[n].mt.info.count + 1
          /\ view[m] = view[n] \o tc[m].mt.batch /\ Same(net[m], tc[n].mt)
      BY <1>2, <1>11 DEF InTransit
    <3>2. tc[m].mt.info.ops = view[m]
      BY SMTT(30), <1>1, <1>2 DEF Chain
    <3>3. Same(from[n], msg.mt) /\ Same(from[m], tc[n].mt)
      BY <1>2, <1>5, <1>6, <1>11, <3>1
    <3> QED
      BY ZenonT(30), <1>11, <3>1, <3>2, <3>3
  <2>2. class = "Received"
    <3> HIDE DEF msg, m
    <3>1. Continues(tc[n], view[n], msg.mt)
      BY <2>1 DEF Continues
    <3>2. Classify(tc[n], view[n], msg.mt) = "Received"
      BY <1>3, <1>4, <3>1, ClassifyLemma
    <3> QED
      BY <3>2 DEF class
  <2>3. HandleReceived(n, msg, from) /\ UNCHANGED outcome
    BY <1>7, <2>2
  <2>4. v \in Seq(Operation)
    BY SMTT(30), <1>3, <1>4, FieldsLemma
  <2>5. Stale(from[m], msg.mt.old)
    BY ZenonT(30), <1>4, <2>1 DEF Same, Stale
  <2>6. CASE IsPending(backwards[n], requests[n]) \/ msg.token_wanted
    <3>1. SendMoveToken(n, msg.mt, v, backwards[n], requests[n], from)
      BY ZenonT(30), <2>3, <2>6 DEF HandleReceived
    <3> HIDE DEF v
    <3>2. MaySend(n, msg.mt, v, from)
      BY <1>11, <2>1, <2>5 DEF MaySend
    <3>3. Types' /\ Chain'
      BY ZenonT(30), <1>1, <1>3, <1>4, <1>5, <2>1, <2>4, <3>1, <3>2, SendStep
    <3> QED
      BY <1>8, <2>3, <3>3
  <2>7. CASE ~(IsPending(backwards[n], requests[n]) \/ msg.token_wanted)
    <3>1. /\ tc' = [tc EXCEPT ![n] = DirectionOf("In", msg.mt)]
          /\ view' = [view EXCEPT ![n] = v]
          /\ net' = from
          /\ UNCHANGED <<backwards, requests, issued>>
      BY ZenonT(30), <2>3, <2>7 DEF HandleReceived
    <3> HIDE DEF v
    <3>2. /\ tc'[n].dir = "In" /\ tc'[n].mt = msg.mt /\ tc'[m] = tc[m]
          /\ view'[n] = v /\ view'[m] = view[m]
      BY <1>1, <1>2, <3>1 DEF Types, DirectionOf
    <3>3. Synced(m)'
      BY ZenonT(30), <1>2, <1>11, <2>1, <2>5, <3>1, <3>2 DEF Synced
    <3>4. \A x \in Node : /\ WellFormed(tc'[x].mt)
                          /\ tc'[x].mt.info.ops = view'[x]
                          /\ tc'[x].mt.new <= issued'
      <4>1. issued' = issued
        BY <3>1
      <4>2. WellFormed(tc[m].mt) /\ tc[m].mt.new <= issued
        BY SMTT(30), <1>1, <1>2 DEF Chain
      <4>3. WellFormed(tc'[n].mt) /\ tc'[n].mt.info.ops = view'[n] /\ tc'[n].mt.new <= issued'
        BY <1>11, <2>1, <3>2, <4>1, <4>2
      <4>4. WellFormed(tc'[m].mt) /\ tc'[m].mt.info.ops = view'[m] /\ tc'[m].mt.new <= issued'
        BY SMTT(30), <1>1, <1>2, <3>2, <4>1 DEF Chain
      <4> QED
        BY <1>2, <4>3, <4>4
    <3>5. tc' \in [Node -> [dir : {"In", "Out"}, mt : MoveToken]]
      BY SMTT(30), <1>1, <1>4, <3>1 DEF Types, DirectionOf
    <3>6. \A x \in Node : Len(tc'[x].mt.batch) <= MaxBatch
      BY <1>1, <1>2, <1>11, <3>2 DEF Types
    <3>7. Types'
      BY <1>1, <1>5, <2>4, <3>1, <3>5, <3>6 DEF Types
    <3> QED
      BY SMTT(30), <1>2, <1>8, <2>3, <3>3, <3>4, <3>7 DEF Chain
  <2> QED
    BY SMTT(30), <2>6, <2>7
<1> QED
  BY <1>1, <1>3, <1>9, <1>10, <1>11, ReceiveCases

LEMMA NextIInv == IInv /\ [Next]_vars => IInv'
<1> SUFFICES ASSUME IInv, [Next]_vars PROVE IInv'
  BY SMTT(30)
<1>1. CASE UNCHANGED vars
  BY ZenonT(30), <1>1 DEF vars, IInv, TypeOK, Chain, Synced, InTransit, StaysConsistent
<1>2. CASE Next
  BY <1>2, LinkUpStep, BreakStep, GoOnlineStep, GoOfflineStep, CrashStep, ReceiveStep,
     ProduceStep DEF Next
<1> QED
  BY <1>1, <1>2

LEMMA IInvHolds == Spec => []IInv
BY InitIInv, NextIInv, PTL DEF Spec

(* The variables of the model keep their types, and no move token carries   *)
(* more operations than max_operations_in_batch.                            *)
THEOREM TypeCorrect == Spec => []TypeOK
BY IInvHolds, PTL DEF IInv

(* simulate_receive_move_token never finds two correct friends inconsistent,*)
(* however often messages are lost, repeated or overtaken.                  *)
THEOREM Consistent == Spec => []StaysConsistent
BY IInvHolds, PTL DEF IInv

(* The token is held by at most one side, and the holder has seen all.      *)
THEOREM HolderKnowsAll == Spec => []HolderIsUpToDate
<1>1. IInv => HolderIsUpToDate
  <2> SUFFICES ASSUME IInv PROVE HolderIsUpToDate
    OBVIOUS
  <2>1. PICK n \in Node : Synced(n) \/ InTransit(n)
    BY DEF IInv, Chain
  <2>2. Other(n) \in Node /\ Node = {n, Other(n)} /\ Node = {Low, High}
    BY NodeLemma DEF Node
  <2> QED
    BY ZenonT(30), <2>1, <2>2 DEF HolderIsUpToDate, Synced, InTransit
<1> QED
  BY <1>1, IInvHolds, PTL
-------------------------------------------------------------------------------
(* A step changes the channel of at most one side n, and then forward. *)
Moves(n) ==
    /\ tc'[Other(n)] = tc[Other(n)] /\ view'[Other(n)] = view[Other(n)]
    /\ \/ tc'[n] = tc[n] /\ view'[n] = view[n]
       \/ tc'[n].mt.info.count > tc[n].mt.info.count

LEMMA SendMoves ==
    ASSUME NEW n \in Node, IInv, NEW mt \in MoveToken, NEW v, NEW b, NEW r, NEW from,
           mt.info.count >= tc[n].mt.info.count, SendMoveToken(n, mt, v, b, r, from)
    PROVE  Moves(n)
<1>1. Other(n) \in Node /\ Other(n) # n
  BY SMTT(30), NodeLemma
<1>2. /\ tc \in [Node -> [dir : {"In", "Out"}, mt : MoveToken]]
      /\ view \in [Node -> Seq(Operation)] /\ tc[n].mt \in MoveToken
  BY SMTT(30) DEF IInv, TypeOK
<1>3. PICK old, token, batch, ops :
          /\ tc' = [tc EXCEPT ![n] = Outgoing(MoveTokenOf(old, token, batch,
                                                InfoOf(mt.info.count + 1, ops)))]
          /\ view' = [view EXCEPT ![n] = ops]
  BY ZenonT(30) DEF SendMoveToken
<1>4. tc'[n].mt.info.count = mt.info.count + 1
  BY <1>2, <1>3 DEF Outgoing, DirectionOf, MoveTokenOf, InfoOf
<1>5. mt.info.count \in Nat /\ tc[n].mt.info.count \in Nat
  BY <1>2, FieldsLemma
<1>6. tc'[n].mt.info.count > tc[n].mt.info.count
  BY SMTT(30), <1>4, <1>5
<1>7. tc'[Other(n)] = tc[Other(n)] /\ view'[Other(n)] = view[Other(n)]
  BY <1>1, <1>2, <1>3
<1> QED
  BY <1>6, <1>7 DEF Moves

LEMMA NextMoves == IInv /\ Next => \E n \in Node : Moves(n)
<1> SUFFICES ASSUME IInv, Next PROVE \E n \in Node : Moves(n)
  OBVIOUS
<1>1. ASSUME UNCHANGED <<tc, view>> PROVE \A n \in Node : Moves(n)
  BY <1>1 DEF Moves
<1>2. Low \in Node
  BY SMTT(30) DEF Node
<1>3. /\ tc \in [Node -> [dir : {"In", "Out"}, mt : MoveToken]]
      /\ view \in [Node -> Seq(Operation)] /\ net \in [Node -> Seq(Message)]
      /\ \A n \in Node : tc[n].mt \in MoveToken /\ tc[n].mt.info.count \in Nat
  BY FieldsLemma DEF IInv, TypeOK
<1>9. \A n \in Node : tc[n].mt \in MoveToken /\ tc[n].mt.info.count >= tc[n].mt.info.count
  BY <1>3
<1>4. CASE LinkUp \/ Break
  BY <1>1, <1>2, <1>4 DEF LinkUp, Break
<1>5. ASSUME NEW n \in Node, GoOffline(n) \/ Crash(n) PROVE Moves(n)
  BY SMTT(30), <1>1, <1>5 DEF GoOffline, Crash
<1>6. ASSUME NEW n \in Node, GoOnline(n) PROVE Moves(n)
  <2>1. CASE SendMoveToken(n, tc[n].mt, view[n], backwards[n], requests[n], net)
    BY SMTT(30), <1>9, <2>1, SendMoves
  <2> QED
    BY <1>1, <1>6, <2>1 DEF GoOnline
<1>7. ASSUME NEW n \in Node, NEW kind \in Kind, Produce(n, kind) PROVE Moves(n)
  <2>1. \/ UNCHANGED <<tc, view>>
        \/ \E b, r : SendMoveToken(n, tc[n].mt, view[n], b, r, net)
    BY <1>7, Zenon DEF Produce
  <2>2. ASSUME NEW b, NEW r, SendMoveToken(n, tc[n].mt, view[n], b, r, net) PROVE Moves(n)
    BY SMTT(30), <1>9, <2>2, SendMoves
  <2> QED
    BY <1>1, <2>1, <2>2
<1>8. ASSUME NEW n \in Node, Receive(n) PROVE Moves(n)
  <2> DEFINE msg == Head(net[n])
             from == [net EXCEPT ![n] = Tail(@)]
             class == Classify(tc[n], view[n], msg.mt)
             v == view[n] \o msg.mt.batch
  <2>1. \/ class = "Received" /\ HandleReceived(n, msg, from)
        \/ HandleDuplicate(n, msg, from)
        \/ HandleRetransmit(n, from)
        \/ HandleError(n, class, from)
    BY <1>8 DEF Receive
  <2>2. CASE UNCHANGED <<tc, view>>
    BY SMTT(30), <1>1, <2>2
  <2>3. CASE SendMoveToken(n, tc[n].mt, view[n], backwards[n], requests[n], from)
    BY SMTT(30), <1>9, <2>3, SendMoves
  <2>4. CASE class = "Received" /\ HandleReceived(n, msg, from)
    <3>1. net[n] \in Seq(Message) /\ net[n] # <<>>
      BY <1>3, <1>8 DEF Receive
    <3>2. msg.mt \in MoveToken /\ msg.mt.info.count \in Nat
      BY ZenonT(30), <3>1, TailLemma, FieldsLemma DEF Message
    <3>3. msg.mt.info = InfoOf(tc[n].mt.info.count + 1, v)
      BY <1>3, <2>4 DEF Classify
    <3>4. msg.mt.info.count = tc[n].mt.info.count + 1
      BY <3>3 DEF InfoOf
    <3>5. CASE SendMoveToken(n, msg.mt, v, backwards[n], requests[n], from)
      BY SMTT(30), <1>3, <3>2, <3>4, <3>5, SendMoves
    <3>6. CASE /\ tc' = [tc EXCEPT ![n] = DirectionOf("In", msg.mt)]
               /\ view' = [view EXCEPT ![n] = v]
      <4>1. tc'[n].mt.info.count = msg.mt.info.count
        BY <1>3, <3>6 DEF DirectionOf
      <4> HIDE DEF msg, v
      <4> QED
        BY SMTT(30), <1>3, <3>4, <3>6, <4>1, NodeLemma DEF Moves
    <3> QED
      BY ZenonT(30), <2>4, <3>5, <3>6 DEF HandleReceived
  <2>5. CASE HandleDuplicate(n, msg, from)
    BY ZenonT(30), <2>2, <2>3, <2>5 DEF HandleDuplicate
  <2>6. CASE HandleRetransmit(n, from)
    BY ZenonT(30), <2>2, <2>6 DEF HandleRetransmit
  <2>7. CASE HandleError(n, class, from)
    BY ZenonT(30), <2>2, <2>7 DEF HandleError
  <2> QED
    BY ZenonT(30), <2>1, <2>4, <2>5, <2>6, <2>7
<1> QED
  BY <1>4, <1>5, <1>6, <1>7, <1>8 DEF Next

(* After n sent the token it is its friend's turn, and n knows the log. *)
Ahead(n) == Synced(n) \/ InTransit(n)

TurnIsKnown == Types => \A n \in Node : Ahead(n) => Turn = Other(n)

LEMMA TurnLemma == TurnIsKnown
<1> SUFFICES ASSUME Types, NEW n \in Node, Ahead(n) PROVE Turn = Other(n)
  BY DEF TurnIsKnown
<1>1. \A x \in Node : tc[x].mt.info.count \in Nat
  BY FieldsLemma DEF Types
<1>2. n = Low \/ n = High
  BY DEF Node
<1>3. Other(Low) = High /\ Other(High) = Low /\ Low \in Node /\ High \in Node
  BY SMTT(30), NodesAssumption DEF Node, Other
<1>4. CASE Synced(n)
  BY <1>2, <1>3, <1>4 DEF Synced, Turn
<1>5. CASE InTransit(n)
  <2>1. /\ tc[Low].dir = "Out" /\ tc[High].dir = "Out"
        /\ tc[n].mt.info.count = tc[Other(n)].mt.info.count + 1
    BY <1>2, <1>3, <1>5 DEF InTransit
  <2>2. CASE n = Low
    BY <1>1, <1>3, <2>1, <2>2 DEF Turn
  <2>3. CASE n = High
    BY <1>1, <1>3, <2>1, <2>3 DEF Turn
  <2> QED
    BY SMTT(30), <1>2, <2>2, <2>3
<1> QED
  BY <1>4, <1>5 DEF Ahead

LEMMA RefinesInit == Init => Log!Init
<1> SUFFICES ASSUME Init PROVE Log!Init
  OBVIOUS
<1>1. /\ Turn = High /\ Other(High) = Low /\ Low \in Node /\ High \in Node
  BY NodesAssumption DEF Init, Turn, DirectionOf, Node, Other
<1>2. view[Low] = <<>> /\ \A n \in Node : Len(view[n]) = 0
  BY SMTT(30), <1>1 DEF Init
<1> QED
  BY SMTT(30), <1>1, <1>2 DEF Log!Init

LEMMA RefinesStep ==
    IInv /\ IInv' /\ [Next]_vars =>
        [Log!Next]_<<view[Other(Turn)], [n \in Node |-> Len(view[n])], Turn>>
<1> DEFINE seen == [x \in Node |-> Len(view[x])]
<1> SUFFICES ASSUME IInv, IInv', [Next]_vars
             PROVE  Log!Next \/ UNCHANGED <<view[Other(Turn)], seen, Turn>>
  BY SMTT(30)
<1>1. CASE UNCHANGED vars
  BY <1>1 DEF vars, Turn
<1>2. CASE Next
  <2>1. PICK n \in Node : Moves(n)
    BY <1>2, NextMoves
  <2> DEFINE m == Other(n)
  <2>2. m \in Node /\ m # n /\ Other(m) = n /\ Node = {n, m}
    BY NodeLemma
  <2>3. Types /\ Types' /\ (\E x \in Node : Ahead(x)) /\ (\E x \in Node : Ahead(x)')
    <3>1. Types /\ \E x \in Node : Ahead(x)
      BY TypesSplit DEF IInv, Chain, Ahead
    <3>2. TypeOK' /\ Chain'
      BY DEF IInv
    <3>3. Types'
      BY <3>2 DEF TypeOK, Types
    <3> QED
      BY SMTT(30), <3>1, <3>2, <3>3 DEF Chain, Ahead
  <2>5. TurnIsKnown'
    BY TurnLemma, PTL
  <2>4. \A x \in Node : /\ Ahead(x) => Turn = Other(x)
                        /\ Ahead(x)' => Turn' = Other(x)
    BY <2>3, <2>5, TurnLemma DEF TurnIsKnown
  <2> HIDE DEF m
  <2>6. /\ tc \in [Node -> [dir : {"In", "Out"}, mt : MoveToken]]
        /\ tc' \in [Node -> [dir : {"In", "Out"}, mt : MoveToken]]
        /\ view \in [Node -> Seq(Operation)] /\ view' \in [Node -> Seq(Operation)]
    BY ZenonT(30), <2>3 DEF Types
  <2>7. /\ tc[n].mt.info.count \in Nat /\ tc[m].mt.info.count \in Nat
        /\ tc'[n].mt.info.count \in Nat /\ tc'[n].mt.batch \in Seq(Operation)
    BY <2>2, <2>6, FieldsLemma
  <2>8. /\ tc'[m] = tc[m] /\ view'[m] = view[m]
        /\ \/ tc'[n] = tc[n] /\ view'[n] = view[n]
           \/ tc'[n].mt.info.count > tc[n].mt.info.count
    BY <2>1 DEF Moves, m
  <2>9. CASE tc'[n] = tc[n] /\ view'[n] = view[n]
    <3>1. tc' = tc /\ view' = view
      BY SMTT(30), <2>2, <2>6, <2>8, <2>9
    <3> QED
      BY <3>1 DEF Turn
  <2>10. CASE tc'[n].mt.info.count > tc[n].mt.info.count
    <3>1. /\ Synced(n) => /\ tc[m].dir = "In" /\ tc[n].mt = tc[m].mt
          /\ InTransit(n) => /\ tc[m].dir = "Out"
                             /\ tc[n].mt.info.count = tc[m].mt.info.count + 1
          /\ Synced(m) => tc[m].dir = "Out"
          /\ InTransit(m) => tc[m].dir = "Out"
      BY ZenonT(30), <2>2 DEF Synced, InTransit, m
    <3>2. /\ Synced(n)' => tc[m].dir = "In" /\ tc'[n].mt = tc[m].mt
          /\ InTransit(n)' => /\ tc[m].dir = "Out" /\ view'[n] = view[m] \o tc'[n].mt.batch
                              /\ tc'[n].mt.info.count = tc[m].mt.info.count + 1
          /\ Synced(m)' => tc'[n].mt = tc[m].mt /\ view'[n] = view[m]
          /\ InTransit(m)' => tc[m].mt.info.count = tc'[n].mt.info.count + 1
      BY ZenonT(30), <2>2, <2>8 DEF Synced, InTransit, m
    <3>3. /\ Synced(m) => tc[n].mt = tc[m].mt
          /\ InTransit(m) => tc[m].mt.info.count = tc[n].mt.info.count + 1
      BY ZenonT(30), <2>2 DEF Synced, InTransit
    <3>4. Ahead(m) /\ (InTransit(n)' \/ Synced(m)')
      <4>1. /\ Synced(n) \/ InTransit(n) \/ Synced(m) \/ InTransit(m)
            /\ Synced(n)' \/ InTransit(n)' \/ Synced(m)' \/ InTransit(m)'
        BY <2>2, <2>3, Zenon DEF Ahead
      <4> DEFINE c == tc[n].mt.info.count
                 d == tc'[n].mt.info.count
                 k == tc[m].mt.info.count
      <4>4. /\ c \in Nat /\ d \in Nat /\ k \in Nat /\ d > c
            /\ Synced(n) => c = k
            /\ InTransit(n) => c = k + 1
            /\ Synced(n)' => d = k
            /\ InTransit(n)' => d = k + 1
            /\ Synced(m)' => d = k
            /\ InTransit(m)' => k = d + 1
            /\ Synced(m) => c = k
            /\ InTransit(m) => k = c + 1
            /\ ~(Synced(n) /\ InTransit(n)')
            /\ ~(Synced(n)' /\ (Synced(m) \/ InTransit(m)))
        BY ZenonT(30), <2>7, <2>10, <3>1, <3>2, <3>3
      <4> HIDE DEF c, d, k
      <4>2. ~Synced(n) /\ ~InTransit(n)
        <5>1. Synced(n) => c = k /\ (d = k \/ k = d + 1)
          BY <4>1, <4>4, Zenon
        <5>2. InTransit(n) => c = k + 1 /\ (d = k \/ d = k + 1 \/ k = d + 1)
          BY <4>1, <4>4, Zenon
        <5> QED
          BY <4>4, <5>1, <5>2
      <4>3. ~Synced(n)' /\ ~InTransit(m)'
        <5>1. ~Synced(n)'
          BY <4>1, <4>2, <4>4, Zenon
        <5>2. InTransit(m)' => k = d + 1 /\ (c = k \/ k = c + 1)
          BY <4>1, <4>2, <4>4, Zenon
        <5> QED
          BY <4>4, <5>1, <5>2
      <4> QED
        BY <4>1, <4>2, <4>3 DEF Ahead
    <3>5. Turn = n /\ view[Other(Turn)] = view[m]
      BY <2>2, <2>4, <3>4 DEF m
    <3>6. seen' = [seen EXCEPT ![n] = Len(view'[n])]
      BY ZenonT(30), <2>2, <2>6, <2>8
    <3>7. CASE InTransit(n)'
      <4>1. Turn' = m /\ (view[Other(Turn)])' = view'[n]
        BY SMTT(30), <2>2, <2>4, <3>7 DEF Ahead, m
      <4>2. /\ view'[n] \in Seq(Operation) /\ Len(view[m]) <= Len(view'[n])
            /\ view[m] = SubSeq(view'[n], 1, Len(view[m]))
        BY <2>2, <2>6, <2>7, <3>2, <3>7
      <4>3. Log!Write(n)
        BY SMTT(30), <2>2, <3>5, <3>6, <4>1, <4>2 DEF Log!Write
      <4> QED
        BY <4>3 DEF Log!Next
    <3>8. CASE Synced(m)'
      <4>1. Turn' = n /\ (view[Other(Turn)])' = view[m]
        BY SMTT(30), <2>2, <2>4, <2>8, <3>8 DEF Ahead, m
      <4>2. Log!Learn(n)
        BY ZenonT(30), <2>2, <3>2, <3>5, <3>6, <3>8, <4>1 DEF Log!Learn
      <4> QED
        BY <4>2 DEF Log!Next
    <3> QED
      BY SMTT(30), <3>4, <3>7, <3>8
  <2> QED
    BY <2>8, <2>9, <2>10
<1> QED
  BY SMTT(30), <1>1, <1>2

(* The move token protocol implements the shared log of TokenLog: whatever  *)
(* is lost, repeated or overtaken, both funders apply the same operations   *)
(* in the same order.                                                       *)
THEOREM Refinement == Spec => ImplementsTokenLog
BY IInvHolds, NextIInv, RefinesInit, RefinesStep, PTL DEF Spec, ImplementsTokenLog, Log!Spec
===============================================================================
