--------------------------- MODULE VerifierProofs ---------------------------
(***************************************************************************)
(* The verifier accepts the messages of a session in order until it        *)
(* accepts one of another session, for every number of ticks to live, of   *)
(* nodes and of sessions.                                                  *)
(***************************************************************************)
EXTENDS Verifier, TLAPS

Ratchet == [session : SESSIONS, counter : Nat, ttl : Nat]
Message == [session : SESSIONS, counter : Counters]

Types ==
  /\ now \in Nat
  /\ ratchet \in [NODES -> Ratchet]
  /\ stamp \in [NODES -> [SESSIONS -> [Counters -> Nat]]]
  /\ heard \in [NODES -> Seq(Message)]

\* Later messages of a session bear later time hashes.
Monotonic ==
  \A n \in NODES, s \in SESSIONS, c, d \in Counters :
    d < c /\ stamp[n][s][c] > 0
    => stamp[n][s][d] > 0 /\ stamp[n][s][d] <= stamp[n][s][c]

\* A message is out of date, or the ratchet remembers it for at least as long
\* as its hash is kept.
Remembered(n, s, c) ==
  \/ stamp[n][s][c] + TICKS_TO_LIVE <= now
  \/ /\ ratchet[n].ttl > 0
     /\ ratchet[n].session = s
     /\ ratchet[n].counter >= c
     /\ stamp[n][s][c] + TICKS_TO_LIVE <= now + ratchet[n].ttl

\* No message of another session was accepted after the i-th.
Current(n, i) == \A k \in DOMAIN heard[n] : i <= k => heard[n][k].session = heard[n][i].session

\* So is every message since the last one of another session.
AllRemembered ==
  \A n \in NODES, s \in SESSIONS, c \in Counters : \A i \in DOMAIN heard[n] :
    heard[n][i] = [session |-> s, counter |-> c]
    => stamp[n][s][c] > 0 /\ (Current(n, i) => Remembered(n, s, c))

IInv == Types /\ Monotonic /\ AllRemembered /\ AcceptedInOrder

\* The messages accepted are messages.
LEMMA HeardMessages ==
  ASSUME Types, NEW n \in NODES, NEW i \in DOMAIN heard[n]
  PROVE  \E s \in SESSIONS, c \in Counters : heard[n][i] = [session |-> s, counter |-> c]
<1>1. heard[n] \in Seq(Message)
  BY DEF Types
<1>2. heard[n][i] \in Message
  BY <1>1, SMT
<1> QED
  BY <1>2 DEF Message

\* Init establishes the inductive invariant.
LEMMA InitIInv == Init => IInv
<1>1. SUFFICES ASSUME Init PROVE IInv
  OBVIOUS
<1>2. PICK s \in SESSIONS :
        ratchet = [n \in NODES |-> [session |-> s, counter |-> 0, ttl |-> 0]]
  BY <1>1 DEF Init, InitAt
<1>3. \A n \in NODES, t \in SESSIONS, c \in Counters : stamp[n][t][c] = 0
  BY <1>1 DEF Init, InitAt
<1>4. Types
  <2>1. ratchet \in [NODES -> Ratchet]
    BY <1>2 DEF Ratchet
  <2>2. stamp \in [NODES -> [SESSIONS -> [Counters -> Nat]]]
    BY <1>1 DEF Init, InitAt
  <2> QED
    BY <1>1, <2>1, <2>2 DEF Init, InitAt, Types
<1>5. Monotonic
  BY <1>3, SMT DEF Monotonic
<1>6. \A n \in NODES : DOMAIN heard[n] = {}
  <2>1. DOMAIN <<>> = {}
    OBVIOUS
  <2>2. \A n \in NODES : heard[n] = <<>>
    BY <1>1 DEF Init, InitAt
  <2> QED
    BY <2>1, <2>2
<1> QED
  BY <1>4, <1>5, <1>6 DEF IInv, AllRemembered, AcceptedInOrder

\* Signing a message keeps it: the stamps of what was sent before stay.
LEMMA SendIInv ==
  ASSUME NEW n \in NODES, NEW s \in SESSIONS, NEW c \in Counters,
         NEW k \in 1 .. MAX_TICK, IInv, Send(n, s, c, k)
  PROVE  IInv'
<1>1. k \in Nat /\ k > 0 /\ Counters \subseteq Int
  BY SMT DEF Counters
<1>2. /\ stamp' \in [NODES -> [SESSIONS -> [Counters -> Nat]]]
      /\ \A m \in NODES, t \in SESSIONS, d \in Counters :
           stamp'[m][t][d] = IF m = n /\ t = s /\ d = c THEN k ELSE stamp[m][t][d]
  BY <1>1, SMTT(30) DEF IInv, Types, Send
<1>3. Types'
  BY <1>2 DEF IInv, Types, Send
<1>4. Monotonic'
  <2>1. SUFFICES ASSUME NEW m \in NODES, NEW t \in SESSIONS,
                        NEW e \in Counters, NEW d \in Counters,
                        d < e, stamp'[m][t][e] > 0
                 PROVE  stamp'[m][t][d] > 0 /\ stamp'[m][t][d] <= stamp'[m][t][e]
    BY DEF Monotonic
  <2>2. CASE m = n /\ t = s /\ e = c
    BY <1>1, <1>2, <2>1, <2>2, SMT DEF Send
  <2>3. CASE ~(m = n /\ t = s /\ e = c)
    <3>1. stamp[m][t][e] > 0
      BY <1>2, <2>1, <2>3
    <3>2. stamp[m][t][d] > 0 /\ stamp[m][t][d] <= stamp[m][t][e]
      BY <2>1, <3>1 DEF IInv, Monotonic
    <3>3. ~(m = n /\ t = s /\ d = c)
      BY <3>2 DEF Send
    <3> QED
      BY <1>2, <2>3, <3>2, <3>3
  <2> QED
    BY <2>2, <2>3
<1>5. AllRemembered'
  <2>1. heard' = heard /\ now' = now /\ ratchet' = ratchet
    BY DEF Send
  <2>2. SUFFICES ASSUME NEW m \in NODES, NEW t \in SESSIONS, NEW d \in Counters,
                        NEW i \in DOMAIN heard[m],
                        heard[m][i] = [session |-> t, counter |-> d]
                 PROVE  stamp'[m][t][d] > 0 /\ (Current(m, i) => Remembered(m, t, d)')
    BY <2>1 DEF AllRemembered, Current
  <2>3. stamp[m][t][d] > 0 /\ (Current(m, i) => Remembered(m, t, d))
    BY <2>2 DEF IInv, AllRemembered
  <2>4. stamp'[m][t][d] = stamp[m][t][d]
    BY <1>2, <2>3 DEF Send
  <2>5. Remembered(m, t, d) => Remembered(m, t, d)'
    BY <2>1, <2>4 DEF Remembered
  <2> QED
    BY <2>3, <2>4, <2>5
<1> QED
  BY <1>3, <1>4, <1>5 DEF IInv, AcceptedInOrder, OneSession, Send

\* A tick ages the ratchets and the hashes by the same amount.
LEMMA TickIInv ==
  ASSUME IInv, tick
  PROVE  IInv'
<1>1. Types'
  BY SMTT(30) DEF IInv, Types, tick, Aged, Ratchet
<1>2. ASSUME NEW n \in NODES, NEW s \in SESSIONS, NEW c \in Counters, Remembered(n, s, c)
      PROVE  Remembered(n, s, c)'
  <2>1. /\ stamp[n][s][c] \in Nat /\ now \in Nat /\ now' = now + 1 /\ stamp' = stamp
        /\ ratchet[n] \in Ratchet /\ ratchet'[n] = Aged(ratchet[n])
    BY SMTT(30) DEF IInv, Types, tick
  <2>2. c \in Int
    BY SMT DEF Counters
  <2> QED
    BY <1>2, <2>1, <2>2, TicksAssumption, SMTT(30) DEF Remembered, Aged, Ratchet
<1>3. AllRemembered'
  <2>1. heard' = heard /\ stamp' = stamp
    BY DEF tick
  <2> QED
    BY <1>2, <2>1 DEF IInv, AllRemembered, Current
<1>4. Monotonic' /\ AcceptedInOrder'
  BY DEF IInv, Monotonic, AcceptedInOrder, OneSession, tick
<1> QED
  BY <1>1, <1>3, <1>4 DEF IInv

\* A message that is accepted is newer than any that is still remembered: an
\* older one would be out of date, and then so would the message itself.
LEMMA NewerThanRemembered ==
  ASSUME NEW n \in NODES, NEW s \in SESSIONS, NEW c \in Counters, NEW d \in Counters,
         Types, Monotonic, verify(n, s, c), stamp[n][s][d] > 0, Remembered(n, s, d)
  PROVE  d < c
<1>1. Counters \subseteq Nat /\ TICKS_TO_LIVE \in Nat \ {0}
  BY TicksAssumption, SMT DEF Counters
<1>2. ratchet[n] \in Ratchet /\ stamp[n][s][d] \in Nat /\ stamp[n][s][c] \in Nat /\ now \in Nat
  BY DEF Types
<1>3. SUFFICES ASSUME d >= c PROVE FALSE
  BY <1>1, SMT
<1>4. stamp[n][s][c] <= stamp[n][s][d]
  <2>1. CASE d = c
    BY <1>2, <2>1, SMT
  <2>2. CASE d # c
    <3>1. c < d
      BY <1>1, <1>3, <2>2, SMT
    <3> QED
      BY <3>1 DEF Monotonic
  <2> QED
    BY <2>1, <2>2
<1>5. Recent(stamp[n][s][c]) /\ Newer(n, s, c)
  BY DEF verify
<1> QED
  BY <1>1, <1>2, <1>3, <1>4, <1>5, SMTT(30) DEF Remembered, Recent, Newer, Ratchet

\* What the messages accepted of n look like after one more, of session s.
LEMMA OneMore ==
  ASSUME NEW n \in NODES, NEW s \in SESSIONS, NEW c \in Counters, Types, verify(n, s, c)
  PROVE  /\ heard' \in [NODES -> Seq(Message)]
         /\ \A m \in NODES : m # n => heard'[m] = heard[m]
         /\ Len(heard'[n]) = Len(heard[n]) + 1
         /\ heard'[n][Len(heard[n]) + 1] = [session |-> s, counter |-> c]
         /\ \A i \in DOMAIN heard[n] : heard'[n][i] = heard[n][i]
         /\ \A i \in DOMAIN heard'[n] : i \in DOMAIN heard[n] \/ i = Len(heard[n]) + 1
<1>1. heard[n] \in Seq(Message) /\ [session |-> s, counter |-> c] \in Message
  BY DEF Types, Message
<1>2. /\ heard'[n] = Append(heard[n], [session |-> s, counter |-> c])
      /\ \A m \in NODES : m # n => heard'[m] = heard[m]
      /\ heard' \in [NODES -> Seq(Message)]
  BY <1>1, SMTT(30) DEF Types, verify
<1> DEFINE a == [session |-> s, counter |-> c]
<1> HIDE DEF a
<1>3. a \in Message /\ heard'[n] = Append(heard[n], a)
  BY <1>1, <1>2 DEF a
<1>4. /\ Len(heard'[n]) = Len(heard[n]) + 1
      /\ heard'[n][Len(heard[n]) + 1] = a
      /\ \A i \in DOMAIN heard[n] : heard'[n][i] = heard[n][i]
      /\ \A i \in DOMAIN heard'[n] : i \in DOMAIN heard[n] \/ i = Len(heard[n]) + 1
  BY <1>1, <1>3, SMTT(30)
<1> QED
  BY <1>2, <1>4 DEF a

\* Accepting a message keeps it: the ratchet remembers the message from now
\* on, and what it remembered before of the same session for longer.
LEMMA VerifyIInv ==
  ASSUME NEW n \in NODES, NEW s \in SESSIONS, NEW c \in Counters,
         IInv, verify(n, s, c)
  PROVE  IInv'
<1> DEFINE L == Len(heard[n])
<1>1. /\ Counters \subseteq Nat /\ TICKS_TO_LIVE \in Nat \ {0} /\ L \in Nat
      /\ \A m \in NODES : DOMAIN heard[m] = 1 .. Len(heard[m]) /\ Len(heard[m]) \in Nat
  BY TicksAssumption, SMT DEF Counters, IInv, Types
<1>2. /\ ratchet'[n] = [session |-> s, counter |-> c, ttl |-> TICKS_TO_LIVE]
      /\ \A m \in NODES : m # n => ratchet'[m] = ratchet[m]
      /\ ratchet' \in [NODES -> Ratchet]
      /\ stamp' = stamp /\ now' = now
  BY <1>1, SMTT(30) DEF IInv, Types, verify, Ratchet
<1>3. /\ heard' \in [NODES -> Seq(Message)]
      /\ \A m \in NODES : m # n => heard'[m] = heard[m]
      /\ Len(heard'[n]) = L + 1
      /\ heard'[n][L + 1] = [session |-> s, counter |-> c]
      /\ \A i \in DOMAIN heard[n] : heard'[n][i] = heard[n][i]
      /\ \A i \in DOMAIN heard'[n] : i \in DOMAIN heard[n] \/ i = L + 1
  BY OneMore DEF IInv
<1> HIDE DEF L
<1>4. Types'
  BY <1>2, <1>3 DEF IInv, Types
<1>5. ASSUME NEW i \in DOMAIN heard[n],
             \A k \in i .. L + 1 : heard'[n][k].session = heard'[n][i].session
      PROVE  \E d \in Counters :
               /\ heard[n][i] = [session |-> s, counter |-> d]
               /\ d < c /\ Remembered(n, s, d)
  <2>1. i \in 1 .. L /\ DOMAIN heard[n] = 1 .. L
    BY <1>1 DEF L
  <2>2. heard[n][i].session = s
    <3>1. L + 1 \in i .. (L + 1)
      BY <1>1, <2>1, SMT
    <3>2. heard'[n][L + 1].session = heard'[n][i].session
      BY <1>5, <3>1
    <3> QED
      BY <1>3, <3>2
  <2>3. Current(n, i)
    <3>1. SUFFICES ASSUME NEW k \in DOMAIN heard[n], i <= k
                   PROVE  heard[n][k].session = heard[n][i].session
      BY DEF Current
    <3>2. k \in i .. (L + 1)
      BY <1>1, <2>1, <3>1, SMT
    <3>3. heard'[n][k].session = heard'[n][i].session
      BY <1>5, <3>2
    <3> QED
      BY <1>3, <3>3
  <2>4. PICK d \in Counters : heard[n][i] = [session |-> s, counter |-> d]
    <3>1. PICK t \in SESSIONS, d \in Counters : heard[n][i] = [session |-> t, counter |-> d]
      BY HeardMessages DEF IInv
    <3>2. t = s
      BY <2>2, <3>1
    <3> QED
      BY <3>1, <3>2
  <2>5. stamp[n][s][d] > 0 /\ Remembered(n, s, d)
    BY <2>3, <2>4 DEF IInv, AllRemembered
  <2>6. d < c
    BY <2>5, NewerThanRemembered DEF IInv
  <2> QED
    BY <2>4, <2>5, <2>6
<1>6. AcceptedInOrder'
  <2>1. SUFFICES ASSUME NEW m \in NODES, NEW i \in DOMAIN heard'[m], NEW j \in DOMAIN heard'[m],
                        i < j,
                        \A k \in i .. j : heard'[m][k].session = heard'[m][i].session
                 PROVE  heard'[m][i].counter < heard'[m][j].counter
    BY DEF AcceptedInOrder, OneSession
  <2>2. CASE m # n
    <3>1. heard'[m] = heard[m]
      BY <1>3, <2>2
    <3> QED
      BY <2>1, <3>1 DEF IInv, AcceptedInOrder, OneSession
  <2>3. CASE m = n /\ j \in DOMAIN heard[n]
    <3>1. i \in DOMAIN heard[n]
      BY <1>1, <1>3, <2>1, <2>3, SMT DEF L
    <3>2. \A k \in i .. j : k \in DOMAIN heard[n]
      BY <1>1, <2>3, <3>1, SMT
    <3>3. OneSession(n, i, j)
      BY <1>3, <2>1, <2>3, <3>1, <3>2 DEF OneSession
    <3>4. heard[n][i].counter < heard[n][j].counter
      BY <2>1, <2>3, <3>1, <3>3 DEF IInv, AcceptedInOrder
    <3> QED
      BY <1>3, <2>3, <3>1, <3>4
  <2>4. CASE m = n /\ j = L + 1
    <3>1. i \in DOMAIN heard[n]
      BY <1>1, <1>3, <2>1, <2>4, SMT DEF L
    <3>2. PICK d \in Counters : heard[n][i] = [session |-> s, counter |-> d] /\ d < c
      BY <1>5, <2>1, <2>4, <3>1
    <3>3. heard'[n][i].counter = d /\ heard'[n][j].counter = c
      BY <1>3, <2>4, <3>1, <3>2
    <3> QED
      BY <2>4, <3>2, <3>3
  <2> QED
    BY <1>3, <2>1, <2>2, <2>3, <2>4
<1>7. AllRemembered'
  <2>1. ASSUME NEW m \in NODES, NEW t \in SESSIONS, NEW d \in Counters, m # n, Remembered(m, t, d)
        PROVE  Remembered(m, t, d)'
    BY <1>2, <2>1 DEF Remembered
  <2>2. stamp[n][s][c] > 0 /\ Remembered(n, s, c)'
    <3>1. stamp[n][s][c] \in Nat /\ now \in Nat /\ Recent(stamp[n][s][c])
      BY DEF IInv, Types, verify
    <3> QED
      BY <1>1, <1>2, <3>1, SMTT(30) DEF Remembered, Recent
  <2>3. ASSUME NEW d \in Counters, d < c, Remembered(n, s, d)
        PROVE  Remembered(n, s, d)'
    <3>1. stamp[n][s][c] \in Nat /\ stamp[n][s][d] \in Nat /\ now \in Nat
      BY DEF IInv, Types
    <3>2. stamp[n][s][d] <= stamp[n][s][c] /\ stamp[n][s][c] <= now
      BY <2>2, <2>3 DEF IInv, Monotonic, verify, Recent
    <3> QED
      BY <1>1, <1>2, <2>3, <3>1, <3>2, SMTT(30) DEF Remembered
  <2>4. SUFFICES ASSUME NEW m \in NODES, NEW t \in SESSIONS, NEW d \in Counters,
                        NEW i \in DOMAIN heard'[m],
                        heard'[m][i] = [session |-> t, counter |-> d]
                 PROVE  stamp[m][t][d] > 0 /\ (Current(m, i)' => Remembered(m, t, d)')
    BY <1>2 DEF AllRemembered
  <2>5. CASE m # n
    <3>1. heard'[m] = heard[m]
      BY <1>3, <2>5
    <3>2. stamp[m][t][d] > 0 /\ (Current(m, i) => Remembered(m, t, d))
      BY <2>4, <3>1 DEF IInv, AllRemembered
    <3>3. Current(m, i)' => Current(m, i)
      BY <3>1 DEF Current
    <3> QED
      BY <2>1, <2>5, <3>2, <3>3
  <2>6. CASE m = n /\ i = L + 1
    <3>1. t = s /\ d = c
      BY <1>3, <2>4, <2>6
    <3> QED
      BY <2>2, <2>6, <3>1
  <2>7. CASE m = n /\ i \in DOMAIN heard[n]
    <3>1. heard[n][i] = [session |-> t, counter |-> d]
      BY <1>3, <2>4, <2>7
    <3>2. stamp[n][t][d] > 0
      BY <2>7, <3>1 DEF IInv, AllRemembered
    <3>3. ASSUME Current(n, i)'
          PROVE  Remembered(n, t, d)'
      <4>1. \A k \in i .. L + 1 : k \in DOMAIN heard'[n] /\ i <= k
        BY <1>1, <1>3, <2>7, SMT DEF L
      <4>2. \A k \in i .. L + 1 : heard'[n][k].session = heard'[n][i].session
        BY <3>3, <4>1 DEF Current
      <4>3. PICK e \in Counters : /\ heard[n][i] = [session |-> s, counter |-> e]
                                  /\ e < c /\ Remembered(n, s, e)
        BY <1>5, <2>7, <4>2
      <4>4. t = s /\ d = e
        BY <3>1, <4>3
      <4> QED
        BY <2>3, <4>3, <4>4
    <3> QED
      BY <2>7, <3>2, <3>3
  <2> QED
    BY <1>3, <2>5, <2>6, <2>7
<1>8. Monotonic'
  BY <1>2 DEF IInv, Monotonic
<1> QED
  BY <1>4, <1>6, <1>7, <1>8 DEF IInv

\* Whatever is signed, delivered, delayed or delivered again, the messages of
\* a session are accepted at most once and in the order they were signed, up to
\* the next message of another session that is accepted
\* (SimpleVerifier::verify and tick).
THEOREM InOrder == Spec => []AcceptedInOrder
<1>1. IInv /\ [Next]_vars => IInv'
  <2>1. SUFFICES ASSUME IInv, [Next]_vars PROVE IInv'
    OBVIOUS
  <2>2. CASE tick
    BY <2>1, <2>2, TickIInv
  <2>3. CASE \E n \in NODES, s \in SESSIONS, c \in Counters : verify(n, s, c)
    BY <2>1, <2>3, VerifyIInv
  <2>4. CASE \E n \in NODES, s \in SESSIONS, c \in Counters, k \in 1 .. MAX_TICK : Send(n, s, c, k)
    BY <2>1, <2>4, SendIInv
  <2>5. CASE UNCHANGED vars
    BY <2>1, <2>5 DEF vars, IInv, Types, Monotonic, AllRemembered, Remembered, AcceptedInOrder,
                      OneSession, Current
  <2> QED
    BY <2>1, <2>2, <2>3, <2>4, <2>5 DEF Next
<1>2. IInv => AcceptedInOrder
  BY DEF IInv
<1> QED
  BY InitIInv, <1>1, <1>2, PTL DEF Spec
=============================================================================
