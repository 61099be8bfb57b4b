--------------------------- MODULE SecureChannel ---------------------------
(***************************************************************************)
(* The secure channel between two nodes (secure_channel/src/state.rs,      *)
(* secure_channel.rs; crypto/src/sym_encrypt.rs; version/src/              *)
(* version_prefix.rs; connection/src/timeout.rs): a version prefix and a   *)
(* handshake, then user messages under symmetric keys that both sides      *)
(* change while messages are on the way.                                   *)
(*                                                                         *)
(* A key pair of one side is a number: its first one is 0, the next 1, ... *)
(* A symmetric key is the side that encrypts with it and the two key pairs *)
(* it was derived from.  A ciphertext opens under its own key and nonce    *)
(* only.  log[s] is what s has written since the handshake, nread[s] how   *)
(* much s has read of the other log: the wire keeps order and loses        *)
(* nothing while both sides live.                                          *)
(***************************************************************************)
EXTENDS Integers, Sequences

CONSTANTS
  TICKS_TO_REKEY,   \* ticks_to_rekey
  MAX_USER,         \* bound: number of user messages of each side
  MAX_DH            \* bound: last key pair a side makes on its own initiative

Side == {1, 2}
Other(s) == 3 - s
NoKey == <<>>
NoDh == -1

VARIABLES
  version,  \* TRUE: both sides have the same local_version
  expects,  \* TRUE: s expects the public key of the other side, or any
  phase,    \* "start", "nonce", "dh" (what s has sent), "open", "closed";
            \* "ended": before the key pair was sent; "failed": an error
  dh,       \* the last key pair of s
  pending,  \* opt_pending_rekey: the key pair, or NoDh
  sendKey, sendNonce,    \* sender: Encryptor
  recvKey, recvNonce,    \* receiver: Decryptor
  oldKey, oldNonce,      \* opt_old_receiver; oldKey is NoKey if none
  ticks,    \* cur_ticks_to_rekey
  log, nread,
  given,    \* number of messages the user of s has given
  taken     \* the messages the user of s was handed, in order

keys == <<sendKey, sendNonce, recvKey, recvNonce, oldKey, oldNonce>>
vars == <<version, expects, phase, dh, pending, keys, ticks, log, nread, given, taken>>

\* derive_symmetric_key of s: both sides derive the same two keys.
derive_symmetric_key(from, s, local, remote) ==
  IF s = 1 THEN <<from, local, remote>> ELSE <<from, remote, local>>

User(n) == [type |-> "User", n |-> n]
Rekey(n) == [type |-> "Rekey", n |-> n]

InitAt(at) ==
  /\ phase = [s \in Side |-> at]
  /\ dh = [s \in Side |-> 0]
  /\ pending = [s \in Side |-> NoDh]
  /\ sendKey = [s \in Side |-> NoKey] /\ sendNonce = [s \in Side |-> 0]
  /\ recvKey = [s \in Side |-> NoKey] /\ recvNonce = [s \in Side |-> 0]
  /\ oldKey = [s \in Side |-> NoKey] /\ oldNonce = [s \in Side |-> 0]
  /\ ticks = [s \in Side |-> TICKS_TO_REKEY]
  /\ log = [s \in Side |-> <<>>] /\ nread = [s \in Side |-> 0]
  /\ given = [s \in Side |-> 0] /\ taken = [s \in Side |-> <<>>]

Init ==
  /\ version \in BOOLEAN
  /\ expects \in [Side -> BOOLEAN]
  /\ InitAt("start")

(***************************************************************************)
(* initial_exchange                                                        *)
(***************************************************************************)
Idle == UNCHANGED <<version, expects, dh, pending, keys, ticks, log, nread, given, taken>>

\* The version prefix goes out first and waits for nothing.
SendRandNonce(s) ==
  /\ phase[s] = "start"
  /\ phase' = [phase EXCEPT ![s] = "nonce"]
  /\ Idle

\* Has the other side sent its version and nonce, its key pair?
SentNonce(s) == phase[Other(s)] # "start"
SentDh(s) == phase[Other(s)] \in {"dh", "open", "closed"}

\* A side that finds another version in the prefix sees the end of the stream.
VersionMismatch(s) ==
  /\ phase[s] = "nonce" /\ SentNonce(s)
  /\ ~version
  /\ phase' = [phase EXCEPT ![s] = "ended"]
  /\ Idle

handle_exchange_rand_nonce(s) ==
  /\ phase[s] = "nonce" /\ SentNonce(s)
  /\ version
  /\ phase' = [phase EXCEPT ![s] = IF expects[s] THEN "dh" ELSE "failed"]
  /\ Idle

\* TimeoutFutTransform: the handshake took too long.
Timeout(s) ==
  /\ phase[s] \in {"nonce", "dh"}
  /\ phase' = [phase EXCEPT ![s] = IF @ = "dh" THEN "closed" ELSE "ended"]
  /\ Idle

\* The nonce and the signature of the other side verify: it answers our nonce.
handle_exchange_dh(s) ==
  /\ phase[s] = "dh" /\ SentDh(s)
  /\ phase' = [phase EXCEPT ![s] = "open"]
  /\ sendKey' = [sendKey EXCEPT ![s] = derive_symmetric_key(s, s, 0, 0)]
  /\ recvKey' = [recvKey EXCEPT ![s] = derive_symmetric_key(Other(s), s, 0, 0)]
  /\ UNCHANGED <<version, expects, dh, pending, sendNonce, recvNonce, oldKey, oldNonce, ticks, log,
                 nread, given, taken>>

(***************************************************************************)
(* secure_channel_loop                                                     *)
(***************************************************************************)
\* encrypt_outgoing: under the present key, with the next nonce.
Encrypted(s, content) ==
  [key |-> sendKey[s], nonce |-> sendNonce[s], content |-> content]
Write(s, content) == log' = [log EXCEPT ![s] = Append(@, Encrypted(s, content))]

create_outgoing(s) ==
  /\ phase[s] = "open"
  /\ given[s] < MAX_USER[s]
  /\ given' = [given EXCEPT ![s] = @ + 1]
  /\ Write(s, User(given[s] + 1))
  /\ sendNonce' = [sendNonce EXCEPT ![s] = @ + 1]
  /\ UNCHANGED <<version, expects, phase, dh, pending, sendKey, recvKey, recvNonce, oldKey, oldNonce,
                 ticks, nread, taken>>

\* TimerTick before the countdown is over.
CountDown(s) ==
  /\ phase[s] = "open"
  /\ ticks[s] > 0
  /\ ticks' = [ticks EXCEPT ![s] = @ - 1]
  /\ UNCHANGED <<version, expects, phase, dh, pending, keys, log, nread, given, taken>>

\* TimerTick when it is over; RekeyInProgress leaves everything as it is.
create_rekey(s) ==
  /\ phase[s] = "open"
  /\ ticks[s] = 0
  /\ pending[s] = NoDh
  /\ dh[s] < MAX_DH
  /\ dh' = [dh EXCEPT ![s] = @ + 1]
  /\ pending' = [pending EXCEPT ![s] = dh[s] + 1]
  /\ Write(s, Rekey(dh[s] + 1))
  /\ sendNonce' = [sendNonce EXCEPT ![s] = @ + 1]
  /\ ticks' = [ticks EXCEPT ![s] = TICKS_TO_REKEY]
  /\ UNCHANGED <<version, expects, phase, sendKey, recvKey, recvNonce, oldKey, oldNonce, nread, given, taken>>

Incoming(s) == log[Other(s)][nread[s] + 1]
\* Mutant: a side that has asked for a rekey waits before it reads on.
Readable_WhenIdle(s) ==
  phase[s] = "open" /\ nread[s] < Len(log[Other(s)]) /\ pending[s] = NoDh

Readable(s) == phase[s] = "open" /\ nread[s] < Len(log[Other(s)])
OpensOld(s) == oldKey[s] # NoKey /\ Incoming(s).key = oldKey[s]
                                 /\ Incoming(s).nonce = oldNonce[s]
OpensNew(s) == Incoming(s).key = recvKey[s] /\ Incoming(s).nonce = recvNonce[s]

\* Mutant: what the old receiver opens is lost.
Delivered_NewOnly(s) ==
  IF OpensOld(s) THEN taken[s] ELSE Append(taken[s], Incoming(s).content.n)

Delivered(s) == Append(taken[s], Incoming(s).content.n)

\* handle_incoming of a user message: try_decrypt tries the old receiver
\* first and forgets it when the new one succeeds.
TakeUser(s) ==
  /\ Readable(s) /\ (OpensOld(s) \/ OpensNew(s))
  /\ Incoming(s).content.type = "User"
  /\ nread' = [nread EXCEPT ![s] = @ + 1]
  /\ taken' = [taken EXCEPT ![s] = Delivered(s)]
  /\ IF OpensOld(s)
     THEN /\ oldNonce' = [oldNonce EXCEPT ![s] = @ + 1]
          /\ UNCHANGED <<recvNonce, oldKey>>
     ELSE /\ recvNonce' = [recvNonce EXCEPT ![s] = @ + 1]
          /\ oldKey' = [oldKey EXCEPT ![s] = NoKey]
          /\ oldNonce' = [oldNonce EXCEPT ![s] = 0]
  /\ UNCHANGED <<version, expects, phase, dh, pending, sendKey, sendNonce, recvKey, ticks, log, given>>

\* The receiver that a rekey makes the old one.
OldReceiver(s) ==
  [key |-> recvKey[s], nonce |-> recvNonce[s] + (IF OpensOld(s) THEN 0 ELSE 1)]

\* The key pair of s that a rekey uses: the pending one, or a fresh one.
LocalDh(s) == IF pending[s] = NoDh THEN dh[s] + 1 ELSE pending[s]

\* handle_incoming_rekey: a side that has not asked answers under the old key
\* before it changes its sender.  The receiver of the message becomes old.
TakeRekey(s) ==
  LET remote == Incoming(s).content.n
      local  == LocalDh(s)
  IN
  /\ Readable(s) /\ (OpensOld(s) \/ OpensNew(s))
  /\ Incoming(s).content.type = "Rekey"
  /\ nread' = [nread EXCEPT ![s] = @ + 1]
  /\ dh' = [dh EXCEPT ![s] = local]
  /\ pending' = [pending EXCEPT ![s] = NoDh]
  /\ IF pending[s] = NoDh THEN Write(s, Rekey(local)) ELSE log' = log
  /\ sendKey' = [sendKey EXCEPT ![s] = derive_symmetric_key(s, s, local, remote)]
  /\ sendNonce' = [sendNonce EXCEPT ![s] = 0]
  /\ recvKey' = [recvKey EXCEPT ![s] = derive_symmetric_key(Other(s), s, local, remote)]
  /\ recvNonce' = [recvNonce EXCEPT ![s] = 0]
  /\ oldKey' = [oldKey EXCEPT ![s] = OldReceiver(s).key]
  /\ oldNonce' = [oldNonce EXCEPT ![s] = OldReceiver(s).nonce]
  /\ ticks' = [ticks EXCEPT ![s] = TICKS_TO_REKEY]
  /\ UNCHANGED <<version, expects, phase, given, taken>>

\* HandleIncomingError: neither receiver opens the message.
FailToDecrypt(s) ==
  /\ Readable(s) /\ ~OpensOld(s) /\ ~OpensNew(s)
  /\ phase' = [phase EXCEPT ![s] = "failed"]
  /\ Idle

\* ReceiverClosed: the user or the timer is gone, or the other side has ended
\* and everything it wrote is read.
Close(s) ==
  /\ phase[s] = "open"
  /\ phase' = [phase EXCEPT ![s] = "closed"]
  /\ Idle

Next ==
  \E s \in Side :
    \/ SendRandNonce(s) \/ VersionMismatch(s) \/ handle_exchange_rand_nonce(s)
    \/ handle_exchange_dh(s) \/ Timeout(s)
    \/ create_outgoing(s) \/ CountDown(s) \/ create_rekey(s)
    \/ TakeUser(s) \/ TakeRekey(s) \/ FailToDecrypt(s) \/ Close(s)

Spec == Init /\ [][Next]_vars

\* The handshake goes on and the loop reads what arrives.
Fairness ==
  \A s \in Side : WF_vars(SendRandNonce(s) \/ handle_exchange_rand_nonce(s)
                            \/ handle_exchange_dh(s) \/ TakeUser(s) \/ TakeRekey(s))

FairSpec == Spec /\ Fairness

-----------------------------------------------------------------------------
(* Properties                                                              *)

\* The channel hands the messages of one user to the other in order, without
\* a gap or a repetition, and no message of the side it expects ever fails to
\* open, however messages and rekeys of both sides interleave: a "broken"
\* channel is none of the steps of FifoChannel (state.rs, create_outgoing,
\* handle_incoming, try_decrypt and handle_incoming_rekey).
Ending(s) ==
  CASE phase[s] \in {"ended", "closed"} -> "ended"
    [] phase[s] = "failed" -> IF expects[s] THEN "broken" ELSE "ended"
    [] OTHER -> "open"
Promise == INSTANCE FifoChannel WITH state <- [s \in Side |-> Ending(s)]
ImplementsFifoChannel == Promise!Spec

\* A rekey that a side has started ends while both sides stay: no two rekeys
\* wait for each other (state.rs, create_rekey and handle_incoming_rekey).
RekeyEnds ==
  \A s \in Side : pending[s] # NoDh
                  ~> pending[s] = NoDh \/ \E t \in Side : phase[t] # "open"
=============================================================================
