---------------------------- MODULE FriendConfig ----------------------------
(***************************************************************************)
(* What two friends agree on besides credit: the currencies they trade and *)
(* the relays through which they find each other.  Both travel inside move *)
(* tokens (funder/src/handler/sender.rs, handle_friend.rs), follow from    *)
(* what the users configure (handle_control.rs) and decide what the funder *)
(* tells its channeler (handle_init.rs).                                   *)
(*                                                                         *)
(* A currency is configured or not; its rate and limits, the payments and  *)
(* the order of relays are left out.  A move token is known by its place   *)
(* in the chain modulo 3 (tokens at most one place apart meet) and by the  *)
(* reset the chain began with.  At most one message is on its way to each  *)
(* side: a newer one replaces it, as in the overwrite channel.             *)
(***************************************************************************)
EXTENDS Naturals, FiniteSets

CONSTANTS
  CURRENCIES,
  RELAYS,            \* RELAYS[n]: relay addresses n may use, pairs of the relay's key
                     \* and its network address
  MAX_NODE_RELAYS,   \* max_node_relays
  MAX_CHANGES,       \* bound: commands of the users
  MAX_FAULTS         \* bound: tokens refused, connections lost, crashes

VARIABLES
  friend,    \* friend[n]: the FriendState of the other side, with the relays n uses
  chan,      \* chan[n]: what the channeler of n was told of the friend
  net,       \* net[n]: the message on its way to n
  up,        \* the two channelers are connected
  issued,    \* reset tokens drawn so far
  left       \* what is left of the bounds

vars == <<friend, chan, net, up, issued, left>>

SIDES == {"a", "b"}         \* the public key of a is the smaller one
Other(n) == IF n = "a" THEN "b" ELSE "a"
ABSENT == {"absent"}        \* None of an Option of a set

NoTerms == [id |-> 0, currencies |-> {}]
MoveToken(seq, epoch, rel, cur) == [seq |-> seq, epoch |-> epoch, relays |-> rel, currencies |-> cur]
MoveTokenRequest(mt, wanted) == {[kind |-> "MoveToken", mt |-> mt, wanted |-> wanted]}
InconsistencyError(terms) == {[kind |-> "InconsistencyError", terms |-> terms]}

\* SentLocalRelays: never, in transition, or last sent.
NeverSent == [kind |-> "NeverSent", last |-> {}, prev |-> {}]
LastSent(r) == [kind |-> "LastSent", last |-> r, prev |-> {}]
Transition(r, p) == [kind |-> "Transition", last |-> r, prev |-> p]
Keys(relays) == {r[1] : r \in relays}
Sent(sent) == sent.last \cup sent.prev

\* Sorted by public key, with one address per relay: the one sent last, if it
\* was sent, or any one sent before.
to_vec(sent) ==
  sent.last \cup {CHOOSE r \in sent.prev : r[1] = k : k \in Keys(sent.prev) \ Keys(sent.last)}

\* FriendState::new, and the friend is enabled.  `own` are the relays of the
\* node, `heard` tells whether the friend's relays came from the friend,
\* `link` what the channeler has reported of the connection and `panic` what
\* stopped the funder.  The side with the smaller key sent the first token,
\* so the other one has it.
new(n, rel, far) ==
  [enabled |-> TRUE, online |-> FALSE, configs |-> {},
   status |-> IF n = "a" THEN "Out" ELSE "In", seq |-> 0, epoch |-> 0,
   out |-> MoveToken(0, 0, ABSENT, ABSENT), local |-> {}, remote |-> {}, mcs |-> {},
   terms |-> NoTerms, remote_terms |-> NoTerms, sent |-> NeverSent,
   own |-> rel, remote_relays |-> far, heard |-> FALSE, link |-> "none", panic |-> "no"]

calc_active(f) == f.local \cap f.remote
\* UpdateFriend: seek the friend at its relays, and listen for it at the
\* relays it may know and at those the node uses now.
UpdateFriend(f) ==
  [known |-> TRUE, far |-> f.remote_relays, near |-> to_vec(f.sent) \cup f.own]

Unknown == [known |-> FALSE, far |-> {}, near |-> {}]

FirstRelay(n) == {CHOOSE r \in RELAYS[n] : TRUE}

Init ==
  /\ friend = [n \in SIDES |-> new(n, FirstRelay(n), FirstRelay(Other(n)))]
  /\ chan = [n \in SIDES |-> UpdateFriend(friend[n])]
  /\ net = [n \in SIDES |-> {}]
  /\ up = FALSE
  /\ issued = 0
  /\ left = [changes |-> MAX_CHANGES, faults |-> MAX_FAULTS]

-----------------------------------------------------------------------------
\* Mutant: the relays sent before are forgotten at once.
NewSent_Hasty(f, resend) == LastSent(f.own)

\* The relays sent are those of now.  What the friend may know from before is
\* kept until it is known to have the new ones; after a reset that is all.
NewSent(f, resend) ==
  CASE f.sent.kind = "NeverSent" -> LastSent(f.own)
    [] resend -> Transition(f.own, Sent(f.sent))
    [] OTHER  -> Transition(f.own, f.sent.last)

\* A handler ends with the friend's state f, the channeler told c, and the
\* message m (a set of at most one).
Result(f, c, m) == [f |-> f, c |-> c, m |-> m]

\* apply_local_reset: the friend's terms open a new chain.
apply_local_reset(f) ==
  LET t == f.remote_terms
  IN  [f EXCEPT !.sent = NewSent(f, TRUE), !.status = "Out", !.seq = 0, !.epoch = t.id,
                !.out = MoveToken(0, t.id, f.own, ABSENT),
                !.local = t.currencies, !.remote = t.currencies, !.mcs = t.currencies,
                !.terms = NoTerms, !.remote_terms = NoTerms,
                !.configs = @ \cup t.currencies]

estimate_should_send(f) ==
  \/ f.sent.kind = "NeverSent"
  \/ f.sent.last # f.own
  \/ f.configs # f.local

\* Set the active currencies of one side; those of both get a mutual credit.
WithLocal(f, cur) ==
  IF cur = ABSENT THEN f
  ELSE [f EXCEPT !.local = cur, !.mcs = @ \cup (cur \cap f.remote)]

\* collect_outgoing_move_token and send_move_token, by the side that has the
\* token.  An assertion or unwrap() that fails stops the funder.
SendMoveToken(f, c, cmds) ==
  LET send == "relays" \in cmds \/ f.sent.kind = "NeverSent" \/ f.sent.last # f.own
      g    == IF send THEN [f EXCEPT !.sent = NewSent(f, "relays" \in cmds)] ELSE f
      d    == IF send THEN UpdateFriend(g) ELSE c
      rel  == IF send THEN f.own ELSE ABSENT
      cur  == IF f.configs # f.local THEN f.configs ELSE ABSENT
      mt   == MoveToken((f.seq + 1) % 3, f.epoch, rel, cur)
      h    == [WithLocal(g, cur) EXCEPT !.status = "Out", !.seq = mt.seq, !.out = mt]
  IN  IF cur # ABSENT /\ ~(calc_active(f) \subseteq cur)
      THEN Result([f EXCEPT !.panic = "assert"], c, {})
      ELSE IF cur # ABSENT /\ ~(f.mcs \subseteq cur)
      THEN Result([f EXCEPT !.panic = "unwrap"], c, {})
      ELSE IF rel = ABSENT /\ cur = ABSENT /\ cmds \cap {"resend", "wanted"} = {}
      THEN Result(f, c, {})
      ELSE Result(h, d, MoveTokenRequest(mt, rel # ABSENT))

\* send_friend_iter1, for a friend that is online.
send_friend_iter1(f, c, cmds) ==
  LET r == apply_local_reset(f)
  IN  CASE ~f.online \/ cmds = {} -> Result(f, c, {})
        [] f.online /\ "reset" \in cmds -> Result(r, c, MoveTokenRequest(r.out, TRUE))
        [] f.online /\ cmds # {} /\ "reset" \notin cmds /\ f.status = "Bad" ->
             Result(f, c, IF cmds \cap {"resend", "try"} = {} THEN {}
                          ELSE InconsistencyError(f.terms))
        [] f.online /\ cmds # {} /\ f.status = "Out" ->
             LET pending == estimate_should_send(f)
             IN  Result(f, c, IF ~pending /\ "resend" \notin cmds THEN {}
                     ELSE MoveTokenRequest(f.out, pending \/ f.out.relays # ABSENT))
        [] f.online /\ cmds # {} /\ f.status = "In" -> SendMoveToken(f, c, cmds)

\* The messages of the handler of n are sent.  What is sent over a connection
\* that is gone is lost.
Send(n, f, c, cmds, from) ==
  LET r == send_friend_iter1(f, c, cmds)
  IN  /\ friend' = [friend EXCEPT ![n] = r.f]
      /\ chan' = [chan EXCEPT ![n] = r.c]
      /\ net' = IF r.m = {} \/ ~up THEN from ELSE [from EXCEPT ![Other(n)] = r.m]
-----------------------------------------------------------------------------
\* gen_reset_terms with a new reset token, and SetInconsistent.
Inconsistent(f, remote_terms) ==
  [f EXCEPT !.status = "Bad", !.terms = [id |-> issued + 1, currencies |-> f.mcs],
            !.remote_terms = remote_terms, !.out = MoveToken(0, 0, ABSENT, ABSENT),
            !.seq = 0, !.epoch = 0, !.local = {}, !.remote = {}, !.mcs = {}]

handle_move_token_error(n, f, from) ==
  /\ Send(n, Inconsistent(f, NoTerms), chan[n], {"try"}, from)
  /\ issued' = issued + 1

Wanted(m) == IF m.wanted THEN {"wanted"} ELSE {}
WithRelays(f, mt) ==
  IF mt.relays = ABSENT THEN f ELSE [f EXCEPT !.remote_relays = mt.relays, !.heard = TRUE]

\* Mutant: currencies that become active get no mutual credit.
WithRemote_Poor(f, cur) == IF cur = ABSENT THEN f ELSE [f EXCEPT !.remote = cur]

WithRemote(f, cur) ==
  IF cur = ABSENT THEN f
  ELSE [f EXCEPT !.remote = cur, !.mcs = @ \cup (cur \cap f.local)]

\* try_reset_channel: the friend accepted our terms, or used something else.
try_reset_channel(n, f, m, from) ==
  LET t == f.terms
      g == [WithRelays(f, m.mt) EXCEPT
              !.status = "In", !.seq = 0, !.epoch = t.id,
              !.local = t.currencies, !.remote = t.currencies, !.mcs = t.currencies,
              !.terms = NoTerms, !.remote_terms = NoTerms,
              !.configs = @ \cup t.currencies]
  IN  /\ IF m.mt.epoch = t.id /\ m.mt.seq = 0
         THEN Send(n, g, chan[n], {"relays", "try"} \cup Wanted(m), from)
         ELSE Send(n, f, chan[n], {"resend"}, from)
      /\ UNCHANGED <<issued, left>>

\* The next token of the chain: it ends the transition of our relays, for the
\* friend must have got the token that brought them.
handle_move_token_success(n, f, m, from) ==
  LET g == [WithRemote(WithRelays(f, m.mt), m.mt.currencies) EXCEPT
              !.status = "In", !.seq = m.mt.seq, !.out = MoveToken(0, 0, ABSENT, ABSENT)]
      h == [g EXCEPT !.sent = LastSent(@.last)]
      c == [known |-> TRUE, far |-> g.remote_relays, near |-> h.sent.last \cup f.own]
  IN  IF f.sent.kind = "Transition"
      THEN Send(n, h, c, {"try"} \cup Wanted(m), from)
      ELSE Send(n, g, chan[n], {"try"} \cup Wanted(m), from)

Refuses(f, mt) == mt.currencies # ABSENT /\ ~(f.mcs \subseteq mt.currencies)

\* handle_move_token_request: a duplicate, the token before ours, the next
\* one (which the ledgers may refuse), or one out of the chain.
handle_move_token_request(n, f, m, from) ==
  LET same == m.mt.epoch = f.epoch
  IN  CASE f.status = "Bad" -> try_reset_channel(n, f, m, from)
        [] f.status = "In" /\ same /\ m.mt.seq = f.seq ->
             Send(n, f, chan[n], Wanted(m), from) /\ UNCHANGED <<issued, left>>
        [] f.status = "Out" /\ same /\ f.seq = (m.mt.seq + 1) % 3 ->
             Send(n, f, chan[n], {"resend"}, from) /\ UNCHANGED <<issued, left>>
        [] f.status = "Out" /\ same /\ m.mt.seq = (f.seq + 1) % 3 ->
             \/ /\ UNCHANGED left
                /\ IF Refuses(f, m.mt) THEN handle_move_token_error(n, f, from)
                   ELSE handle_move_token_success(n, f, m, from) /\ UNCHANGED issued
             \/ /\ left.faults > 0 /\ left' = [left EXCEPT !.faults = @ - 1]
                /\ handle_move_token_error(n, f, from)
        [] OTHER -> handle_move_token_error(n, f, from) /\ UNCHANGED left

handle_inconsistency_error(n, f, m, from) ==
  CASE f.status = "In"  -> net' = from /\ UNCHANGED <<friend, chan, issued>>
    [] f.status = "Out" -> /\ Send(n, Inconsistent(f, m.terms), chan[n], {"try"}, from)
                           /\ issued' = issued + 1
    [] f.status = "Bad" -> /\ Send(n, [f EXCEPT !.remote_terms = m.terms], chan[n], {}, from)
                           /\ UNCHANGED issued

Runs(n) == friend[n].panic = "no"

Receive(n) ==
  /\ Runs(n) /\ friend[n].link = "told"
  /\ \E m \in net[n] :
       LET from == [net EXCEPT ![n] = {}]
       IN  \/ m.kind = "MoveToken" /\ handle_move_token_request(n, friend[n], m, from)
           \/ /\ m.kind = "InconsistencyError"
              /\ handle_inconsistency_error(n, friend[n], m, from)
              /\ UNCHANGED left
  /\ UNCHANGED up
-----------------------------------------------------------------------------
\* A command of the user; its handler leaves f and c and asks to send.
Command(n, f, c, cmds) ==
  /\ Runs(n)
  /\ left.changes > 0 /\ left' = [left EXCEPT !.changes = @ - 1]
  /\ Send(n, f, c, cmds, net)
  /\ UNCHANGED issued

Configured(f, c) == [f EXCEPT !.configs = @ \cup {c}]

\* The limit or the openness of a currency; a new one is configured by it.
control_set_friend_currency_max_debt(n, c) ==
  Command(n, Configured(friend[n], c), chan[n], {"try"}) /\ UNCHANGED up

\* Mutant: the friend is not told of a new currency.
control_set_friend_currency_rate_Silent(n, c) ==
  /\ c \notin friend[n].configs
  /\ Command(n, Configured(friend[n], c), chan[n], {})
  /\ UNCHANGED up

\* The rate of a currency.  A new rate of a known currency changes nothing
\* that is modelled.
control_set_friend_currency_rate(n, c) ==
  /\ c \notin friend[n].configs
  /\ Command(n, Configured(friend[n], c), chan[n], {"try"})
  /\ UNCHANGED up

\* An active currency is refused.  Of an inconsistent channel the mutation
\* is unreachable!().
control_remove_friend_currency(n, c) ==
  LET f == friend[n]
  IN  /\ c \in f.configs
      /\ f.status = "Bad" \/ c \notin calc_active(f)
      /\ IF f.status = "Bad" THEN Command(n, [f EXCEPT !.panic = "unreachable"], chan[n], {})
         ELSE Command(n, [f EXCEPT !.configs = @ \ {c}], chan[n], {"try"})
      /\ UNCHANGED up

\* SetRelays: a friend that is listened for somewhere is listened for there
\* too, and is forgotten nowhere (set_local_addresses).  The friends are told.
SetRelays(n, rel) ==
  /\ Command(n, [friend[n] EXCEPT !.own = rel],
             [chan[n] EXCEPT !.near = IF @ # {} THEN @ \cup rel ELSE @], {"try"})
  /\ UNCHANGED up

\* AddRelay replaces the address of a relay that is used already.
control_add_relay(n, r) ==
  /\ Cardinality(friend[n].own) < MAX_NODE_RELAYS
  /\ SetRelays(n, {q \in friend[n].own : q[1] # r[1]} \cup {r})

control_remove_relay(n, r) == r \in friend[n].own /\ SetRelays(n, friend[n].own \ {r})

\* The user learnt where the friend is now.
control_set_friend_relays(n) ==
  LET rel == friend[Other(n)].own
      f   == [friend[n] EXCEPT !.remote_relays = rel, !.heard = FALSE]
  IN  /\ rel # friend[n].remote_relays
      /\ Command(n, f, IF f.enabled THEN UpdateFriend(f) ELSE chan[n], {})
      /\ UNCHANGED up

enable_friend(n) ==
  LET f == [friend[n] EXCEPT !.enabled = TRUE]
  IN  ~friend[n].enabled /\ Command(n, f, UpdateFriend(f), {}) /\ UNCHANGED up

\* The channeler drops the connection.
disable_friend(n) ==
  /\ friend[n].enabled
  /\ Command(n, [friend[n] EXCEPT !.enabled = FALSE], Unknown, {})
  /\ up' = FALSE

\* control_reset_friend_channel: without effect while the friend is offline.
control_reset_friend_channel(n) ==
  LET f == friend[n]
  IN  /\ f.status = "Bad" /\ f.remote_terms # NoTerms /\ f.online
      /\ Command(n, f, chan[n], {"reset"})
      /\ UNCHANGED up

\* Requests or answers make the side that has the token pass it on.
Trade(n) ==
  LET f == friend[n]
  IN  /\ Runs(n) /\ f.online /\ f.status = "In" /\ f.mcs # {}
      /\ Send(n, f, chan[n], {"try", "wanted"}, net)
      /\ UNCHANGED <<up, issued, left>>
-----------------------------------------------------------------------------
\* The channelers meet at a relay where one seeks and the other listens,
\* whichever of its addresses they use.
Connect ==
  /\ ~up
  /\ \A n \in SIDES : chan[n].known /\ friend[n].link = "none"
  /\ Keys(chan["b"].far) \cap Keys(chan["a"].near) # {}
  /\ up' = TRUE
  /\ friend' = [n \in SIDES |-> [friend[n] EXCEPT !.link = "new"]]
  /\ UNCHANGED <<chan, net, issued, left>>

\* The report that the friend is online is not taken for a disabled friend.
Online(n) ==
  LET f == [friend[n] EXCEPT !.link = "told", !.online = friend[n].enabled]
  IN  /\ Runs(n) /\ friend[n].link = "new"
      /\ Send(n, f, chan[n], IF f.enabled THEN {"resend"} ELSE {}, net)
      /\ UNCHANGED <<up, issued, left>>

\* Every message that was not lost was read before.
Offline(n) ==
  /\ Runs(n) /\ friend[n].link = "told" /\ ~up /\ net[n] = {}
  /\ friend' = [friend EXCEPT ![n].link = "none", ![n].online = FALSE]
  /\ UNCHANGED <<chan, net, up, issued, left>>

Fault == left.faults > 0 /\ left' = [left EXCEPT !.faults = @ - 1]

Break ==
  /\ Fault /\ up /\ up' = FALSE
  /\ \E lost \in SUBSET SIDES : net' = [n \in SIDES |-> IF n \in lost THEN {} ELSE net[n]]
  /\ UNCHANGED <<friend, chan, issued>>

\* The node starts again from its database (handle_init).
Restart(n) ==
  /\ Fault /\ Runs(n)
  /\ friend' = [friend EXCEPT ![n].link = "none", ![n].online = FALSE]
  /\ chan' = [chan EXCEPT ![n] = IF friend[n].enabled THEN UpdateFriend(friend[n]) ELSE Unknown]
  /\ net' = [net EXCEPT ![n] = {}]
  /\ up' = FALSE
  /\ UNCHANGED issued

Next ==
  \/ Connect \/ Break
  \/ \E n \in SIDES :
       \/ Receive(n) \/ Online(n) \/ Offline(n) \/ Restart(n) \/ Trade(n)
       \/ control_reset_friend_channel(n) \/ control_set_friend_relays(n)
       \/ enable_friend(n) \/ disable_friend(n)
       \/ \E r \in RELAYS[n] : control_add_relay(n, r) \/ control_remove_relay(n, r)
       \/ \E c \in CURRENCIES :
            \/ control_set_friend_currency_max_debt(n, c)
            \/ control_set_friend_currency_rate(n, c)
            \/ control_remove_friend_currency(n, c)

\* The loop of a funder reads what it is given, one thing at a time.
Fairness == \A n \in SIDES : WF_vars(Receive(n) \/ Online(n))

Spec == Init /\ [][Next]_vars /\ Fairness
-----------------------------------------------------------------------------
Consistent == \A n \in SIDES : friend[n].status # "Bad" /\ friend[n].panic = "no"

\* The two sides of a chain agree on the currencies that are active and that
\* have a mutual credit: the side that has the token mirrors the other one,
\* and while the token is on its way only the sender is ahead (token_channel.rs,
\* simulate_send_move_token and handle_incoming_token_match).
CurrenciesAgree ==
  Consistent /\ friend["a"].epoch = friend["b"].epoch =>
    \A n \in SIDES :
      LET f == friend[n]
          g == friend[Other(n)]
      IN  /\ f.mcs = calc_active(f)
          /\ f.status = "In" => f.local = g.remote /\ f.remote = g.local /\ f.mcs = g.mcs
          /\ f.status = "Out" /\ g.status = "Out" /\ g.seq = (f.seq + 1) % 3 =>
               f.local = g.remote /\ f.mcs \subseteq g.mcs

\* A node that listens for its friend listens at every relay that the friend,
\* told by the node itself, has on record for it, under one of the relay's
\* addresses: through changes of relays, lost tokens, resets and restarts
\* (SentLocalRelays, friend.rs).  The record is what the friend's channeler is
\* given when it starts, when the friend is enabled and when the friend's own
\* relays change; until then it may look at relays of an older record
\* (handle_move_token_success tells it nothing outside a transition).  A friend
\* listened for nowhere, for want of a relay, gets no new relay either
\* (set_local_addresses) before the next UpdateFriend, which a reset omits.
RecordIsListenedAt ==
  \A n \in SIDES :
    chan[n].near # {} /\ friend[Other(n)].heard =>
      Keys(friend[Other(n)].remote_relays) \subseteq Keys(chan[n].near)

\* A currency that both sides keep configured while they are connected gets a
\* mutual credit at both (estimate_should_send, collect_outgoing_move_token).
Agreed(c) ==
  up /\ Consistent /\ \A n \in SIDES : friend[n].online /\ c \in friend[n].configs
CurrencyOpens ==
  \A c \in CURRENCIES :
    <>[]Agreed(c) => <>(\A n \in SIDES : c \in friend[n].mcs)

\* "Assert that all active currencies must be included inside the
\* wanted_active_currencies" (sender.rs): the assertion never fails.
ActiveAreWanted == \A n \in SIDES : friend[n].panic # "assert"

\* "If disabled, we don't attempt to connect to this friend" (friend.rs).
DisabledIsNotSought == \A n \in SIDES : chan[n].known => friend[n].enabled

\* The relays of the friend that the channeler was given are those the friend
\* sent last: "We should try to connect to this address" (messages.rs).
ChannelerKnowsRelays == \A n \in SIDES : chan[n].known => chan[n].far = friend[n].remote_relays
=============================================================================
