# Offset: TLA+ specifications

Offset is a decentralised credit network.  Every node runs a *funder*.  Two
nodes that trust each other are *friends* and share a *token channel*: a token
alternates between them, and the side that holds it may send a batch of
operations.  For each currency of the channel both sides keep a *mutual credit*,
a ledger with a balance and the credits frozen by pending transactions.  A
payment is a set of transactions, each of which sends a *request* along a route,
gets a *response*, and ends with a *collect* (the credits move) or a *cancel*.
When friends disagree, the channel is *inconsistent* until one of the users
accepts the other's *reset terms*.

Below the funder a *channeler* keeps one connection per friend, through *relay*
servers, *secure channels* and *keepalive*.  Beside it an *index client* tells an
*index server* which capacities there are and asks it for routes.  Above it an
*application server* serves applications, one of which is the *compact node*, and
a *compact server* runs several of those.

Paths below are relative to `src/components/`.

## Modules

| Part | Code | Modules |
|---|---|---|
| Mutual credit | `funder/src/mutual_credit/` | `MutualCredit`, `MutualCreditPair`, `MutualCreditProofs` |
| Token channel | `funder/src/token_channel.rs`, `channeler/src/overwrite_channel.rs` | `TokenChannel`, `TokenLog`, `TokenChannelProofs` |
| Inconsistency and reset | `funder/src/friend.rs`, `handler/handle_friend.rs`, `sender.rs` | `FriendChannel` |
| Currencies and relays of a friend | `friend.rs`, `handler/handle_control.rs`, `handle_init.rs`, `sender.rs` | `FriendConfig` |
| Payments | `funder/src/handler/*`, `state.rs`, `funder.rs` | `Funder`, `FunderNetwork` |
| Channeler | `channeler/src/`, `relay/src/client/` | `Channeler`, `ConnectPool`, `ListenPool` |
| Relay | `relay/src/server/`, `relay/src/client/` | `RelayServer` |
| Secure channel | `secure_channel/src/`, `crypto/src/sym_encrypt.rs`, `version/src/` | `SecureChannel`, `FifoChannel` |
| Keepalive, timer | `keepalive/src/`, `timer/src/` | `KeepAlive`, `Timer` |
| Index client | `index_client/src/` | `IndexClient`, `SeqMap`, `IndexFeed` |
| Index server | `index_server/src/` | `IndexServer`, `IndexFeed`, `CapacityGraph`, `Verifier`, `VerifierProofs` |
| Application server | `app_server/src/`, `funder/src/report.rs` | `AppServer`, `NodeReport` |
| Compact node and server | `stcompact/src/` | `CompactNode`, `CompactServer`, `FileStore` |

Modules named `MC...` give constants their values, or put several components
into one run: `MCLink`, `MCIndex`, `MCApps`.  In the last two each initial state
has one of the parts at work and the others off (`PARTS`), so that a run checks
the parts one after the other, and properties hold of a part that is off.  In the
same way an initial state of `MCChanneler` picks one of four subjects.

### The funder

`MutualCredit` has no state of its own: a ledger is a record, and for each of
the four operations there is a pair of operators on both sides.
`Queue...Check`/`Process...Check` are the conditions and early returns of
`outgoing.rs`/`incoming.rs` in their order, with the error they return, or
`"Panic"` where an `unwrap()` fails; `Queue...`/`Process...` are the mutations.
Integers are bounded by `MaxI128` (`i128`) and `2 * MaxI128 + 1` (`u128`).  A
signature or a route is abstracted to `well_formed`.  `MutualCreditPair` puts two
ledgers at the ends of a wire: `Queue` is `queue_operation`,
`Receive`/`Process`/`Received` are `process_operations_list` on a clone of the
ledger that replaces it only when every operation succeeds.  `FunderMayQueue` is
the one thing the ledger needs from its funder: a refused request
(`RequestCancel`) is only ever canceled.

`TokenChannel` has two friends over a connection that breaks, loses what was on
the way, and overwrites a message that was not passed on yet.  `tc` is the
direction with the last move token; ledgers are abstracted to the sequence `view`
of operations applied to them.  `Receive` is `handle_move_token_request` with
`simulate_receive_move_token`: duplicate, retransmission, acceptance or one of
the errors.  `TokenLog` says what the channel promises: a log that the two sides
extend in turns.  `ImplementsTokenLog` maps the log to the view of the side that
is ahead.

`FriendChannel` has the same two friends when a batch may be refused:
`HandleMoveTokenError` and `HandleInconsistencyError` break the channel and
exchange reset terms, `UserResetsChannel` is `apply_local_reset`,
`TryResetChannel` the other side of it.  A request is worth one credit, and
whether a ledger refuses a batch is a choice.  `fate` is what the author of a
request was told.

`FriendConfig` follows what else a move token carries: the currencies a side
wants active and the relays it uses.  A relay is a pair of its key and its
address, which may change; `to_vec` keeps one address per key.  `friend[n]` is the
`FriendState` of one side with `SentLocalRelays`, the configured currencies and the
channel status; `chan[n]` is what `handle_init.rs` and the handlers tell the channeler.  Commands
are named after the handlers (`control_set_friend_currency_rate`,
`control_remove_friend_currency`, ...).  A token is known by its place in the
chain modulo 3, enough because tokens that meet are at most one place apart,
which is what `TokenChannelProofs` proves.

`Funder` has one operator per handler, from a node's state to its next state;
`halt = "Panic"` stands for every `unwrap()`, `assert!` and `unreachable!()` the
handlers rely on.  A node that removes a friend keeps its ledger in the model, to
know the requests it still had of that friend (`Orphans`); no handler looks there.
`FunderNetwork` composes nodes: an action is one call of `funder_handle_message`,
the sending of what waits included.  Channels move
batches in turns and exactly once, which is what `TokenLog` promises and
`TokenChannel` implements; ledgers are those of `MutualCredit`.

### Connections

`Channeler` is the loop of `inner_loop.rs`, with a record of `ConnectPool` for
every friend it seeks and one of `ListenPool` for those that seek it.  Events of
tasks (`ReceiverClosed`, reports of connection attempts, `RelayClosed`) are
separate actions, handled in any order, and carry as little as in the code: a
friend or an address, not the connection they are about.  Friends are removed and
added again, and relays taken away and given back, at any moment; `unsettled`
remembers the friends to which this happened before their earlier pool or attempts
had ended.  `SecureChannel` has two
sides with handshake, nonces and rekeys; its wire keeps order.  `FifoChannel` is
what users of it may rely on: what comes out is a prefix of what went in, and a
channel ends but does not break.  `KeepAlive` drives two `keepalive_loop`s with
the timers of `Timer`.  `RelayServer` is `conn_processor.rs` in front of
`server_loop.rs`.

### Index

`IndexClient` has the main loop, the connection task, `send_full_state` and the
session as four actors with channels of capacity 0 between them.  `IndexFeed`
takes the messages of index clients (keepalives and mutations, with the sequence
map `SeqMap`) to the graphs of a server (`CapacityGraph`); the search for routes
is `bfs` and its reference definition `Reach`.  `IndexServer` has two servers and
a client that lose and regain connections.  `Verifier` is the hash clock and the
ratchet pool, with the messages it accepted in `heard`.

### Users

`AppServer` keeps a report (`NodeReport`), copies of it at the applications, and
the requests without an answer.  In `CompactNode` a handler is the sequence of
its effects, and a crash may come after each: the database (`db`) stays, messages
and memory go.  The node behind it is what app server and funder do with a payment
of one application (`handle_app_message`, the `control_...` handlers of payments,
`handle_response_send_funds`, `remove_transaction`, `handle_collect_send_funds`);
when its friends answer is left open.  `CompactServer` is the loop of `stcompact/src/server_loop.rs` over
`FileStore`.

### Crashes

The mutations of a handler are written atomically before anything is sent
(`funder.rs`, `file_db.rs`), so a crash of a funder falls between two actions,
together with the loss of any suffix of what was sent last.  Liveness of friends
is ephemeral: after a restart everybody is offline.  The compact node writes,
sends and tells in several steps, and crashes between them.

## Runs

| Run | Shows | Bounds |
|---|---|---|
| `mutual_credit` | `MirroredAtRest`, `FrozenCreditsAreAccounted`, `OnlyOverflowBreaksTheChannel`, `ExposureGrowsWithinLimit` | 2 request ids, `MaxI128 = 2`, batches of 2 |
| `token_channel` | `StaysConsistent`, `ImplementsTokenLog`, `AnswersArrive` | 2 and 1 operations, batches of 1, 2 breaks or crashes |
| `friend_channel` | `ChainsAgree` (one holder, mirrored ledgers on chains that meet), `FateIsFinal`, `ResetArrives` | 1 break or crash, 1 refused batch, 2 resets |
| `friend_config` | `CurrenciesAgree`, `RecordIsListenedAt`, `CurrencyOpens` | 1 currency, 3 commands, 1 fault; one side has 2 relays, one of them with 2 addresses, the other side 1 |
| `funder` | `OnlyKnownStops`, `BooksAgree`, `NobodyOverpays`, `CommitCollectsTotal`, `PaymentsEnd` | a payment in two parts over three nodes, one disturbance (a connection, a restart, a setting, or the removal of a friend, the next one or the one requests come from); or one part and a transaction larger than the payment |
| `channeler` | `LivenessIsReported`, `AccessControlFollows`, `OutFriendsConnect`, `ListenersReturn` | 1 friend with 1 relay that is removed and returns; 1 friend with 2 relays that change; 1 relay of ours and its listeners; 1 friend that seeks us.  2 connections, 2 listeners, 2 reports that wait (`MAX_REPORTS`) |
| `link` | `ImplementsFifoChannel`, `RekeyEnds`, `LivePeerIsKept`, `SilentPeerIsDropped`, `NoTickIsMissed`, `HalfTunnelsEnd` | up to 2 rekeys per side; `keepalive_ticks` 6, 1 tick of delay and of lag; 1 listener and 1 connector with 2 listening connections |
| `index` | `RemovedServerIsLeft`, `ServerCatchesUp`, `LiveEdgesStay`, `RoutesAreSound`, `EveryoneReturns`, `AcceptedInOrder` | 1 server and 2 friends of a client, one that changes and one that leaves; 3 nodes in graphs of 2 currencies, 2 capacities; 2 servers with 3 connections; 2 sessions of 2 messages, 4 ticks, 4 accepted messages (`MAX_HEARD`) |
| `apps` | `AppsStayInStep`, `OutcomeIsTrue`, `PaymentIsDecided`, `OpenOnce`, `EnabledIsOpened` | 2 applications; 1 payment of 2 transactions, or 1 invoice, 2 crashes; 1 local and 1 remote node |
| `friend_assert`, `index_node`, `app_closed` | violations, see *Findings* | |

Why the bounds are enough for the cases of interest.

* `mutual_credit`: the freezes are 1 and 3 against a largest `i128` of 2 and
  limits 0, 2 and 5, so that requests are accepted, refused and overflow.  Two
  operations per batch let a request meet the answer of another.
* `token_channel`, `friend_channel`: one break between any two steps separates
  the two sides by one move token, the most they can be apart.
* `friend_config`: three commands are the fewest for which a currency is
  configured by both sides and one changes its mind; currencies do not depend on
  each other.
* `funder`: two parts are the fewest for which a payment is partly collected, and
  a middle node the least for forwarding; a disturbance may happen before every
  step.  Both parts take the same route: parts that reach the seller from two
  friends are not covered.
* `channeler`: two connections of a friend, and two listeners of a relay, are an
  old one whose end is not handled yet and a new one.  Each initial state has
  one subject, since the pools share nothing but the loop.  Two reports of
  attempts that a pool has not read are a late one and the one it waits for.
* `link`: two rekeys per side let a second start while the first of the other
  side is on its way.
* `index`: `BASE_MAX_EDGE_AGE` and `AGE_PER_EDGE` are 1 instead of 16 and 3, so
  that edges expire within few messages.  Less room makes `LiveEdgesStay` harder
  to satisfy, not easier.  Two nodes that name each other and a third that names
  one of them give edges told of by one side only, and one node has a friend in
  two currencies.
* `apps`: two crashes let the recovery from one crash be hit by another.

More breaks, nodes, sessions or payments are not covered by TLC; for the ledgers,
the token channel and the verifier the proofs cover them.  Deadlock is not checked
where the system may stop: all payments made, all bounds used up, or a loop that
has returned.

### Fairness

Loops take the events that wait for them.  This is weak fairness, except where a
loop selects from several streams that may all have something (`select_streams`
serves them in turn, so none starves): there it is strong fairness of each.

* `TokenChannel`, `FriendChannel`: establishing a connection, the notice that the
  friend is online or offline, handling an arrived message.  The channeler
  retries for ever, which is what run `channeler` shows.
* `FriendConfig`: reading a message and the notice that the friend is online.
* `FunderNetwork`: reconnection and handling batches, written as
  `[]<>~Guard \/ []<><<A>>_vars`.
* `Channeler`: the loops and the timer; and an attempt that is made again and
  again succeeds at some time (`Connects`, `Listens`): without it nothing can
  ever connect.
* `SecureChannel`, `RelayServer`, `IndexServer`, `IndexClient`, `CompactNode`,
  `CompactServer`: their tasks run; timers tick; a remote that is tried again and
  again answers in the end.
* `KeepAlive`: the interval ticks and the loops run.  How late they are is not
  fairness but the bounds `DELAY` and `LAG`, in `Interval`.

Users need not do anything, and faults need not happen.  Where faults are
bounded, liveness speaks of the time after the last one; `EveryoneReturns` says so
itself.

## Proofs

Checked by TLAPS, for every value of the constants that satisfies the named
`ASSUME`s (all in the modules that declare the constants).

`MutualCreditProofs` (over `MutualCreditPair`):
* `TypeCorrect`: `TypeOK` is invariant, so no addition or subtraction of the
  ledger leaves its integer type.
* `LedgersAgree`: at rest the ledgers are mirror images (`MirroredAtRest`).
* `OnlyOverflow`: `OnlyOverflowBreaksTheChannel`.
* `ResetNeverOverflows`: reset terms and their negation fit (`ResetTermsFit`).

`MirroredAtRest` is not inductive, since most of the time operations are on the
wire.  The inductive invariant `IInv` asks for the trail of ledgers that the
sender went through while it queued what is on the wire: the first is the mirror
of the receiver's ledger, and each accepted the operation that led to the next.
Then one operation at a time has to be considered (lemma `QueueThenProcess`): the
receiver accepts it because its mirror did.  `IInv` also narrows the types: a
balance is never `i128::MIN`, and a balance plus the friend's frozen credits fits
an `i128`.

`TokenChannelProofs` (over `TokenChannel`):
* `TypeCorrect`, `Consistent` (`StaysConsistent`), `HolderKnowsAll`
  (`HolderIsUpToDate`), and `Refinement` (`ImplementsTokenLog`).

The inductive invariant says where the two sides are relative to each other:
either one holds the token that the other sent last (`Synced`), or the last move
token of one continues the last of the other (`InTransit`), and its token info
commits to the operations applied.  What is on its way to a side is then limited
to two move tokens, never the newer before the older, which makes it safe to
repeat a move token and to let a newer message replace an older one.

`VerifierProofs` (over `Verifier`):
* `InOrder`: `AcceptedInOrder`.  Of the messages of a session each is accepted at
  most once and in order, up to the next message of another session of the node
  that is accepted: that one resets the ratchet (`ratchet.rs`), and older messages
  with a recent time hash are then taken again.

Its inductive invariant adds that later messages of a session bear later time
hashes (`Monotonic`) and that whatever was accepted is either out of date or
remembered by a ratchet that will live at least as long as its time hash
(`AllRemembered`).  The last is the off-by-one that a comment in
`simple_verifier.rs` warns of.

Only model-checked: liveness (fairness and `ENABLED` are outside the prover),
`FrozenCreditsAreAccounted` (a sum over a set), `ExposureGrowsWithinLimit`, what
`bfs` computes (an iteration over data), and everything about the other modules.

## Findings

Runs that end in a violation:

* `friend_assert`: a user configures a currency and removes it after it was sent
  to the friend and before the friend's token makes it active.
  `control_remove_friend_currency` refuses only active currencies, so an active
  currency ends up outside of the configuration and the assertion in
  `collect_outgoing_move_token` (`sender.rs:634`) fails.
* `index_node`: `RemoveNode` keeps the graphs for which `remove_node` returns
  true, which are the empty ones; one expired node takes the edges of all others
  with it (`graph_service.rs:64`).
* `app_closed`: an application that was removed for lack of permission is removed
  again, with `unwrap()`, when its connection closes (`app_server/src/server.rs:377`).

### Other disagreements met while modelling

These are steps or states of the modules above that contradict a comment or leave
something unfinished.  They have no run of their own; what to change to see one is
in parentheses.

* After the friend a request came from is removed the funder takes the request
  for its own ("It means that we are the origin of this request",
  `handle_friend.rs:490`), and an invoice keeps requests of a removed friend ("must
  be from an existing friend", `handle_control.rs:1075`).  Both happen in run
  `funder`: the next answer, cancellation or request for the invoice stops the
  node, which answers "TODO: Can this unwrap() ever panic?" (`canceler.rs:59`), and
  a commit of the invoice passes the request over.  `OnlyKnownStops`, `BooksAgree`
  and `CommitCollectsTotal` say that this is so for such requests (`Orphans`) and
  for no others.
* `CreateTransaction` for an unknown or closing payment gets no
  `TransactionResult` (`handle_control.rs:806`).
* A transaction for more than its payment's total is refused by the ledger when
  the funder already counts on it: `unreachable!()` in `sender.rs:137`.  Transaction
  `u3` of run `funder` shows it; `OnlyKnownStops` says that the ledger refuses
  nothing else.
* `handle_inconsistency_error` cancels the requests that wait and not the ones
  that were sent, while `handle_move_token_error` cancels both
  (`handle_friend.rs:1093`, `token_channel.rs:152`).
* Removing a currency while the channel is inconsistent reaches `unreachable!()`
  (`friend.rs:271`; a step of `FriendConfig`, not reported by its properties).
* A friend that is disabled may still be sought (`friend.rs:145`), and the
  channeler may look for a friend at other relays than the ones the friend sent
  last: they are recorded, but passed on only while the node's own relays are in
  transition (`handle_friend.rs:896`, `proto/src/funder/messages.rs:34`).
  `DisabledIsNotSought` and `ChannelerKnowsRelays` of `FriendConfig` fail.
* A node that removed its last relay listens for a friend nowhere, and its next
  relay is not used for that friend until the next `UpdateFriend`
  (`listen_pool_state.rs:48`), which a reset omits; `RecordIsListenedAt` is about
  nodes that listen somewhere.
* A canceled connection attempt that reports late meets `unreachable!()`
  (`connect_pool.rs:298`), and a friend that is removed and added again at once may
  make the new pool refuse a second request (`MultipleConnectRequests`).  Both
  happen in run `channeler`; nothing replaces the pool, and `OutFriendsConnect` says
  that friends are given up only then.  Updating a friend whose pool has ended ends
  the channeler (`ConnectorConfigError`).
* `max_edge_age` counts the friends of a node in one currency, but a message
  carries one friend of any currency: with one friend in a currency and 20 pairs
  in others, the edge expires although the node talks (`simple_capacity_graph.rs:50`).
  `LiveEdgesStay` is about the other nodes (`ComesRound`); without that condition it
  fails with `ROUNDS <- ManyCurrencies` and the constants 16 and 3.
* Compact node: a request to close a payment that an earlier connection sent may
  reach the app server after the one of the present connection and take its answer
  away (`app_server/src/server.rs`, "payment_id clash"); the user is then told
  nothing (`overtaken` in `PaymentIsDecided`).
* `RemoveEdge` for a currency without a graph is not answered, which ends the
  server loop (`graph_service.rs:59`).
* Index mutations are computed from the report after a whole batch, so a batch
  that adds and removes the same thing tells the index client something else than
  the report (`app_server/src/server.rs:289`; `IndexFollowsReport` fails with
  `MAX_BATCH = 2`).
* Compact node: a payment may stay open at the node after it is gone from the
  compact node's database (`handle_node.rs:279`); an invoice may be in the database
  and never reach the node (`handle_user.rs:603`); a commit that was checked is not
  kept across a crash (`persist.rs:22`).  `NodeForgetsPayments`,
  `InvoicesReachTheNode` and `VerifiedCommitIsHeld` of `CompactNode` fail.
* `gen_reset_terms` comments "We add 2 for the new counter" and adds 1, which
  `ChainsAgree` and `ResetArrives` show to be enough.

## Not modelled

`PROJECT.json` lists every part with the reason.  In short: cryptographic
primitives and signatures (assumed: a token is a fresh value, a ciphertext opens
under its own key and nonce only); the nonce window, which nothing uses; encodings
and generated conversions; rates and the arithmetic of fees and of `multi_route`
(`get_multi_route` also finds no route when rates overflow);
the identity server, a loop around one key; the wiring in `node`, `channeler.rs`
and `index_server/src/server.rs`; sockets, files and the queue in front of the
database; the connection limiter of the relay; tunnels of the relay once they are
joined; permissions and conversions of the compact node; command line tools; tests;
and `freeze_guard_legacy.rs`, which is not compiled.

Abstracted away in what is modelled: several currencies in `FunderNetwork` (they
share the channel and nothing else), rates in all modules, and the composition of
`FunderNetwork` with `Channeler`, whose promise (connections come and go, and come
back) is part of the channels there.
