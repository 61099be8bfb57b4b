----------------------------- MODULE NodeReport -----------------------------
(***************************************************************************)
(* The report a node gives of its funder, and what the index client is     *)
(* told of it (proto/src/report/messages.rs, convert.rs; funder/src/       *)
(* report.rs).  A report is a function from friends to [status, liveness,  *)
(* channel, config]: `channel` is Inconsistent, Unset (consistent, the     *)
(* currency is not in use) or what the friend owes; `config` is "none",    *)
(* "closed" or "open".  There is one currency.                             *)
(***************************************************************************)
EXTENDS Integers, Sequences, SequencesExt

CONSTANT MAX_DEBT     \* remote_max_debt of every friend

Inconsistent == -2
Unset == -1
Channels == Inconsistent .. MAX_DEBT

\* FunderReportMutation
Mutation(kind, f, value) == [kind |-> kind, friend |-> f, value |-> value]

NewFriend(value) == [status |-> "Disabled", liveness |-> "Offline",
                     channel |-> value, config |-> "none"]

\* The mutations that do not fail on a report.
Applies(r, m) == IF m.kind = "AddFriend" THEN m.friend \notin DOMAIN r ELSE m.friend \in DOMAIN r

\* FriendReport::mutate
friend_mutate(fr, m) ==
  CASE m.kind = "SetChannelStatus" -> [fr EXCEPT !.channel = m.value]
    [] m.kind = "SetStatus" -> [fr EXCEPT !.status = m.value]
    [] m.kind = "SetLiveness" -> [fr EXCEPT !.liveness = m.value]
    [] m.kind = "CurrencyConfig" -> [fr EXCEPT !.config = m.value]

\* FunderReport::mutate
mutate(r, m) ==
  CASE m.kind = "AddFriend" ->
         [f \in DOMAIN r \cup {m.friend} |-> IF f = m.friend THEN NewFriend(m.value) ELSE r[f]]
    [] m.kind = "RemoveFriend" -> [f \in DOMAIN r \ {m.friend} |-> r[f]]
    [] OTHER -> [r EXCEPT ![m.friend] = friend_mutate(@, m)]

\* NodeReport::mutate: the report of the funder, and whether the index client
\* is connected.
node_mutate(n, m) ==
  IF m.kind = "SetConnectedServer" THEN [n EXCEPT !.server = m.value]
  ELSE [n EXCEPT !.funder = mutate(n.funder, m)]

\* calc_friend_capacities: whether the currency of a friend is open, and what
\* can be received from the friend.
is_open(fr) ==
  /\ fr.status = "Enabled" /\ fr.liveness = "Online" /\ fr.config = "open"
  /\ fr.channel \notin {Inconsistent, Unset}
recv_capacity(fr) == MAX_DEBT - fr.channel

calc_friends_info(r) == [f \in {x \in DOMAIN r : is_open(r[x])} |-> recv_capacity(r[f])]

\* The state of the index client after calc_index_mutations(old, new): what is
\* gone is removed, what is new or has changed is updated.
Told(index, old, new) ==
  LET before == calc_friends_info(old)
      after  == calc_friends_info(new)
      gone   == DOMAIN before \ DOMAIN after
      fresh  == {f \in DOMAIN after : f \notin DOMAIN before \/ before[f] # after[f]}
  IN  [f \in (DOMAIN index \ gone) \cup fresh |-> IF f \in fresh THEN after[f] ELSE index[f]]
=============================================================================
