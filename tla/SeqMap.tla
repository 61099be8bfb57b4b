------------------------------- MODULE SeqMap -------------------------------
(***************************************************************************)
(* The friends of the index client in a cyclic order (index_client/src/    *)
(* seq_map.rs, seq_friends.rs).  A sequential map is a record: `queue` is  *)
(* the order in which next() returns the keys, `map` gives their values,   *)
(* `countdown` is cycle_countdown.                                         *)
(***************************************************************************)
EXTENDS Naturals, Sequences

SmNew(queue, map) == [queue |-> queue, map |-> map, countdown |-> Len(queue)]

Dropped(queue, key) == SelectSeq(queue, LAMBDA k : k # key)

SmUpdate(m, key, value) ==
  [m EXCEPT !.queue = Append(Dropped(@, key), key),
            !.map = [k \in DOMAIN @ \cup {key} |-> IF k = key THEN value ELSE @[k]]]

SmRemove(m, key) ==
  [m EXCEPT !.queue = Dropped(@, key), !.map = [k \in DOMAIN @ \ {key} |-> @[k]]]

reset_countdown(m) == [m EXCEPT !.countdown = Len(m.queue)]

\* next(): the first key is returned and goes to the end.
SmNext(m) ==
  [m EXCEPT !.queue = Append(Tail(@), Head(@)),
            !.countdown = IF @ > 0 THEN @ - 1 ELSE 0]
=============================================================================
