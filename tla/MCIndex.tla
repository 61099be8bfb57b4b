------------------------------ MODULE MCIndex ------------------------------
(***************************************************************************)
(* The instances of the index modules for TLC.  Every behaviour is one of  *)
(* one of them, chosen by the initial state; the others are off.           *)
(***************************************************************************)
EXTENDS Verifier, Sequences

CONSTANTS
  SERVERS, FRIENDS, LEAVING, REQUESTS, MAX_OPEN_REQUESTS, KEEPALIVE, BACKOFF, MAX_VALUE,
  BASE_MAX_EDGE_AGE, AGE_PER_EDGE, FED, ROUNDS, CAPS, PROMPT, EXPIRING,
  CONNS, PARTS

VARIABLES
  loop, servers, status, task, session, sfs, control, open, events, requests,
  num_open_requests, friends, index, reported,
  feed, graphs, told, server,
  state, conn, attempt, ready, incoming, ends, broken, client, handler

IC == INSTANCE IndexClient
FD == INSTANCE IndexFeed
IS == INSTANCE IndexServer

icVars == <<loop, servers, status, task, session, sfs, control, open, events,
            requests, num_open_requests, friends, index, reported>>
fdVars == <<feed, graphs, told, server>>
isVars == <<state, conn, attempt, ready, incoming, ends, broken, client, handler>>
allVars == <<icVars, fdVars, isVars, vars>>

MCInit ==
  \E part \in PARTS :
    /\ IC!InitAt(IF part = "client" THEN "running" ELSE "off")
    /\ FD!InitAt(IF part = "feed" THEN "running" ELSE "ended")
    /\ IS!InitAt(IF part = "server" THEN "on" ELSE "off")
    /\ InitAt(IF part = "verifier" THEN 0 ELSE MAX_TICK + 1)
    /\ \A n \in NODES : ratchet[n].session = CHOOSE s \in SESSIONS : TRUE

MCNext ==
  \/ IC!Next /\ UNCHANGED fdVars /\ UNCHANGED isVars /\ UNCHANGED vars
  \/ FD!Next /\ UNCHANGED icVars /\ UNCHANGED isVars /\ UNCHANGED vars
  \/ IS!Next /\ UNCHANGED icVars /\ UNCHANGED fdVars /\ UNCHANGED vars
  \/ Next /\ UNCHANGED icVars /\ UNCHANGED fdVars /\ UNCHANGED isVars

MCSpec == MCInit /\ [][MCNext]_allVars /\ IC!Fairness /\ IS!Fairness

\* A friend that changes, and one that leaves.
LastValues == [f \in {"f", "g"} |-> IF f = "f" THEN 2 ELSE 1]

\* Three nodes: the first has two friends in one currency, the second one
\* friend in two currencies, the third one friend.
Rounds ==
  [n \in {1, 2, 3} |-> CASE n = 1 -> <<<<2, "c">>, <<3, "c">>>>
                        [] n = 2 -> <<<<1, "c">>, <<1, "d">>>>
                        [] n = 3 -> <<<<1, "c">>>>]

\* One friend in currency 0 and another one in the currencies 1 to 20.
ManyCurrencies == [n \in {1} |-> <<<<2, 0>>>> \o [i \in 1 .. 20 |-> <<3, i>>]]

\* A server that is removed is left (IndexClient).
RemovedServerIsLeft == IC!RemovedServerIsLeft
\* A lasting session brings the index server up to date (IndexClient).
ServerCatchesUp == IC!ServerCatchesUp
\* The edges of a node that goes on talking do not expire (IndexFeed).
LiveEdgesStay == FD!LiveEdgesStay
\* Removing a node removes no edges of other nodes (IndexFeed).
OnlyItsEdgesGo == [][FD!KeepsOtherEdges]_fdVars
\* The routes found are the routes there are (IndexFeed).
RoutesAreSound == FD!RoutesAreSound
\* Servers and clients find each other again (IndexServer).
EveryoneReturns == IS!EveryoneReturns
=============================================================================
