---------------------------- MODULE MCChanneler ----------------------------
(***************************************************************************)
(* Out friends and in friends do not interact, and neither do the ends of  *)
(* the listeners and the connections of the friends that came through      *)
(* them: a behaviour has one subject, chosen once, and leaves out what the *)
(* others are about.  Only what the funder asks for and what the network   *)
(* does is left out, never a step of a loop or of a task.                  *)
(***************************************************************************)
EXTENDS Channeler

VARIABLE subject

mcVars == <<vars, subject>>

MCInit == Init /\ subject \in {"a returning friend", "changing relays",
                               "listeners", "in friends"}

\* A friend that is removed and added again, before or after its connections
\* and its pool have ended; it has one relay or none.
OneRelay == \A k \in Pools : \A i \in DOMAIN pools[k].configs :
              pools[k].configs[i] \in {{}, {CHOOSE a \in FRIEND_RELAYS : TRUE}}
ReturningFriend == lp' = lp /\ OneRelay'

\* A friend that stays, whose relays are given, taken away and given back.
ChangingRelays == lp' = lp /\ DOMAIN friends \subseteq DOMAIN friends'

\* Listeners that end at any time; nobody connects.
Listeners == pools' = pools /\ conns' = conns

\* In friends that come, go and return; no local relay is taken away, and a
\* listener ends only with its relay.
KeepsLocalRelays ==
  \A i \in DOMAIN lp.configs :
    lp.configs[i].op = "SetLocalAddresses" => lp.local_addresses \subseteq lp.configs[i].addresses
InFriends ==
  /\ pools' = pools
  /\ KeepsLocalRelays'
  /\ \A i \in 1..MAX_LISTENERS :
       lp.listeners[i].state = "listening" /\ HasSender(lp, i)
         => lp'.listeners[i].state = "listening"

MCNext ==
  /\ Next
  /\ subject' = subject
  /\ subject = "a returning friend" => ReturningFriend
  /\ subject = "changing relays" => ChangingRelays
  /\ subject = "listeners" => Listeners
  /\ subject = "in friends" => InFriends

MCSpec == MCInit /\ [][MCNext]_mcVars /\ Fairness
=============================================================================
