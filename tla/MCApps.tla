------------------------------ MODULE MCApps ------------------------------
(***************************************************************************)
(* The instances of the modules on the side of the users for TLC: the      *)
(* application server, the compact node and its server.  Every behaviour   *)
(* is one of one of them, chosen by the initial state; the others are off. *)
(***************************************************************************)
EXTENDS Naturals, Sequences

CONSTANTS
  APPS, FORBIDDEN, PEERS, UIDS, MAX_BATCH, INBOX, MAX_DEBT,
  PAYMENTS, INVOICES, TXS, MAX_CRASHES, UNREAD,
  LOCALS, REMOTES, TICKS_TO_CONNECT, IDS, REQS, QUEUE, MAX_DOWN,
  PARTS

VARIABLES
  as, app_counter, accepts, apps, task, report, copy, inbox, told, asked,
  cn, db, to_node, from_node, node, heard, pending, crashes,
  srv, store, pre_open, open, next_id, events, acks, downs

AS == INSTANCE AppServer
CN == INSTANCE CompactNode WITH told <- heard
CS == INSTANCE CompactServer

asVars == <<as, app_counter, accepts, apps, task, report, copy, inbox, told, asked>>
cnVars == <<cn, db, to_node, from_node, node, heard, pending, crashes>>
csVars == <<srv, store, pre_open, open, next_id, events, acks, downs>>
allVars == <<asVars, cnVars, csVars>>

MCInit ==
  \E part \in PARTS :
    /\ AS!InitAt(IF part = "app server" THEN "running" ELSE "off")
    /\ CN!InitAt(IF part \in {"buyer", "seller"} THEN "down" ELSE "off",
                 IF part = "seller" THEN INVOICES ELSE PAYMENTS)
    /\ CS!InitAt(IF part = "compact server" THEN "down" ELSE "off")

MCNext ==
  \/ AS!Next /\ UNCHANGED <<cnVars, csVars>>
  \/ CN!Next /\ UNCHANGED <<asVars, csVars>>
  \/ CS!Next /\ UNCHANGED <<asVars, cnVars>>

MCSpec == MCInit /\ [][MCNext]_allVars /\ CN!Fairness /\ CS!Fairness

\* An app that has read everything has the report of the server (AppServer).
AppsStayInStep == AS!AppsStayInStep
\* An application that closes is in the map of applications (AppServer).
ClosedAppExists == AS!ClosedAppExists
\* What the user is told of a payment is what became of it (CompactNode).
OutcomeIsTrue == CN!OutcomeIsTrue
\* A payment that was sent is decided, and the user is told (CompactNode).
PaymentIsDecided == CN!PaymentIsDecided
\* A node is open at most once (CompactServer).
OpenOnce == CS!OpenOnce
\* A remote node that is enabled is opened (CompactServer).
EnabledIsOpened == CS!EnabledIsOpened
=============================================================================
