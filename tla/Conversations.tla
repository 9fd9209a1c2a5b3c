---------------------------- MODULE Conversations ----------------------------
(***************************************************************************)
(* What the session store and the chat handlers together promise about     *)
(* conversations.  A session is opened once.  While it is open its log     *)
(* only grows, one whole turn at a time, at its end; nothing in it is      *)
(* changed, dropped or reordered, and a turn is logged once, in one        *)
(* session.  Sessions close (by expiry, deletion or a restart) at any      *)
(* time, several at once; a closed session never opens again, nothing is   *)
(* logged in it, and its log is gone.                                      *)
(***************************************************************************)
EXTENDS Sequences, FiniteSets

CONSTANTS Ids, TurnIds

VARIABLES
  opened,     \* ids ever opened
  open,       \* ids open now
  log         \* the turns of each id, empty when it is not open

vars == <<opened, open, log>>

Logged(t) == \E s \in Ids : \E i \in DOMAIN log[s] : log[s][i] = t

Init ==
  /\ opened = {} /\ open = {}
  /\ log = [s \in Ids |-> <<>>]

Open ==
  /\ \E s \in Ids \ opened : opened' = opened \cup {s} /\ open' = open \cup {s}
  /\ UNCHANGED log

LogTurn ==
  /\ \E s \in open, t \in TurnIds :
       /\ ~Logged(t)
       /\ log' = [log EXCEPT ![s] = Append(@, t)]
  /\ UNCHANGED <<opened, open>>

Close ==
  /\ open' \subseteq open /\ open' # open
  /\ log' = [s \in Ids |-> IF s \in open' THEN log[s] ELSE <<>>]
  /\ UNCHANGED opened

Next == Open \/ LogTurn \/ Close

Spec == Init /\ [][Next]_vars
=============================================================================
