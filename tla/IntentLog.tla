----------------------------- MODULE IntentLog ------------------------------
(***************************************************************************)
(* What Petros promises, with no wire, no files and no faults: one order   *)
(* of intents, replicas that each hold a beginning of it, and intents that *)
(* wait at their author until they are in the order or refused.            *)
(***************************************************************************)
EXTENDS Naturals, Sequences, Functions

CONSTANTS
    Clients,
    Refuses(_, _)   \* Refuses(h, e): e is not valid after the intents h

VARIABLES
    order,      \* the one order
    replica,    \* replica[c]: what c has applied of it
    waiting,    \* waiting[c]: c's intents with no answer yet
    refused,    \* refused[c]: c's intents somebody has refused
    authored    \* authored[c]: c's intents

absVars == <<order, replica, waiting, refused, authored>>

AbsInit ==
    /\ order = <<>>
    /\ replica = [c \in Clients |-> <<>>]
    /\ waiting = [c \in Clients |-> {}]
    /\ refused = [c \in Clients |-> {}]
    /\ authored = [c \in Clients |-> {}]

\* A client makes an intent of its own, after it has refused the waiting
\* ones that no longer hold on what it sees.
Make(c) ==
    \E told \in SUBSET waiting[c], e \in authored'[c] \ authored[c] :
        /\ authored' = [authored EXCEPT ![c] = @ \cup {e}]
        /\ waiting' = [waiting EXCEPT ![c] = (@ \ told) \cup {e}]
        /\ refused' = [refused EXCEPT ![c] = @ \cup told]
        /\ UNCHANGED <<order, replica>>

\* An intent somebody made enters the order, once, at a place where it is
\* valid.
Enter ==
    /\ \E c \in Clients : \E e \in authored[c] :
          /\ e \notin Range(order)
          /\ ~Refuses(order, e)
          /\ order' = Append(order, e)
    /\ UNCHANGED <<replica, waiting, refused, authored>>

\* A client hears: its replica follows the order, and an intent stops
\* waiting only because it is in the order or is refused.
Hear(c) ==
    /\ \E n \in Len(replica[c])..Len(order) :
          replica' = [replica EXCEPT ![c] = SubSeq(order, 1, n)]
    /\ \E told \in SUBSET authored[c] :
          refused' = [refused EXCEPT ![c] = @ \cup told]
    /\ \E gone \in SUBSET waiting[c] :
          /\ gone \subseteq Range(order) \cup refused'[c]
          /\ waiting' = [waiting EXCEPT ![c] = @ \ gone]
    /\ UNCHANGED <<order, authored>>

AbsNext == Enter \/ \E c \in Clients : Make(c) \/ Hear(c)

AbsSpec == AbsInit /\ [][AbsNext]_absVars
=============================================================================
