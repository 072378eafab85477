----------------------------- MODULE PetrosSync -----------------------------
(***************************************************************************)
(* The sync engine whole: clients, the server and the network between      *)
(* them, with what makes it hard - lost, repeated and overtaken messages,  *)
(* dropped connections, crashes between commits, restarts, failures in the *)
(* middle of a Push.                                                       *)
(***************************************************************************)
EXTENDS PetrosClient, PetrosServer

vars == <<netVars, clientVars, serverVars>>

Init == NetInit /\ ClientInit /\ ServerInit

\* A connection goes, taking what is in flight with it; both ends notice.
\* The server finishes the Push it is handling first: it holds the lock.
Hangup(c) ==
    /\ carried' = [carried EXCEPT ![c] = FALSE]
    /\ up' = [up EXCEPT ![c] = {}]
    /\ down' = [down EXCEPT ![c] = {}]
    /\ UNCHANGED <<run, held, cursor, base, pending, authored, refused, broken>>

Disconnect(c) ==
    /\ carried[c]
    /\ ~Working(c)
    /\ Fault("disconnect")
    /\ Hangup(c)
    /\ Forget(c)
    /\ UNCHANGED <<log, work>>

\* A transport closes a connection the server has turned away.
CloseDenied(c) ==
    /\ carried[c]
    /\ ~Trusting
    /\ work = Idle
    /\ c \notin DOMAIN conns
    /\ Hello(cursor[c]) \notin up[c]
    /\ Hangup(c)
    /\ UNCHANGED <<faults, serverVars>>

\* A handler fails and the transport closes the connection it failed on.
FailPush(c) == IoFail(c) /\ Hangup(c)

CrashClient(c) ==
    /\ ~Working(c)
    /\ Crash(c)
    /\ Forget(c)
    /\ UNCHANGED <<log, work>>

RestartServer ==
    /\ Restart
    /\ carried' = [c \in Clients |-> FALSE]
    /\ UNCHANGED <<run, held, cursor, base, pending, authored, refused, broken>>

Next ==
    \/ \E c \in Clients :
          \/ ClientNext(c) /\ UNCHANGED serverVars
          \/ ServerNext(c) /\ UNCHANGED clientVars
          \/ Lose(c) /\ UNCHANGED <<clientVars, serverVars>>
          \/ Disconnect(c)
          \/ CloseDenied(c)
          \/ FailPush(c)
          \/ CrashClient(c)
    \/ RestartServer

Spec == Init /\ [][Next]_vars

TypeOK == NetTypeOK /\ ClientTypeOK /\ ServerTypeOK

----------------------------------------------------------------------------
(* Safety *)

\* Exactly once: however often an entry is pushed again, whoever lost the
\* answer, the log has it at one place (server::append_all, store::seq_of).
LoggedOnce ==
    \A i, j \in DOMAIN log : log[i] = log[j] => i = j

\* f says of the log only what the log says.
Agrees(f) == \A s \in DOMAIN f : s <= head /\ f[s] = log[s]

\* Every sequence number a client holds, whether a Batch or an Ack brought
\* it, and whatever the client already held, is the server's.
HeldAgrees == \A c \in Clients : Agrees(held[c])

\* What a client has applied is the log up to its cursor: nothing skipped,
\* nothing twice, nothing out of order, across crashes and gaps.
BaseIsLog ==
    \A c \in Clients :
        /\ cursor[c] <= head
        /\ base[c] = SubSeq(log, 1, cursor[c])

\* A confirmed entry is refused on a client only for its verb, which the
\* client's app is too old to have: the server appended it after exactly the
\* entries the client applies it after, so the verdict is the same there.
ConfirmedApplies ==
    \A c \in Clients : broken[c] =>
        \E s \in DOMAIN held[c] : s > cursor[c] /\ ~Knows(c, held[c][s])

\* No mutation disappears: what a client has authored is still pending, in
\* the log, or was refused.
NothingLost ==
    \A c \in Clients : authored[c] \subseteq pending[c] \cup refused[c] \cup Range(log)

\* The view never counts an entry twice: on a running client nothing is
\* pending that its own log already has.
PendingUnconfirmed ==
    \A c \in Clients : run[c] => pending[c] \cap Range(held[c]) = {}

\* Nothing gets into the log but as somebody its device could prove to be, on
\* the connection it was pushed on: not in front of a Hello, not on one that
\* was let in and then turned away, not as the last user of the connection.
LogPermitted ==
    ~Trusting =>
        \A i \in DOMAIN log : \E u \in Proves[log[i].by] : Permitted(u, log[i])

\* c could have been signed in as somebody who may not push e, or the app
\* refuses e after a beginning of the log without it, and mutations c made
\* before it.
Grounds(c, e) ==
    \/ ~Trusting /\ \E u \in Proves[c] : ~Permitted(u, e)
    \/ \E n \in 0..head, before \in SUBSET {f \in authored[c] : f.n < e.n} :
          LET h == SubSeq(log, 1, n)
          IN  e \notin Range(h) /\ RefusesAt(c, h \o InOrder(before), e)

\* A refusal is a verdict on the mutation (error.rs), whoever reaches it and
\* whatever was lost, repeated or overtaken on the way: what has been refused,
\* or is about to be, is refused for what it says and what came before it.
RefusalsAreVerdicts ==
    \A c \in Clients :
        /\ \A e \in refused[c] : Grounds(c, e)
        /\ \A m \in down[c] : m.type = "Reject" => Grounds(c, m.id)

----------------------------------------------------------------------------
(* Why they hold: the inductive invariant the proofs are about             *)

\* Every entry of the log was accepted by the app after the ones before it.
LogValid == \A i \in DOMAIN log : ~Rejects(Before(log, i), log[i])

\* Every Batch and Ack in flight says of the log what the log says.
WireAgrees ==
    \A c \in Clients : \A m \in down[c] :
        m.type \in {"Batch", "Ack"} => Agrees(m.entries)

\* A client's entries, wherever they are, are ones it made.
OwnAuthored ==
    \A c \in Clients :
        /\ pending[c] \cup refused[c] \subseteq authored[c]
        /\ \A m \in up[c] : m.type = "Push" => m.entries \subseteq authored[c]
        /\ \A m \in down[c] : m.type = "Reject" => m.id \in authored[c]
        /\ Working(c) => work.todo \subseteq authored[c]

\* Unless it trusts everybody, the server knows who is on a connection for as
\* long as it knows the connection, and handles the Push of no other.
Identified ==
    /\ \A c \in Clients : Working(c) => c \in DOMAIN conns
    /\ \A c \in Clients : who[c] \subseteq IF Trusting THEN {} ELSE Proves[c]
    /\ ~Trusting => \A c \in DOMAIN conns : who[c] # {}

LogAuthored == \A i \in DOMAIN log : \E c \in Clients : log[i] \in authored[c]

\* All of it together, checked here and proved inductive in PetrosSync_proofs.
IInv ==
    /\ TypeOK
    /\ LoggedOnce
    /\ Identified
    /\ LogPermitted
    /\ LogValid
    /\ LogAuthored
    /\ Agrees(work.acks)
    /\ WireAgrees
    /\ HeldAgrees
    /\ BaseIsLog
    /\ ConfirmedApplies
    /\ OwnAuthored
    /\ NothingLost

----------------------------------------------------------------------------
(* What a step may never do *)

\* Once an author has been told that a mutation is refused, the log never
\* gains it.
RefusedStaysOut ==
    [][\A c \in Clients : \A e \in refused[c] : Logged(e)' => Logged(e)]_vars

----------------------------------------------------------------------------
(* The promise kept: every step of the engine is a step of IntentLog.      *)

Promise == INSTANCE IntentLog WITH
    Refuses <- Rejects, order <- log, replica <- base, waiting <- pending,
    refused <- refused, authored <- authored, Clients <- Clients

\* The sync engine implements the one order of intents.
KeepsPromise == Promise!AbsSpec

----------------------------------------------------------------------------
(* Progress.  The transports deliver what is in flight on a connection     *)
(* that lasts, reconnect one that does not, and an app that stopped is     *)
(* opened again; nobody is obliged to author anything.                     *)

Fairness ==
    \A c \in Clients :
        /\ WF_vars(Connected(c) /\ UNCHANGED serverVars)
        /\ WF_vars(Open(c) /\ UNCHANGED serverVars)
        /\ WF_vars(RecvBatch(c) /\ UNCHANGED serverVars)
        /\ WF_vars(RecvAck(c) /\ UNCHANGED serverVars)
        /\ WF_vars(RecvReject(c) /\ UNCHANGED serverVars)
        /\ WF_vars(HandleHello(c) /\ UNCHANGED clientVars)
        /\ WF_vars(TakePush(c) /\ UNCHANGED clientVars)
        /\ WF_vars((AckAgain(c) \/ Append1(c) \/ Refuse(c)) /\ UNCHANGED clientVars)
        /\ WF_vars(FinishPush(c) /\ UNCHANGED clientVars)

FairSpec == Spec /\ Fairness

\* In the end everybody has an answer for everything and the same rows as
\* the server: what Sim::settle and tests/converge.rs wait for.
Converges ==
    <>[](\A c \in Clients : pending[c] = {} /\ base[c] = log)
=============================================================================
