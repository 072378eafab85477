---------------------------- MODULE PetrosServer ----------------------------
(***************************************************************************)
(* The server half of the sync engine, crates/petros/src/server.rs: the    *)
(* log, the connections, and the handlers of Hello and Push.               *)
(*                                                                         *)
(* A Push is handled one entry at a time, because each entry is appended   *)
(* in a transaction of its own: work holds the Push being handled, and     *)
(* while it does nothing else reaches the server, which its callers keep   *)
(* behind one lock.  The app's tables on the server are not a variable:    *)
(* append_one applies an entry and writes its log row in one transaction,  *)
(* so they are the log applied.                                            *)
(***************************************************************************)
EXTENDS PetrosProtocol

VARIABLES
    log,     \* petros_log: the entries in the order the server gave them
    conns,   \* conns[c]: the last sequence number sent on c's connection
    who,     \* who[c]: the user c's connection proved to be, or nobody
    work     \* the Push being handled: whose, what is left, what to answer

serverVars == <<log, conns, who, work>>

head == Len(log)

Idle == [from |-> {}, todo |-> {}, acks |-> Nothing]

Working(c) == work.from = {c}

\* The entries of the log after `after` up to `last`, as a Batch carries them.
Slice(after, last) == [s \in (after + 1)..last |-> log[s]]

Lesser(a, b) == IF a <= b THEN a ELSE b

----------------------------------------------------------------------------
\* fanout: every connection in cs that is behind is sent the next batch; d
\* is what the handler has already put in flight.
Fanout(cs, d) ==
    LET behind == {c \in DOMAIN cs : cs[c] < head}
        sentTo(c) == Lesser(cs[c] + BatchLimit, head)
    IN  /\ conns' = [c \in DOMAIN cs |-> IF c \in behind THEN sentTo(c) ELSE cs[c]]
        /\ down' = [c \in Clients |->
              IF c \in behind
              THEN d[c] \cup {Batch(Slice(cs[c], sentTo(c)), sentTo(c) < head)}
              ELSE d[c]]

Insert(cs, c, n) ==
    [d \in DOMAIN cs \cup {c} |-> IF d = c THEN n ELSE cs[d]]

Without(cs, c) == Restrict(cs, DOMAIN cs \ {c})

\* A connection is gone, and who was on it.
Forget(c) ==
    /\ conns' = Without(conns, c)
    /\ who' = [who EXCEPT ![c] = {}]

Deny(c) ==
    /\ Forget(c)
    /\ down' = [down EXCEPT ![c] = @ \cup {Denied}]

\* Who a token of c's proves to be on the connection, where that is asked.
Authenticated(c) == IF Trusting THEN {{}} ELSE {{u} : u \in Proves[c]}

\* recv(Hello): the connection's cursor is what the client says it has, and
\* never past the head, and its identity what the token proves this time.
HandleHello(c) ==
    /\ work = Idle
    /\ \E m \in up[c], kept \in BOOLEAN :
          /\ m.type = "Hello"
          /\ Deliver(kept)
          /\ up' = [up EXCEPT ![c] = After(@, m, kept)]
          /\ Fanout(Insert(conns, c, Lesser(m.since, head)), down)
    /\ \E user \in Authenticated(c) : who' = [who EXCEPT ![c] = user]
    /\ UNCHANGED <<log, work>>

\* recv(Hello) with a token that proves nothing, or no longer does.
DenyHello(c) ==
    /\ work = Idle
    /\ ~Trusting
    /\ Fault("deny")
    /\ \E m \in up[c] :
          /\ m.type = "Hello"
          /\ up' = [up EXCEPT ![c] = @ \ {m}]
    /\ Deny(c)
    /\ UNCHANGED <<log, work>>

\* Mutant: a Push in front of its Hello is let in, as if nobody were asked.
TakePushUnknown(c) ==
    /\ work = Idle
    /\ \E m \in up[c], kept \in BOOLEAN :
          /\ m.type = "Push"
          /\ Deliver(kept)
          /\ up' = [up EXCEPT ![c] = After(@, m, kept)]
          /\ work' = [from |-> {c}, todo |-> m.entries, acks |-> Nothing]
    /\ conns' = IF c \in DOMAIN conns THEN conns ELSE Insert(conns, c, 0)
    /\ UNCHANGED <<log, who, down>>

\* recv(Push) on a connection the server knows, or trusts without knowing.
TakePush(c) ==
    /\ work = Idle
    /\ c \in DOMAIN conns \/ Trusting
    /\ \E m \in up[c], kept \in BOOLEAN :
          /\ m.type = "Push"
          /\ Deliver(kept)
          /\ up' = [up EXCEPT ![c] = After(@, m, kept)]
          /\ work' = [from |-> {c}, todo |-> m.entries, acks |-> Nothing]
    /\ conns' = IF c \in DOMAIN conns THEN conns ELSE Insert(conns, c, 0)
    /\ UNCHANGED <<log, who, down>>

\* recv(Push) from nobody: a Push in front of its Hello.
DenyPush(c) ==
    /\ work = Idle
    /\ c \notin DOMAIN conns /\ ~Trusting
    /\ \E m \in up[c], kept \in BOOLEAN :
          /\ m.type = "Push"
          /\ Deliver(kept)
          /\ up' = [up EXCEPT ![c] = After(@, m, kept)]
    /\ Deny(c)
    /\ UNCHANGED <<log, work>>

----------------------------------------------------------------------------
(* append_all, one entry at a time                                         *)

\* The entry append_all looks at next: pushes keep the authoring order.
IsNext(e) == e \in work.todo /\ \A f \in work.todo : e.n <= f.n

Done(e) == [work EXCEPT !.todo = @ \ {e}]

\* Mutant: looked for in the Push being handled, not in the log.
LoggedHere(e) == e \in Range(work.acks)

Logged(e) == e \in Range(log)

\* Mutant: a repeated entry is acked with the head of the log.
AckAgainAtHead(c) ==
    /\ Working(c)
    /\ \E e \in work.todo :
          /\ IsNext(e)
          /\ Logged(e)
          /\ work' = [Done(e) EXCEPT !.acks = Insert(@, head, e)]
    /\ UNCHANGED <<log, conns, who, up, down, faults>>

\* Dedupe: an entry that has a sequence number keeps it and is acked again.
AckAgain(c) ==
    /\ Working(c)
    /\ \E e \in work.todo, s \in DOMAIN log :
          /\ IsNext(e)
          /\ log[s] = e
          /\ work' = [Done(e) EXCEPT !.acks = Insert(@, s, e)]
    /\ UNCHANGED <<log, conns, who, up, down, faults>>

\* permitted: whatever it is, on a connection that is nobody in particular.
Allowed(c, e) == who[c] = {} \/ \E u \in who[c] : Permitted(u, e)

\* Mutant: an entry the app refuses is appended all the same.
Append1Unchecked(c) ==
    /\ Working(c)
    /\ \E e \in work.todo :
          /\ IsNext(e)
          /\ ~Logged(e)
          /\ Allowed(c, e)
          /\ log' = Append(log, e)
          /\ work' = [Done(e) EXCEPT !.acks = Insert(@, head + 1, e)]
    /\ UNCHANGED <<conns, who, up, down, faults>>

\* append_one succeeds: applied and appended in one transaction.
Append1(c) ==
    /\ Working(c)
    /\ \E e \in work.todo :
          /\ IsNext(e)
          /\ ~Logged(e)
          /\ Allowed(c, e)
          /\ ~Rejects(log, e)
          /\ log' = Append(log, e)
          /\ work' = [Done(e) EXCEPT !.acks = Insert(@, head + 1, e)]
    /\ UNCHANGED <<conns, who, up, down, faults>>

\* Mutant: an entry the log has is judged again.
RefuseAgain(c) ==
    /\ Working(c)
    /\ \E e \in work.todo :
          /\ IsNext(e)
          /\ ~Allowed(c, e) \/ Rejects(log, e)
          /\ work' = Done(e)
          /\ down' = [down EXCEPT ![c] = @ \cup {Reject(e)}]
    /\ UNCHANGED <<log, conns, who, up, faults>>

\* The entry is refused, by the permission check or by the app.
Refuse(c) ==
    /\ Working(c)
    /\ \E e \in work.todo :
          /\ IsNext(e)
          /\ ~Logged(e)
          /\ ~Allowed(c, e) \/ Rejects(log, e)
          /\ work' = Done(e)
          /\ down' = [down EXCEPT ![c] = @ \cup {Reject(e)}]
    /\ UNCHANGED <<log, conns, who, up, faults>>

\* The database fails under `apply`.  An app wired with the app! macro turns
\* every error of `apply` into a refusal, this one too; otherwise the handler
\* fails, with neither an Ack for what it appended nor a fanout, and the
\* transport closes the connection.
IoRefuse(c) ==
    /\ Working(c)
    /\ IoIsVerdict
    /\ Fault("io")
    /\ \E e \in work.todo :
          /\ IsNext(e)
          /\ ~Logged(e)
          /\ Allowed(c, e)
          /\ work' = Done(e)
          /\ down' = [down EXCEPT ![c] = @ \cup {Reject(e)}]
    /\ UNCHANGED <<log, conns, who, up>>

IoFail(c) ==
    /\ Working(c)
    /\ Fault("io")
    /\ \E e \in work.todo : ~Logged(e)
    /\ work' = Idle
    /\ Forget(c)
    /\ UNCHANGED log

\* Everything handled: one Ack for what is in the log, then fanout.
FinishPush(c) ==
    /\ Working(c)
    /\ work.todo = {}
    /\ work' = Idle
    /\ Fanout(conns, IF work.acks = Nothing THEN down
                     ELSE [down EXCEPT ![c] = @ \cup {Ack(work.acks)}])
    /\ UNCHANGED <<log, who, up, faults>>

\* The server stops, between any two commits, and starts again from its log.
Restart ==
    /\ Fault("restart")
    /\ conns' = Nothing
    /\ who' = [c \in Clients |-> {}]
    /\ work' = Idle
    /\ up' = [c \in Clients |-> {}]
    /\ down' = [c \in Clients |-> {}]
    /\ UNCHANGED log

----------------------------------------------------------------------------
ServerInit ==
    /\ log = <<>>
    /\ conns = Nothing
    /\ who = [c \in Clients |-> {}]
    /\ work = Idle

\* The steps that leave every client's state alone.
ServerNext(c) ==
    \/ HandleHello(c)
    \/ DenyHello(c)
    \/ TakePush(c)
    \/ DenyPush(c)
    \/ AckAgain(c)
    \/ Append1(c)
    \/ Refuse(c)
    \/ IoRefuse(c)
    \/ FinishPush(c)

ServerTypeOK ==
    /\ log \in Seq(Entry)
    /\ conns = [c \in DOMAIN conns |-> conns[c]]
    /\ DOMAIN conns \subseteq Clients
    /\ \A c \in DOMAIN conns : conns[c] \in Nat
    /\ who \in [Clients -> SUBSET Users]
    /\ work = [from |-> work.from, todo |-> work.todo, acks |-> work.acks]
    /\ IsSequenced(work.acks)
    /\ \/ work = Idle
       \/ \E c \in Clients :
             /\ work.from = {c}
             /\ \A e \in work.todo : e \in Entry /\ e.by = c
             /\ \A s \in DOMAIN work.acks : work.acks[s].by = c
=============================================================================
