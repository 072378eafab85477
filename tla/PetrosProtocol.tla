--------------------------- MODULE PetrosProtocol ---------------------------
(***************************************************************************)
(* The words the two halves of the sync engine share: entries, sequenced   *)
(* entries, wire messages, and the network between a client and the        *)
(* server.                                                                 *)
(*                                                                         *)
(* An app's tables are abstracted to the sequence of entries applied to    *)
(* them, in order: `apply` is deterministic, so that sequence determines   *)
(* the rows.  What an app adds is its verdict, the constant Rejects: given *)
(* the entries applied so far, is this entry refused?                      *)
(*                                                                         *)
(* The network is the one crates/petros-testkit simulates: a message in    *)
(* flight may be lost, delivered twice or overtaken, and a connection that *)
(* goes takes everything in flight with it.                                *)
(***************************************************************************)
EXTENDS Naturals, Sequences, FiniteSets, Functions

CONSTANTS
    Clients,        \* the clients, each with one connection at a time
    Ops,            \* what a mutation may ask for
    Rejects(_, _),  \* Rejects(h, e): the app refuses e after the entries h
    Knows(_, _),    \* Knows(c, e): the app c runs is new enough to have e's verb
    Users,          \* who a token can prove its bearer to be, sessions included
    Proves,         \* Proves[c]: the users c may sign in as
    Permitted(_, _), \* Permitted(u, e): e was made by u, in a session of u's
    Trusting,       \* the server authenticates nobody
    IoIsVerdict,    \* the app's `apply` reports a database failure as a refusal
    BatchLimit,     \* entries in one Batch
    ApplyChunk,     \* confirmed entries a client applies in one transaction
    Faults,         \* the faults that may happen
    MaxAuthored,    \* bound: how many entries each client authors
    MaxFaults       \* bound: faults in a behaviour

FaultKinds == {"lose", "duplicate", "disconnect", "crash", "restart",
               "io", "deny"}

ASSUME ProtocolAssumption ==
    /\ Proves \in [Clients -> SUBSET Users]
    /\ Trusting \in BOOLEAN
    /\ IoIsVerdict \in BOOLEAN
    /\ BatchLimit \in Nat \ {0}
    /\ ApplyChunk \in Nat \ {0}
    /\ Faults \subseteq FaultKinds
    /\ MaxAuthored \in [Clients -> Nat]
    /\ MaxFaults \in Nat

VARIABLES
    up,      \* up[c]: messages in flight from client c to the server
    down,    \* down[c]: messages in flight from the server to client c
    faults   \* how many faults have happened

netVars == <<up, down, faults>>

----------------------------------------------------------------------------
(* Entries *)

\* A mutation with its identity: its author, the author's count of the
\* mutations it has made (both the freshness of the id and the order the
\* pending queue keeps), and what it asks for.
Entry == [by : Clients, n : Nat \ {0}, op : Ops]

\* Entries with the sequence numbers they have in the log, as a partial
\* function from sequence number to entry: a log table, the content of a
\* Batch, the two parallel arrays of an Ack.
IsSequenced(f) ==
    /\ f = [s \in DOMAIN f |-> f[s]]
    /\ DOMAIN f \subseteq Nat \ {0}
    /\ \A s \in DOMAIN f : f[s] \in Entry

Nothing == [s \in {} |-> 0]

\* The pending queue of one client in the order its mutations were made.
InOrder(S) ==
    [i \in 1..Cardinality(S) |->
        CHOOSE e \in S : Cardinality({f \in S : f.n < e.n}) = i - 1]

\* store::put_confirmed for each entry of g: an entry whose sequence number
\* or id the table already has is ignored.
Put(f, g) ==
    LET fresh == {s \in DOMAIN g : s \notin DOMAIN f /\ g[s] \notin Range(f)}
    IN  [s \in DOMAIN f \cup fresh |-> IF s \in DOMAIN f THEN f[s] ELSE g[s]]

\* store::contiguous_after: end is the end of the run that starts at
\* after + 1, looked for over at most limit entries.
ContiguousAfter(f, after, limit, end) ==
    /\ end <= after + limit
    /\ (after + 1)..end \subseteq DOMAIN f
    /\ end = after + limit \/ end + 1 \notin DOMAIN f

\* The end of the whole run: where advance's loop stops.
RunEnd(f, after, end) ==
    /\ (after + 1)..end \subseteq DOMAIN f
    /\ end + 1 \notin DOMAIN f

----------------------------------------------------------------------------
(* Messages *)

Hello(since) == [type |-> "Hello", since |-> since]
Push(S) == [type |-> "Push", entries |-> S]

Batch(f, more) == [type |-> "Batch", entries |-> f, more |-> more]
Ack(f) == [type |-> "Ack", entries |-> f]
Reject(e) == [type |-> "Reject", id |-> e]
Denied == [type |-> "Denied"]

ClientMsgOK(c, m) ==
    \/ /\ m.type = "Hello"
       /\ m = Hello(m.since)
       /\ m.since \in Nat
    \/ /\ m.type = "Push"
       /\ m = Push(m.entries)
       /\ \A e \in m.entries : e \in Entry /\ e.by = c

ServerMsgOK(c, m) ==
    \/ /\ m.type = "Batch"
       /\ m = Batch(m.entries, m.more)
       /\ IsSequenced(m.entries)
       /\ m.more \in BOOLEAN
    \/ /\ m.type = "Ack"
       /\ m = Ack(m.entries)
       /\ IsSequenced(m.entries)
       /\ \A s \in DOMAIN m.entries : m.entries[s].by = c
    \/ /\ m.type = "Reject"
       /\ m = Reject(m.id)
       /\ m.id \in Entry
       /\ m.id.by = c
    \/ m = Denied

----------------------------------------------------------------------------
(* The network *)

Fault(kind) ==
    /\ kind \in Faults
    /\ faults < MaxFaults
    /\ faults' = faults + 1

\* A delivered message leaves the network, unless it is one the network
\* delivers twice.
Deliver(kept) ==
    \/ ~kept /\ UNCHANGED faults
    \/ kept /\ Fault("duplicate")

After(q, m, kept) == IF kept THEN q ELSE q \ {m}

\* The network eats one message.
Lose(c) ==
    /\ Fault("lose")
    /\ \/ \E m \in up[c] : up' = [up EXCEPT ![c] = @ \ {m}] /\ UNCHANGED down
       \/ \E m \in down[c] : down' = [down EXCEPT ![c] = @ \ {m}] /\ UNCHANGED up

NetInit ==
    /\ up = [c \in Clients |-> {}]
    /\ down = [c \in Clients |-> {}]
    /\ faults = 0

NetTypeOK ==
    /\ up = [c \in Clients |-> up[c]]
    /\ down = [c \in Clients |-> down[c]]
    /\ \A c \in Clients : \A m \in up[c] : ClientMsgOK(c, m)
    /\ \A c \in Clients : \A m \in down[c] : ServerMsgOK(c, m)
    /\ faults \in Nat
=============================================================================
