---------------------------- MODULE PetrosClient ----------------------------
(***************************************************************************)
(* The client half of the sync engine, crates/petros/src/client.rs, for a  *)
(* set of clients.  Each call into the engine is one action; a crash may   *)
(* land between any two of the commits a call makes.                       *)
(*                                                                         *)
(* held, cursor and base are the state file (petros_log, petros_meta and   *)
(* the app's tables), pending is the intents file; the rest is memory or   *)
(* history.  The optimistic view is not a variable here: between two calls *)
(* it is base with pending replayed on top (ClientView models how the      *)
(* savepoint and the reported changes keep that true).                     *)
(***************************************************************************)
EXTENDS PetrosProtocol

VARIABLES
    run,       \* the process is running
    carried,   \* a connection that connected() announced carries the frames
               \* (client.linked, except that it is also true from open to the
               \* first connected(), which clears whatever was queued till then)
    held,      \* petros_log: the sequenced entries this client holds
    cursor,    \* the last sequence number applied, committed with base
    base,      \* the committed app tables: the confirmed entries applied
    pending,   \* petros_pending: own entries not yet confirmed
    authored,  \* history: every entry this client has made
    refused,   \* history: entries dropped or reported as rejected
    broken     \* the last recv or open failed on a confirmed entry

clientVars ==
    <<run, carried, held, cursor, base, pending, authored, refused, broken>>

\* The first n entries of the tables once the run up to n has been applied.
Applied(c, h, n) ==
    [i \in 1..n |-> IF i <= cursor[c] THEN base[c][i] ELSE h[i]]

Before(b, i) == [j \in 1..(i - 1) |-> b[j]]

\* The app c runs refuses e after h, for the reason the server's would or
\* because c was built before e's verb existed.
RefusesAt(c, h, e) == Rejects(h, e) \/ ~Knows(c, e)

\* apply_confirmed succeeds on every entry of b from the first one on.
AppliesFrom(c, b, first, last) ==
    \A i \in first..last : ~RefusesAt(c, Before(b, i), b[i])

\* kept is what open_optimistic leaves pending: replayed in order on b, an
\* entry goes when the app refuses it after the ones that stayed.
Survives(c, b, p, kept) ==
    \A e \in p :
        e \in kept <=>
            ~RefusesAt(c, b \o InOrder({f \in kept : f.n < e.n}), e)

----------------------------------------------------------------------------
(* The end of every `recv` and of `open`: advance, then open_optimistic,   *)
(* over the log h and the pending queue p.  told is what the call reports  *)
(* as rejected besides.                                                    *)

Settle(c, h, p, told) ==
    \E end \in {cursor[c]} \cup DOMAIN h :
        LET b == Applied(c, h, end)
        IN  /\ end >= cursor[c]
            /\ RunEnd(h, cursor[c], end)
            /\ AppliesFrom(c, b, cursor[c] + 1, end)
            /\ cursor' = [cursor EXCEPT ![c] = end]
            /\ base' = [base EXCEPT ![c] = b]
            /\ broken' = [broken EXCEPT ![c] = FALSE]
            /\ \E kept \in SUBSET p :
                  /\ Survives(c, b, p, kept)
                  /\ pending' = [pending EXCEPT ![c] = kept]
                  /\ refused' = [refused EXCEPT ![c] = @ \cup (p \ kept) \cup told]

\* advance meets a confirmed entry its app refuses: the chunk is rolled back
\* and the call fails, with the chunks before it committed and the view down.
Stick(c, h, p, told) ==
    \E end \in {cursor[c]} \cup DOMAIN h :
        LET b == Applied(c, h, end)
            cut(k) == cursor[c] + k * ApplyChunk
        IN  /\ end >= cursor[c]
            /\ RunEnd(h, cursor[c], end)
            /\ \E k \in 0..(end - cursor[c]) :
                  /\ cut(k) <= end
                  /\ AppliesFrom(c, b, cursor[c] + 1, cut(k))
                  /\ \E i \in (cut(k) + 1)..(cut(k) + ApplyChunk) :
                        i <= end /\ RefusesAt(c, Before(b, i), b[i])
                  /\ cursor' = [cursor EXCEPT ![c] = cut(k)]
                  /\ base' = [base EXCEPT ![c] = Applied(c, h, cut(k))]
            /\ pending' = [pending EXCEPT ![c] = p]
            /\ refused' = [refused EXCEPT ![c] = @ \cup told]
            /\ broken' = [broken EXCEPT ![c] = TRUE]

Finish(c, h, p, told) ==
    /\ held' = [held EXCEPT ![c] = h]
    /\ Settle(c, h, p, told) \/ Stick(c, h, p, told)

----------------------------------------------------------------------------
(* The calls *)

\* mutate: the view is put up first if a failed recv left it down; then the
\* mutation is probed against it and, unless the app refuses it, recorded as
\* an intent and pushed if a connection carries it.
Mutate(c) ==
    /\ run[c]
    /\ \E kept \in SUBSET pending[c], n \in 1..MaxAuthored[c], op \in Ops :
        LET e == [by |-> c, n |-> n, op |-> op]
            accepted == ~RefusesAt(c, base[c] \o InOrder(kept), e)
        IN  /\ IF broken[c] THEN Survives(c, base[c], pending[c], kept)
                            ELSE kept = pending[c]
            /\ refused' = [refused EXCEPT ![c] = @ \cup (pending[c] \ kept)]
            /\ \A f \in authored[c] : f.n < n
            /\ n = 1 \/ \E f \in authored[c] : f.n = n - 1
            /\ IF accepted
               THEN /\ authored' = [authored EXCEPT ![c] = @ \cup {e}]
                    /\ pending' = [pending EXCEPT ![c] = kept \cup {e}]
                    /\ up' = IF carried[c]
                             THEN [up EXCEPT ![c] = @ \cup {Push({e})}] ELSE up
               ELSE /\ pending' = [pending EXCEPT ![c] = kept]
                    /\ UNCHANGED <<authored, up>>
    /\ broken' = [broken EXCEPT ![c] = FALSE]
    /\ UNCHANGED <<run, carried, held, cursor, base, down, faults>>

\* Mutant: only the Hello; what is pending is not offered again.
ConnectedForgetful(c) ==
    /\ run[c] /\ ~carried[c]
    /\ carried' = [carried EXCEPT ![c] = TRUE]
    /\ up' = [up EXCEPT ![c] = {Hello(cursor[c])}]
    /\ down' = [down EXCEPT ![c] = {}]
    /\ UNCHANGED <<run, held, cursor, base, pending, authored, refused, broken, faults>>

\* connected: a Hello from the cursor, then every pending entry re-offered.
Connected(c) ==
    /\ run[c] /\ ~carried[c]
    /\ carried' = [carried EXCEPT ![c] = TRUE]
    /\ up' = [up EXCEPT ![c] =
                {Hello(cursor[c])} \cup
                (IF pending[c] = {} THEN {} ELSE {Push(pending[c])})]
    /\ down' = [down EXCEPT ![c] = {}]
    /\ UNCHANGED <<run, held, cursor, base, pending, authored, refused, broken, faults>>

\* recv(Batch): every entry is held and no longer pending; a batch that is
\* not the last asks for the next one, from the end of the run now held.
RecvBatch(c) ==
    \E m \in down[c], kept \in BOOLEAN :
        /\ run[c]
        /\ m.type = "Batch"
        /\ Deliver(kept)
        /\ down' = [down EXCEPT ![c] = After(@, m, kept)]
        /\ LET h == Put(held[c], m.entries)
           IN  /\ Finish(c, h, pending[c] \ Range(m.entries), {})
               /\ IF m.more
                  THEN \E since \in {cursor[c]} \cup DOMAIN h :
                          /\ since >= cursor[c]
                          /\ ContiguousAfter(h, cursor[c], ApplyChunk, since)
                          /\ up' = [up EXCEPT ![c] = @ \cup {Hello(since)}]
                  ELSE UNCHANGED up
        /\ UNCHANGED <<run, carried, authored>>

\* recv(Ack): an acknowledged entry that is still pending is promoted to the
\* sequence number it got; every acknowledged id stops being pending.
Promoted(c, m) ==
    Restrict(m.entries, {s \in DOMAIN m.entries : m.entries[s] \in pending[c]})

RecvAck(c) ==
    \E m \in down[c], kept \in BOOLEAN :
        /\ run[c]
        /\ m.type = "Ack"
        /\ Deliver(kept)
        /\ down' = [down EXCEPT ![c] = After(@, m, kept)]
        /\ Finish(c, Put(held[c], Promoted(c, m)), pending[c] \ Range(m.entries), {})
        /\ UNCHANGED <<run, carried, authored, up>>

\* Mutant: the entry is dropped and nobody is told.
RecvRejectSilent(c) ==
    \E m \in down[c], kept \in BOOLEAN :
        /\ run[c]
        /\ m.type = "Reject"
        /\ Deliver(kept)
        /\ down' = [down EXCEPT ![c] = After(@, m, kept)]
        /\ Finish(c, held[c], pending[c] \ {m.id}, {})
        /\ UNCHANGED <<run, carried, authored, up>>

\* recv(Reject): the entry is dropped and reported.
RecvReject(c) ==
    \E m \in down[c], kept \in BOOLEAN :
        /\ run[c]
        /\ m.type = "Reject"
        /\ Deliver(kept)
        /\ down' = [down EXCEPT ![c] = After(@, m, kept)]
        /\ Finish(c, held[c], pending[c] \ {m.id}, {m.id})
        /\ UNCHANGED <<run, carried, authored, up>>

\* recv(Denied): a verdict about the connection, so no entry is touched.
RecvDenied(c) ==
    \E m \in down[c], kept \in BOOLEAN :
        /\ run[c]
        /\ m.type = "Denied"
        /\ Deliver(kept)
        /\ down' = [down EXCEPT ![c] = After(@, m, kept)]
        /\ Finish(c, held[c], pending[c], {})
        /\ UNCHANGED <<run, carried, authored, up>>

----------------------------------------------------------------------------
(* Crashes: the two files commit independently, and a restart finds them   *)
(* as the last commit of each left them.                                   *)

\* The entries of a Batch or an Ack are written one at a time, in the order
\* of the message.
Rank(m, s) == IF m.type = "Batch" THEN s ELSE m.entries[s].n

UpTo(m, r) == Restrict(m.entries, {s \in DOMAIN m.entries : Rank(m, s) <= r})

\* The process stops before the call has written every entry, possibly
\* between the write of one and the drop of its intent.
StopWriting(c, m) ==
    \E s \in DOMAIN m.entries, dropped \in BOOLEAN :
        LET r == Rank(m, s)
            written == {t \in DOMAIN m.entries :
                /\ Rank(m, t) <= r
                /\ m.type = "Batch" \/ m.entries[t] \in pending[c]}
        IN  /\ held' = [held EXCEPT ![c] = Put(@, Restrict(m.entries, written))]
            /\ pending' = [pending EXCEPT ![c] =
                 @ \ Range(IF dropped THEN UpTo(m, r) ELSE UpTo(m, r - 1))]
            /\ UNCHANGED <<cursor, base>>

\* Mutant: the cursor is committed before the rows it describes.
StopAdvancingTorn(c, m) ==
    LET h == Put(held[c], IF m.type = "Batch" THEN m.entries ELSE Promoted(c, m))
    IN  /\ held' = [held EXCEPT ![c] = h]
        /\ pending' = [pending EXCEPT ![c] = @ \ Range(m.entries)]
        /\ \E end \in {cursor[c]} \cup DOMAIN h :
              /\ end >= cursor[c]
              /\ (cursor[c] + 1)..end \subseteq DOMAIN h
              /\ cursor' = [cursor EXCEPT ![c] = end]
        /\ UNCHANGED base

\* It stops between two chunks of advance.
StopAdvancing(c, m) ==
    LET h == Put(held[c], IF m.type = "Batch" THEN m.entries ELSE Promoted(c, m))
    IN  /\ held' = [held EXCEPT ![c] = h]
        /\ pending' = [pending EXCEPT ![c] = @ \ Range(m.entries)]
        /\ \E end \in {cursor[c]} \cup DOMAIN h :
              /\ end >= cursor[c]
              /\ (cursor[c] + 1)..end \subseteq DOMAIN h
              /\ (end - cursor[c]) % ApplyChunk = 0 \/ end + 1 \notin DOMAIN h
              /\ AppliesFrom(c, Applied(c, h, end), cursor[c] + 1, end)
              /\ cursor' = [cursor EXCEPT ![c] = end]
              /\ base' = [base EXCEPT ![c] = Applied(c, h, end)]

\* It stops with the refused intent dropped and the refusal not yet handed
\* to the caller.
StopRefusing(c, m) ==
    /\ pending' = [pending EXCEPT ![c] = @ \ {m.id}]
    /\ refused' = [refused EXCEPT ![c] = @ \cup {m.id}]
    /\ UNCHANGED <<held, cursor, base>>

\* Memory is gone, and the connection with it.
Stop(c) ==
    /\ run' = [run EXCEPT ![c] = FALSE]
    /\ carried' = [carried EXCEPT ![c] = FALSE]
    /\ up' = [up EXCEPT ![c] = {}]
    /\ down' = [down EXCEPT ![c] = {}]
    /\ broken' = [broken EXCEPT ![c] = FALSE]

Crash(c) ==
    /\ run[c]
    /\ Fault("crash")
    /\ Stop(c)
    /\ \/ UNCHANGED <<held, pending, cursor, base, refused>>
       \/ \E m \in down[c] :
             \/ /\ m.type \in {"Batch", "Ack"}
                /\ StopWriting(c, m) \/ StopAdvancing(c, m)
                /\ UNCHANGED refused
             \/ m.type = "Reject" /\ StopRefusing(c, m)
    /\ UNCHANGED authored

\* Mutant: intents the log already has are replayed on top of it.
OpenRemembering(c) ==
    /\ ~run[c]
    /\ Settle(c, held[c], pending[c], {})
    /\ run' = [run EXCEPT ![c] = TRUE]
    /\ UNCHANGED <<carried, held, authored, up, down, faults>>

\* open: advance over what is held, forget the intents the log already has,
\* and replay the rest.  Where advance fails there is no client.
Open(c) ==
    /\ ~run[c]
    /\ \/ /\ Settle(c, held[c], pending[c] \ Range(held[c]), {})
          /\ run' = [run EXCEPT ![c] = TRUE]
       \/ /\ Stick(c, held[c], pending[c], {})
          /\ UNCHANGED run
    /\ UNCHANGED <<carried, held, authored, up, down, faults>>

----------------------------------------------------------------------------
ClientInit ==
    /\ run = [c \in Clients |-> TRUE]
    /\ carried = [c \in Clients |-> FALSE]
    /\ held = [c \in Clients |-> Nothing]
    /\ cursor = [c \in Clients |-> 0]
    /\ base = [c \in Clients |-> <<>>]
    /\ pending = [c \in Clients |-> {}]
    /\ authored = [c \in Clients |-> {}]
    /\ refused = [c \in Clients |-> {}]
    /\ broken = [c \in Clients |-> FALSE]

\* The calls and steps that leave the server's state alone.
ClientNext(c) ==
    \/ Mutate(c)
    \/ Connected(c)
    \/ RecvBatch(c)
    \/ RecvAck(c)
    \/ RecvReject(c)
    \/ RecvDenied(c)
    \/ Open(c)

OwnEntries(c, S) == \A e \in S : e \in Entry /\ e.by = c

ClientTypeOK ==
    /\ run \in [Clients -> BOOLEAN]
    /\ carried \in [Clients -> BOOLEAN]
    /\ cursor \in [Clients -> Nat]
    /\ broken \in [Clients -> BOOLEAN]
    /\ held = [c \in Clients |-> held[c]]
    /\ base = [c \in Clients |-> base[c]]
    /\ pending = [c \in Clients |-> pending[c]]
    /\ authored = [c \in Clients |-> authored[c]]
    /\ refused = [c \in Clients |-> refused[c]]
    /\ \A c \in Clients :
          /\ IsSequenced(held[c])
          /\ base[c] \in [1..cursor[c] -> Entry]
          /\ OwnEntries(c, pending[c])
          /\ OwnEntries(c, authored[c])
          /\ OwnEntries(c, refused[c])
=============================================================================
