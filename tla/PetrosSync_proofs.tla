------------------------- MODULE PetrosSync_proofs -------------------------
(***************************************************************************)
(* What holds of PetrosSync for every value of its constants, in three     *)
(* parts: that its variables have their types, that IInv is inductive, and *)
(* what follows, the refinement of IntentLog among it.                     *)
(***************************************************************************)
EXTENDS PetrosSync, FiniteSetTheorems, TLAPS

----------------------------------------------------------------------------
(***************************************************************************)
(* PART 1: types, one lemma for each action                                *)
(*                                                                         *)
(* The types of the wire and of the Push being handled are stated once, as *)
(* WireType, WorkType, ConnsOK and DownOK, and cited everywhere else.      *)
(***************************************************************************)

\* What a function maps to lies where its values do.
LEMMA RangeIn == ASSUME NEW f, NEW S, \A x \in DOMAIN f : f[x] \in S
                 PROVE  Range(f) \subseteq S
BY DEF Range

\* Putting sequenced entries into a log table gives a log table.
LEMMA PutSequenced ==
    ASSUME NEW f, NEW g, IsSequenced(f), IsSequenced(g)
    PROVE  IsSequenced(Put(f, g))
BY DEF IsSequenced, Put

\* A part of sequenced entries is sequenced entries.
LEMMA RestrictSequenced ==
    ASSUME NEW f, NEW S, IsSequenced(f)
    PROVE  IsSequenced(Restrict(f, S \cap DOMAIN f))
BY DEF IsSequenced, Restrict

\* The initial state has its type.
LEMMA InitType == Init => TypeOK
BY ProtocolAssumption DEF Init, NetInit, ClientInit, ServerInit, TypeOK, NetTypeOK,
       ClientTypeOK, ServerTypeOK, Nothing, IsSequenced, OwnEntries, Idle

\* What Mutate does, with the entry it is about named.
LEMMA MutateDoes ==
    ASSUME NEW c \in Clients, Mutate(c)
    PROVE  \E kept \in SUBSET pending[c], e \in Entry :
        /\ e.by = c
        /\ refused' = [refused EXCEPT ![c] = @ \cup (pending[c] \ kept)]
        /\ \/ /\ authored' = [authored EXCEPT ![c] = @ \cup {e}]
              /\ pending' = [pending EXCEPT ![c] = kept \cup {e}]
              /\ e \notin authored[c]
              /\ \/ up' = [up EXCEPT ![c] = @ \cup {Push({e})}]
                 \/ up' = up
           \/ /\ pending' = [pending EXCEPT ![c] = kept]
              /\ UNCHANGED <<authored, up>>
<1>1. PICK kept \in SUBSET pending[c], n \in 1..MaxAuthored[c], op \in Ops :
        LET e == [by |-> c, n |-> n, op |-> op]
        IN  /\ refused' = [refused EXCEPT ![c] = @ \cup (pending[c] \ kept)]
            /\ \A f \in authored[c] : f.n < n
            /\ \/ /\ authored' = [authored EXCEPT ![c] = @ \cup {e}]
                  /\ pending' = [pending EXCEPT ![c] = kept \cup {e}]
                  /\ \/ up' = [up EXCEPT ![c] = @ \cup {Push({e})}]
                     \/ up' = up
               \/ /\ pending' = [pending EXCEPT ![c] = kept]
                  /\ UNCHANGED <<authored, up>>
  BY Zenon DEF Mutate
<1> DEFINE e == [by |-> c, n |-> n, op |-> op]
<1>2. MaxAuthored[c] \in Nat
  BY ProtocolAssumption
<1>3. e \in Entry /\ e.by = c /\ e.n = n
  BY <1>2 DEF Entry
<1>4. e \notin authored[c]
  BY <1>1, <1>2, <1>3
<1> QED BY <1>1, <1>3, <1>4, Zenon

\* mutate keeps the type.
LEMMA TMutate == ASSUME NEW c \in Clients, TypeOK, Mutate(c), UNCHANGED serverVars PROVE TypeOK'
<1> USE DEF OwnEntries
<1>1. PICK kept \in SUBSET pending[c], e \in Entry :
        /\ e.by = c
        /\ refused' = [refused EXCEPT ![c] = @ \cup (pending[c] \ kept)]
        /\ \/ /\ authored' = [authored EXCEPT ![c] = @ \cup {e}]
              /\ pending' = [pending EXCEPT ![c] = kept \cup {e}]
              /\ e \notin authored[c]
              /\ \/ up' = [up EXCEPT ![c] = @ \cup {Push({e})}]
                 \/ up' = up
           \/ /\ pending' = [pending EXCEPT ![c] = kept]
              /\ UNCHANGED <<authored, up>>
  BY MutateDoes
<1>2. e.by = c
  BY <1>1
<1>3. ClientMsgOK(c, Push({e}))
  BY <1>2 DEF ClientMsgOK, Push
<1>4. NetTypeOK'
  <2>0. up = [d \in Clients |-> up[d]]
    BY DEF TypeOK, NetTypeOK
  <2>1. up' = [d \in Clients |-> up'[d]]
    BY <1>1, <2>0
  <2>2. ASSUME NEW d \in Clients
        PROVE  up'[d] = up[d] \/ (d = c /\ up'[d] = up[d] \cup {Push({e})})
    BY <1>1, <2>0
  <2>3. UNCHANGED <<down, faults>>
    BY DEF Mutate
  <2> QED BY <2>1, <2>2, <2>3, <1>3 DEF TypeOK, NetTypeOK
<1>5. ClientTypeOK'
  <2>1. /\ pending' = [d \in Clients |-> pending'[d]]
        /\ authored' = [d \in Clients |-> authored'[d]]
        /\ refused' = [d \in Clients |-> refused'[d]]
    BY <1>1 DEF TypeOK, ClientTypeOK
  <2>2. \A d \in Clients : 
          /\ pending'[d] \subseteq pending[d] \cup (IF d = c THEN {e} ELSE {})
          /\ authored'[d] \subseteq authored[d] \cup (IF d = c THEN {e} ELSE {})
          /\ refused'[d] \subseteq refused[d] \cup pending[d]
    BY <1>1 DEF TypeOK, ClientTypeOK
  <2>3. /\ UNCHANGED <<run, carried, held, cursor, base>>
        /\ broken' = [broken EXCEPT ![c] = FALSE]
    BY DEF Mutate
  <2> QED BY <2>1, <2>2, <2>3, <1>2 DEF TypeOK, ClientTypeOK
<1>6. ServerTypeOK'
  BY DEF TypeOK, ServerTypeOK, serverVars, Idle
<1> QED BY <1>4, <1>5, <1>6 DEF TypeOK

\* What the end of a recv or of an open leaves behind is well typed.
LEMMA FinishType ==
    ASSUME NEW c \in Clients, NEW h, NEW p, NEW told, TypeOK,
           IsSequenced(h), OwnEntries(c, p), OwnEntries(c, told),
           Settle(c, h, p, told) \/ Stick(c, h, p, told)
    PROVE  /\ cursor' \in [Clients -> Nat]
           /\ broken' \in [Clients -> BOOLEAN]
           /\ base' = [d \in Clients |-> base'[d]]
           /\ pending' = [d \in Clients |-> pending'[d]]
           /\ refused' = [d \in Clients |-> refused'[d]]
           /\ \A d \in Clients :
                 /\ base'[d] \in [1..cursor'[d] -> Entry]
                 /\ OwnEntries(d, pending'[d])
                 /\ OwnEntries(d, refused'[d])
<1> USE DEF TypeOK, ClientTypeOK
<1>1. ASSUME NEW n \in Nat, n >= cursor[c], (cursor[c] + 1)..n \subseteq DOMAIN h
      PROVE  Applied(c, h, n) \in [1..n -> Entry]
  BY <1>1 DEF Applied, IsSequenced
<1>2. cursor[c] \in Nat /\ ApplyChunk \in Nat
  BY ProtocolAssumption
<1>3. CASE Settle(c, h, p, told)
  <2>1. PICK end \in {cursor[c]} \cup DOMAIN h, kept \in SUBSET p :
          /\ end >= cursor[c]
          /\ (cursor[c] + 1)..end \subseteq DOMAIN h
          /\ cursor' = [cursor EXCEPT ![c] = end]
          /\ base' = [base EXCEPT ![c] = Applied(c, h, end)]
          /\ broken' = [broken EXCEPT ![c] = FALSE]
          /\ pending' = [pending EXCEPT ![c] = kept]
          /\ refused' = [refused EXCEPT ![c] = @ \cup (p \ kept) \cup told]
    BY <1>3 DEF Settle, RunEnd
  <2>2. end \in Nat
    BY <1>2, <2>1 DEF IsSequenced
  <2>3. Applied(c, h, end) \in [1..end -> Entry]
    BY <1>1, <2>1, <2>2
  <2> QED BY <2>1, <2>2, <2>3 DEF OwnEntries
<1>4. CASE Stick(c, h, p, told)
  <2>1. PICK end \in {cursor[c]} \cup DOMAIN h, n \in Int :
          /\ n >= cursor[c]
          /\ n <= end
          /\ (cursor[c] + 1)..end \subseteq DOMAIN h
          /\ cursor' = [cursor EXCEPT ![c] = n]
          /\ base' = [base EXCEPT ![c] = Applied(c, h, n)]
          /\ broken' = [broken EXCEPT ![c] = TRUE]
          /\ pending' = [pending EXCEPT ![c] = p]
          /\ refused' = [refused EXCEPT ![c] = @ \cup told]
    <3>1. PICK end \in {cursor[c]} \cup DOMAIN h :
          /\ RunEnd(h, cursor[c], end)
          /\ end >= cursor[c]
          /\ \E k \in 0..(end - cursor[c]) :
                /\ cursor[c] + k * ApplyChunk <= end
                /\ cursor' = [cursor EXCEPT ![c] = cursor[c] + k * ApplyChunk]
                /\ base' = [base EXCEPT ![c] = Applied(c, h, cursor[c] + k * ApplyChunk)]
          /\ broken' = [broken EXCEPT ![c] = TRUE]
          /\ pending' = [pending EXCEPT ![c] = p]
          /\ refused' = [refused EXCEPT ![c] = @ \cup told]
      BY <1>4, Zenon DEF Stick
    <3>2. end \in Nat
      BY <1>2 DEF IsSequenced
    <3>3. PICK k \in 0..(end - cursor[c]) :
                /\ cursor[c] + k * ApplyChunk <= end
                /\ cursor' = [cursor EXCEPT ![c] = cursor[c] + k * ApplyChunk]
                /\ base' = [base EXCEPT ![c] = Applied(c, h, cursor[c] + k * ApplyChunk)]
      BY <3>1
    <3>4. k * ApplyChunk \in Nat
      BY <1>2, <3>2
    <3>5. /\ cursor[c] + k * ApplyChunk \in Int
          /\ cursor[c] + k * ApplyChunk >= cursor[c]
          /\ (cursor[c] + 1)..end \subseteq DOMAIN h
      BY <1>2, <3>1, <3>4 DEF RunEnd
    <3> QED BY <3>1, <3>3, <3>5, Zenon
  <2>2. n \in Nat /\ (cursor[c] + 1)..n \subseteq DOMAIN h
    BY <1>2, <2>1 DEF IsSequenced
  <2>3. Applied(c, h, n) \in [1..n -> Entry]
    BY <1>1, <2>1, <2>2
  <2> QED BY <2>1, <2>2, <2>3 DEF OwnEntries
<1> QED BY <1>3, <1>4, Zenon

\* A message leaves the network, or stays to be delivered again.
LEMMA DeliverType ==
    ASSUME NEW kept, NEW q, NEW m, TypeOK, Deliver(kept)
    PROVE  faults' \in Nat /\ After(q, m, kept) \subseteq q
BY DEF Deliver, Fault, After, TypeOK, NetTypeOK

\* The count of faults stays a number.
LEMMA FaultType == ASSUME NEW k, TypeOK, Fault(k) PROVE faults' \in Nat
BY DEF Fault, TypeOK, NetTypeOK

\* A network in which nothing new is in flight is well typed.
LEMMA NetShrinks ==
    ASSUME TypeOK, faults' \in Nat,
           up' = [d \in Clients |-> up'[d]],
           down' = [d \in Clients |-> down'[d]],
           \A d \in Clients : up'[d] \subseteq up[d] /\ down'[d] \subseteq down[d]
    PROVE  NetTypeOK'
BY DEF TypeOK, NetTypeOK

\* Taking entries away from a client's own leaves its own.
LEMMA OwnMinus ==
    ASSUME NEW c \in Clients, NEW S, TypeOK
    PROVE  OwnEntries(c, pending[c] \ S) /\ OwnEntries(c, {})
BY DEF TypeOK, ClientTypeOK, OwnEntries

\* What a message from the server brings.
LEMMA WireType ==
    ASSUME NEW c \in Clients, NEW m \in down[c], TypeOK
    PROVE  /\ m.type \in {"Batch", "Ack"} => IsSequenced(m.entries)
           /\ m.type = "Ack" => \A s \in DOMAIN m.entries : m.entries[s].by = c
           /\ m.type = "Reject" => m.id \in Entry /\ m.id.by = c
BY DEF TypeOK, NetTypeOK, ServerMsgOK, Batch, Ack, Reject, Denied

\* What an Ack promotes is sequenced entries.
LEMMA PromotedType ==
    ASSUME NEW c \in Clients, NEW m \in down[c], TypeOK, m.type = "Ack"
    PROVE  IsSequenced(Promoted(c, m))
<1>1. IsSequenced(m.entries)
  BY WireType
<1> DEFINE S == {s \in DOMAIN m.entries : m.entries[s] \in pending[c]}
<1>2. IsSequenced(Restrict(m.entries, S))
  BY <1>1 DEF IsSequenced, Restrict
<1> QED BY <1>2 DEF Promoted

\* The client's part of a recv: what Finish does, and what stays.
LEMMA FinishTypeOK ==
    ASSUME NEW c \in Clients, NEW h, NEW p, NEW told, TypeOK,
           IsSequenced(h), OwnEntries(c, p), OwnEntries(c, told),
           Finish(c, h, p, told), UNCHANGED <<run, carried, authored>>
    PROVE  ClientTypeOK'
<1>1. held' = [held EXCEPT ![c] = h]
  BY DEF Finish
<1>2. Settle(c, h, p, told) \/ Stick(c, h, p, told)
  BY DEF Finish
<1>3. /\ held' = [d \in Clients |-> held'[d]]
      /\ \A d \in Clients : IsSequenced(held'[d])
  BY <1>1 DEF TypeOK, ClientTypeOK
<1>4. /\ run' \in [Clients -> BOOLEAN]
      /\ carried' \in [Clients -> BOOLEAN]
      /\ authored' = [d \in Clients |-> authored'[d]]
      /\ \A d \in Clients : OwnEntries(d, authored'[d])
  BY DEF TypeOK, ClientTypeOK
<1> QED BY <1>2, <1>3, <1>4, FinishType DEF ClientTypeOK

\* recv(Batch) keeps the type.
LEMMA TRecvBatch ==
    ASSUME NEW c \in Clients, TypeOK, RecvBatch(c), UNCHANGED serverVars
    PROVE  TypeOK'
<1>1. PICK m \in down[c], kept \in BOOLEAN :
        /\ m.type = "Batch"
        /\ Deliver(kept)
        /\ down' = [down EXCEPT ![c] = After(@, m, kept)]
        /\ Finish(c, Put(held[c], m.entries), pending[c] \ Range(m.entries), {})
        /\ IF m.more
           THEN \E since \in {cursor[c]} \cup DOMAIN Put(held[c], m.entries) :
                   up' = [up EXCEPT ![c] = @ \cup {Hello(since)}]
           ELSE UNCHANGED up
        /\ UNCHANGED <<run, carried, authored>>
  BY DEF RecvBatch
<1>2. IsSequenced(m.entries)
  BY <1>1, WireType
<1>3. IsSequenced(Put(held[c], m.entries))
  BY <1>2, PutSequenced DEF TypeOK, ClientTypeOK
<1>4. ClientTypeOK'
  BY <1>1, <1>3, OwnMinus, FinishTypeOK
<1>5. NetTypeOK'
  <2>1. /\ up = [d \in Clients |-> up[d]]
        /\ down = [d \in Clients |-> down[d]]
    BY DEF TypeOK, NetTypeOK
  <2>2. /\ down' = [d \in Clients |-> down'[d]]
        /\ \A d \in Clients : down'[d] \subseteq down[d]
        /\ faults' \in Nat
    BY <1>1, <2>1, DeliverType
  <2>3. CASE UNCHANGED up
    BY <2>1, <2>2, <2>3, NetShrinks
  <2>4. CASE \E since \in {cursor[c]} \cup DOMAIN Put(held[c], m.entries) :
                up' = [up EXCEPT ![c] = @ \cup {Hello(since)}]
    <3>1. PICK since \in Nat : up' = [up EXCEPT ![c] = @ \cup {Hello(since)}]
      BY <2>4, <1>3 DEF IsSequenced, TypeOK, ClientTypeOK
    <3>2. ClientMsgOK(c, Hello(since))
      BY DEF ClientMsgOK, Hello
    <3>3. /\ up' = [d \in Clients |-> up'[d]]
          /\ \A d \in Clients : \/ up'[d] = up[d]
                                \/ d = c /\ up'[d] = up[d] \cup {Hello(since)}
      BY <2>1, <3>1
    <3> QED BY <2>2, <3>2, <3>3 DEF TypeOK, NetTypeOK
  <2> QED BY <1>1, <2>3, <2>4
<1>6. ServerTypeOK'
  BY DEF TypeOK, ServerTypeOK, serverVars, Idle
<1> QED BY <1>4, <1>5, <1>6 DEF TypeOK

\* What the three other recv calls do to the network, and to the server.
LEMMA TRecv ==
    ASSUME NEW c \in Clients, NEW m, NEW kept, TypeOK, Deliver(kept),
           down' = [down EXCEPT ![c] = After(@, m, kept)],
           UNCHANGED <<up, serverVars>>
    PROVE  NetTypeOK' /\ ServerTypeOK'
<1>1. NetTypeOK'
  <2>1. /\ up = [d \in Clients |-> up[d]]
        /\ down = [d \in Clients |-> down[d]]
    BY DEF TypeOK, NetTypeOK
  <2>2. /\ down' = [d \in Clients |-> down'[d]]
        /\ \A d \in Clients : down'[d] \subseteq down[d]
        /\ faults' \in Nat
    BY <2>1, DeliverType
  <2> QED BY <2>1, <2>2, NetShrinks
<1>2. ServerTypeOK'
  BY DEF TypeOK, ServerTypeOK, serverVars, Idle
<1> QED BY <1>1, <1>2

\* recv(Ack) keeps the type.
LEMMA TRecvAck ==
    ASSUME NEW c \in Clients, TypeOK, RecvAck(c), UNCHANGED serverVars
    PROVE  TypeOK'
<1>1. PICK m \in down[c], kept \in BOOLEAN :
        /\ m.type = "Ack"
        /\ Deliver(kept)
        /\ down' = [down EXCEPT ![c] = After(@, m, kept)]
        /\ Finish(c, Put(held[c], Promoted(c, m)), pending[c] \ Range(m.entries), {})
        /\ UNCHANGED <<run, carried, authored, up>>
  BY DEF RecvAck
<1>2. IsSequenced(Put(held[c], Promoted(c, m)))
  BY <1>1, PromotedType, PutSequenced DEF TypeOK, ClientTypeOK
<1>3. ClientTypeOK'
  BY <1>1, <1>2, OwnMinus, FinishTypeOK
<1> QED BY <1>1, <1>3, TRecv DEF TypeOK

\* recv(Reject) keeps the type.
LEMMA TRecvReject ==
    ASSUME NEW c \in Clients, TypeOK, RecvReject(c), UNCHANGED serverVars
    PROVE  TypeOK'
<1>1. PICK m \in down[c], kept \in BOOLEAN :
        /\ m.type = "Reject"
        /\ Deliver(kept)
        /\ down' = [down EXCEPT ![c] = After(@, m, kept)]
        /\ Finish(c, held[c], pending[c] \ {m.id}, {m.id})
        /\ UNCHANGED <<run, carried, authored, up>>
  BY DEF RecvReject
<1>2. OwnEntries(c, {m.id})
  BY <1>1, WireType DEF OwnEntries
<1>3. IsSequenced(held[c])
  BY DEF TypeOK, ClientTypeOK
<1>4. ClientTypeOK'
  BY <1>1, <1>2, <1>3, OwnMinus, FinishTypeOK
<1> QED BY <1>1, <1>4, TRecv DEF TypeOK

\* recv(Denied) keeps the type.
LEMMA TRecvDenied ==
    ASSUME NEW c \in Clients, TypeOK, RecvDenied(c), UNCHANGED serverVars
    PROVE  TypeOK'
<1>1. PICK m \in down[c], kept \in BOOLEAN :
        /\ Deliver(kept)
        /\ down' = [down EXCEPT ![c] = After(@, m, kept)]
        /\ Finish(c, held[c], pending[c], {})
        /\ UNCHANGED <<run, carried, authored, up>>
  BY DEF RecvDenied
<1>2. ClientTypeOK'
  BY <1>1, OwnMinus, FinishTypeOK DEF TypeOK, ClientTypeOK
<1> QED BY <1>1, <1>2, TRecv DEF TypeOK

\* connected keeps the type.
LEMMA TConnected ==
    ASSUME NEW c \in Clients, TypeOK, Connected(c), UNCHANGED serverVars
    PROVE  TypeOK'
<1>1. PICK S \in SUBSET {Push(pending[c])} :
        /\ carried' = [carried EXCEPT ![c] = TRUE]
        /\ up' = [up EXCEPT ![c] = {Hello(cursor[c])} \cup S]
        /\ down' = [down EXCEPT ![c] = {}]
        /\ UNCHANGED <<run, held, cursor, base, pending, authored, refused, broken, faults>>
  BY DEF Connected
<1>2. /\ up = [d \in Clients |-> up[d]]
      /\ down = [d \in Clients |-> down[d]]
      /\ faults \in Nat
  BY DEF TypeOK, NetTypeOK
<1>3. ClientMsgOK(c, Push(pending[c])) /\ ClientMsgOK(c, Hello(cursor[c]))
  BY DEF TypeOK, ClientTypeOK, OwnEntries, ClientMsgOK, Push, Hello
<1>4. /\ up' = [d \in Clients |-> up'[d]]
      /\ down' = [d \in Clients |-> down'[d]]
      /\ \A d \in Clients :
            /\ \/ up'[d] = up[d]
               \/ d = c /\ up'[d] \subseteq {Hello(cursor[c]), Push(pending[c])}
            /\ down'[d] \subseteq down[d]
  BY <1>1, <1>2
<1>5. NetTypeOK'
  BY <1>1, <1>2, <1>3, <1>4 DEF TypeOK, NetTypeOK
<1>6. ClientTypeOK'
  BY <1>1 DEF TypeOK, ClientTypeOK
<1>7. ServerTypeOK'
  BY DEF TypeOK, ServerTypeOK, serverVars, Idle
<1> QED BY <1>5, <1>6, <1>7 DEF TypeOK

\* open keeps the type.
LEMMA TOpen ==
    ASSUME NEW c \in Clients, TypeOK, Open(c), UNCHANGED serverVars
    PROVE  TypeOK'
<1>1. PICK p \in SUBSET pending[c] :
        /\ Settle(c, held[c], p, {}) \/ Stick(c, held[c], p, {})
        /\ run' = [run EXCEPT ![c] = TRUE] \/ run' = run
        /\ UNCHANGED <<carried, held, authored, up, down, faults>>
  BY DEF Open
<1>2. IsSequenced(held[c]) /\ OwnEntries(c, p) /\ OwnEntries(c, {})
  BY DEF TypeOK, ClientTypeOK, OwnEntries
<1>3. /\ run' \in [Clients -> BOOLEAN]
      /\ carried' \in [Clients -> BOOLEAN]
      /\ held' = [d \in Clients |-> held'[d]]
      /\ authored' = [d \in Clients |-> authored'[d]]
      /\ \A d \in Clients : IsSequenced(held'[d]) /\ OwnEntries(d, authored'[d])
  BY <1>1 DEF TypeOK, ClientTypeOK
<1>4. ClientTypeOK'
  BY <1>1, <1>2, <1>3, FinishType DEF ClientTypeOK
<1>5. NetTypeOK' /\ ServerTypeOK'
  BY <1>1 DEF TypeOK, NetTypeOK, ServerTypeOK, serverVars, Idle
<1> QED BY <1>4, <1>5 DEF TypeOK

\* What the state and intents files of a stopped client may hold.
LEMMA StopType ==
    ASSUME NEW c \in Clients, TypeOK, Crash(c)
    PROVE  /\ held' = [d \in Clients |-> held'[d]]
           /\ base' = [d \in Clients |-> base'[d]]
           /\ pending' = [d \in Clients |-> pending'[d]]
           /\ refused' = [d \in Clients |-> refused'[d]]
           /\ cursor' \in [Clients -> Nat]
           /\ \A d \in Clients :
                 /\ IsSequenced(held'[d])
                 /\ base'[d] \in [1..cursor'[d] -> Entry]
                 /\ OwnEntries(d, pending'[d])
                 /\ OwnEntries(d, refused'[d])
<1> USE DEF TypeOK, ClientTypeOK
<1>1. CASE UNCHANGED <<held, pending, cursor, base, refused>>
  BY <1>1
<1>2. ASSUME NEW m \in down[c], m.type \in {"Batch", "Ack"}
      PROVE  IsSequenced(m.entries)
  BY <1>2, WireType
<1>3. ASSUME NEW m \in down[c], m.type \in {"Batch", "Ack"},
             StopWriting(c, m), UNCHANGED refused
      PROVE  /\ held' = [d \in Clients |-> held'[d]]
             /\ pending' = [d \in Clients |-> pending'[d]]
             /\ \A d \in Clients : IsSequenced(held'[d]) /\ pending'[d] \subseteq pending[d]
             /\ UNCHANGED <<cursor, base>>
  <2>1. PICK S \in SUBSET DOMAIN m.entries : \E gone :
          /\ held' = [held EXCEPT ![c] = Put(@, Restrict(m.entries, S))]
          /\ pending' = [pending EXCEPT ![c] = @ \ gone]
    BY <1>3, Zenon DEF StopWriting
  <2>2. IsSequenced(Restrict(m.entries, S))
    BY <1>2, <1>3 DEF IsSequenced, Restrict
  <2>3. IsSequenced(Put(held[c], Restrict(m.entries, S)))
    BY <2>2, PutSequenced
  <2>4. UNCHANGED <<cursor, base>>
    BY <1>3 DEF StopWriting
  <2>5. PICK gone :
          /\ held' = [held EXCEPT ![c] = Put(@, Restrict(m.entries, S))]
          /\ pending' = [pending EXCEPT ![c] = @ \ gone]
    BY <2>1
  <2> QED BY <2>3, <2>4, <2>5
<1>4. ASSUME NEW m \in down[c], m.type \in {"Batch", "Ack"},
             StopAdvancing(c, m), UNCHANGED refused
      PROVE  /\ held' = [d \in Clients |-> held'[d]]
             /\ pending' = [d \in Clients |-> pending'[d]]
             /\ base' = [d \in Clients |-> base'[d]]
             /\ cursor' \in [Clients -> Nat]
             /\ \A d \in Clients :
                  /\ IsSequenced(held'[d])
                  /\ pending'[d] \subseteq pending[d]
                  /\ base'[d] \in [1..cursor'[d] -> Entry]
  <2>1. PICK g :
          /\ IsSequenced(g)
          /\ held' = [held EXCEPT ![c] = Put(@, g)]
          /\ pending' = [pending EXCEPT ![c] = @ \ Range(m.entries)]
          /\ \E end \in {cursor[c]} \cup DOMAIN Put(held[c], g) :
                /\ end >= cursor[c]
                /\ (cursor[c] + 1)..end \subseteq DOMAIN Put(held[c], g)
                /\ cursor' = [cursor EXCEPT ![c] = end]
                /\ base' = [base EXCEPT ![c] = Applied(c, Put(held[c], g), end)]
    <3> DEFINE g == IF m.type = "Batch" THEN m.entries ELSE Promoted(c, m)
    <3>1. IsSequenced(g)
      BY <1>2, <1>4, PromotedType
    <3> QED BY <1>4, <3>1 DEF StopAdvancing
  <2> DEFINE h == Put(held[c], g)
  <2>2. IsSequenced(h)
    BY <2>1, PutSequenced
  <2>3. PICK end \in {cursor[c]} \cup DOMAIN h :
                /\ end >= cursor[c]
                /\ (cursor[c] + 1)..end \subseteq DOMAIN h
                /\ cursor' = [cursor EXCEPT ![c] = end]
                /\ base' = [base EXCEPT ![c] = Applied(c, h, end)]
    BY <2>1
  <2> HIDE DEF h
  <2>4. end \in Nat /\ cursor[c] \in Nat
    BY <2>2 DEF IsSequenced
  <2>5. Applied(c, h, end) \in [1..end -> Entry]
    BY <2>2, <2>3, <2>4 DEF Applied, IsSequenced
  <2> QED BY <2>1, <2>2, <2>3, <2>4, <2>5 DEF h
<1>5. ASSUME NEW m \in down[c], m.type = "Reject", StopRefusing(c, m)
      PROVE  /\ pending' = [d \in Clients |-> pending'[d]]
             /\ refused' = [d \in Clients |-> refused'[d]]
             /\ \A d \in Clients :
                  OwnEntries(d, pending'[d]) /\ OwnEntries(d, refused'[d])
             /\ UNCHANGED <<held, cursor, base>>
  <2>1. m.id \in Entry /\ m.id.by = c
    BY <1>5, WireType
  <2> QED BY <1>5, <2>1 DEF StopRefusing, OwnEntries
<1>6. ASSUME \A d \in Clients : pending'[d] \subseteq pending[d]
      PROVE  \A d \in Clients : OwnEntries(d, pending'[d])
  BY <1>6 DEF OwnEntries
<1>7. CASE \E m \in down[c] :
             \/ /\ m.type \in {"Batch", "Ack"}
                /\ StopWriting(c, m) \/ StopAdvancing(c, m)
                /\ UNCHANGED refused
             \/ m.type = "Reject" /\ StopRefusing(c, m)
  BY <1>3, <1>4, <1>5, <1>6, <1>7
<1> QED BY <1>1, <1>7 DEF Crash

----------------------------------------------------------------------------
(* The server's steps *)

\* The log is a sequence of entries as long as its head says.
LEMMA LogType == ASSUME TypeOK
                 PROVE  /\ head \in Nat
                        /\ DOMAIN log = 1..head
                        /\ \A s \in DOMAIN log : log[s] \in Entry
BY DEF TypeOK, ServerTypeOK, head

\* A Batch carries entries of the log.
LEMMA SliceType ==
    ASSUME NEW after \in Nat, NEW last \in Nat, last <= head, TypeOK
    PROVE  IsSequenced(Slice(after, last))
BY LogType DEF Slice, IsSequenced

\* A wire on which every message is well typed.
DownOK(d) ==
    /\ d = [c \in Clients |-> d[c]]
    /\ \A c \in Clients : \A m \in d[c] : ServerMsgOK(c, m)

ConnsOK(cs) ==
    /\ cs = [c \in DOMAIN cs |-> cs[c]]
    /\ DOMAIN cs \subseteq Clients
    /\ \A c \in DOMAIN cs : cs[c] \in Nat

\* fanout keeps the type of what it writes: cursors and Batches.
LEMMA FanoutType ==
    ASSUME NEW cs, NEW d, TypeOK, ConnsOK(cs), DownOK(d), Fanout(cs, d)
    PROVE  ConnsOK(conns') /\ DownOK(down')
<1> DEFINE behind == {c \in DOMAIN cs : cs[c] < head}
           sentTo(c) == Lesser(cs[c] + BatchLimit, head)
<1>1. head \in Nat /\ BatchLimit \in Nat
  BY LogType, ProtocolAssumption
<1>2. ASSUME NEW c \in DOMAIN cs
      PROVE  sentTo(c) \in Nat /\ sentTo(c) <= head
  BY <1>1 DEF Lesser, ConnsOK
<1>3. ASSUME NEW c \in DOMAIN cs
      PROVE  ServerMsgOK(c, Batch(Slice(cs[c], sentTo(c)), sentTo(c) < head))
  <2>1. IsSequenced(Slice(cs[c], sentTo(c)))
    BY <1>2, SliceType DEF ConnsOK
  <2> HIDE DEF sentTo
  <2> QED BY <2>1 DEF ServerMsgOK, Batch
<1>4. conns' = [c \in DOMAIN cs |-> IF c \in behind THEN sentTo(c) ELSE cs[c]]
  BY DEF Fanout
<1>5. down' = [c \in Clients |->
              IF c \in behind
              THEN d[c] \cup {Batch(Slice(cs[c], sentTo(c)), sentTo(c) < head)}
              ELSE d[c]]
  BY DEF Fanout
<1> HIDE DEF sentTo
<1>6. ConnsOK(conns')
  BY <1>2, <1>4 DEF ConnsOK
<1>7. DownOK(down')
  BY <1>3, <1>5 DEF DownOK
<1> QED BY <1>6, <1>7

\* A connection put in, or one cursor changed, leaves connections.
LEMMA InsertType ==
    ASSUME NEW c \in Clients, NEW n \in Nat, TypeOK
    PROVE  ConnsOK(Insert(conns, c, n)) /\ ConnsOK(Without(conns, c)) /\ ConnsOK(Nothing)
BY DEF TypeOK, ServerTypeOK, ConnsOK, Insert, Without, Restrict, Nothing

\* Whoever a connection turns out to be is a set of users.
WhoOK(w) == w \in [Clients -> SUBSET Users]

LEMMA WhoType ==
    ASSUME NEW c \in Clients, TypeOK,
           \/ UNCHANGED who
           \/ Forget(c)
           \/ \E user \in Authenticated(c) : who' = [who EXCEPT ![c] = user]
    PROVE  WhoOK(who')
<1>1. WhoOK(who)
  BY DEF TypeOK, ServerTypeOK, WhoOK
<1>2. {} \in SUBSET Users
  OBVIOUS
<1>3. Authenticated(c) \subseteq SUBSET Users
  BY ProtocolAssumption DEF Authenticated
<1> QED BY <1>1, <1>2, <1>3 DEF WhoOK, Forget

\* Handlers take one message in and put typed messages out.
LEMMA TServer ==
    ASSUME TypeOK, ConnsOK(conns'), DownOK(down'), UNCHANGED clientVars,
           up' = [d \in Clients |-> up'[d]],
           \A d \in Clients : up'[d] \subseteq up[d],
           faults' \in Nat
    PROVE  NetTypeOK' /\ ClientTypeOK'
<1>1. NetTypeOK'
  BY DEF TypeOK, NetTypeOK, DownOK
<1>2. ClientTypeOK'
  BY DEF TypeOK, ClientTypeOK, clientVars
<1> QED BY <1>1, <1>2

\* What the server knows and what is in flight now have their types.
LEMMA NowOK == ASSUME TypeOK PROVE ConnsOK(conns) /\ DownOK(down)
BY DEF TypeOK, ServerTypeOK, NetTypeOK, ConnsOK, DownOK

\* Something well formed may be added to what is in flight.
LEMMA SentOK ==
    ASSUME NEW c \in Clients, NEW m, TypeOK, ServerMsgOK(c, m)
    PROVE  DownOK([down EXCEPT ![c] = @ \cup {m}])
BY DEF TypeOK, NetTypeOK, DownOK

\* The message a handler takes.
LEMMA TakenType ==
    ASSUME NEW c \in Clients, NEW m, NEW kept, TypeOK, Deliver(kept),
           up' = [up EXCEPT ![c] = After(@, m, kept)]
    PROVE  /\ up' = [d \in Clients |-> up'[d]]
           /\ \A d \in Clients : up'[d] \subseteq up[d]
           /\ faults' \in Nat
<1>1. up = [d \in Clients |-> up[d]]
  BY DEF TypeOK, NetTypeOK
<1> QED BY <1>1, DeliverType

\* The handler of Hello keeps the type.
LEMMA THandleHello ==
    ASSUME NEW c \in Clients, TypeOK, HandleHello(c), UNCHANGED clientVars
    PROVE  TypeOK'
<1>1. PICK m \in up[c], kept \in BOOLEAN :
        /\ m.type = "Hello"
        /\ Deliver(kept)
        /\ up' = [up EXCEPT ![c] = After(@, m, kept)]
        /\ Fanout(Insert(conns, c, Lesser(m.since, head)), down)
  BY DEF HandleHello
<1>2. Lesser(m.since, head) \in Nat
  <2>1. m.since \in Nat
    BY <1>1 DEF TypeOK, NetTypeOK, ClientMsgOK, Hello, Push
  <2> QED BY <2>1, LogType DEF Lesser
<1>3. ConnsOK(conns') /\ DownOK(down')
  BY <1>1, <1>2, InsertType, NowOK, FanoutType
<1>4. NetTypeOK' /\ ClientTypeOK'
  BY <1>1, <1>3, TakenType, TServer
<1>5. WhoOK(who')
  BY WhoType DEF HandleHello
<1>6. ServerTypeOK'
  BY <1>3, <1>5 DEF HandleHello, TypeOK, ServerTypeOK, ConnsOK, WhoOK, Idle
<1> QED BY <1>4, <1>6 DEF TypeOK

\* Turning a connection away keeps the type.
LEMMA DenyType ==
    ASSUME NEW c \in Clients, TypeOK, Deny(c)
    PROVE  ConnsOK(conns') /\ DownOK(down') /\ WhoOK(who')
<1>1. ServerMsgOK(c, Denied)
  BY DEF ServerMsgOK
<1>2. conns' = Without(conns, c) /\ down' = [down EXCEPT ![c] = @ \cup {Denied}]
  BY DEF Deny, Forget
<1>3. WhoOK(who')
  BY WhoType DEF Deny
<1> QED BY <1>1, <1>2, <1>3, SentOK, InsertType

\* A Hello turned away keeps the type.
LEMMA TDenyHello ==
    ASSUME NEW c \in Clients, TypeOK, DenyHello(c), UNCHANGED clientVars
    PROVE  TypeOK'
<1>1. PICK m \in up[c] : up' = [up EXCEPT ![c] = @ \ {m}]
  BY DEF DenyHello
<1>2. faults' \in Nat
  BY FaultType DEF DenyHello
<1>3. /\ up' = [d \in Clients |-> up'[d]]
      /\ \A d \in Clients : up'[d] \subseteq up[d]
  BY <1>1 DEF TypeOK, NetTypeOK
<1>4. ConnsOK(conns') /\ DownOK(down') /\ WhoOK(who')
  BY DenyType DEF DenyHello
<1>5. NetTypeOK' /\ ClientTypeOK'
  BY <1>2, <1>3, <1>4, TServer
<1>6. ServerTypeOK'
  BY <1>4 DEF DenyHello, TypeOK, ServerTypeOK, ConnsOK, WhoOK, Idle
<1> QED BY <1>5, <1>6 DEF TypeOK

\* A Push turned away keeps the type.
LEMMA TDenyPush ==
    ASSUME NEW c \in Clients, TypeOK, DenyPush(c), UNCHANGED clientVars
    PROVE  TypeOK'
<1>1. PICK m \in up[c], kept \in BOOLEAN :
        /\ Deliver(kept)
        /\ up' = [up EXCEPT ![c] = After(@, m, kept)]
  BY DEF DenyPush
<1>2. ConnsOK(conns') /\ DownOK(down') /\ WhoOK(who')
  BY DenyType DEF DenyPush
<1>3. NetTypeOK' /\ ClientTypeOK'
  BY <1>1, <1>2, TakenType, TServer
<1>4. ServerTypeOK'
  BY <1>2 DEF DenyPush, TypeOK, ServerTypeOK, ConnsOK, WhoOK, Idle
<1> QED BY <1>3, <1>4 DEF TypeOK

\* Taking up a Push keeps the type.
LEMMA TTakePush ==
    ASSUME NEW c \in Clients, TypeOK, TakePush(c), UNCHANGED clientVars
    PROVE  TypeOK'
<1>1. PICK m \in up[c], kept \in BOOLEAN :
        /\ m.type = "Push"
        /\ Deliver(kept)
        /\ up' = [up EXCEPT ![c] = After(@, m, kept)]
        /\ work' = [from |-> {c}, todo |-> m.entries, acks |-> Nothing]
  BY DEF TakePush
<1>2. ConnsOK(conns')
  BY InsertType, NowOK DEF TakePush
<1>3. DownOK(down')
  BY NowOK DEF TakePush
<1>4. NetTypeOK' /\ ClientTypeOK'
  BY <1>1, <1>2, <1>3, TakenType, TServer
<1>5. \A e \in m.entries : e \in Entry /\ e.by = c
  BY <1>1 DEF TypeOK, NetTypeOK, ClientMsgOK, Hello, Push
<1>6. ServerTypeOK'
  <2>1. IsSequenced(Nothing)
    BY DEF IsSequenced, Nothing
  <2>2. UNCHANGED <<log, who>>
    BY DEF TakePush
  <2>3. \A s \in DOMAIN Nothing : FALSE
    BY DEF Nothing
  <2> QED BY <1>1, <1>2, <1>5, <2>1, <2>2, <2>3 DEF TypeOK, ServerTypeOK, ConnsOK
<1> QED BY <1>4, <1>6 DEF TypeOK

\* The Push being handled, with an entry done and perhaps acked.
LEMMA WorkType ==
    ASSUME NEW c \in Clients, NEW e \in work.todo, TypeOK, Working(c)
    PROVE  /\ e \in Entry
           /\ e.by = c
           /\ work.from = {c}
           /\ \A f \in work.todo : f \in Entry /\ f.by = c
           /\ IsSequenced(work.acks)
           /\ \A s \in DOMAIN work.acks : work.acks[s].by = c
           /\ work = [from |-> work.from, todo |-> work.todo, acks |-> work.acks]
<1>1. work # Idle
  BY DEF Idle, Working
<1>2. PICK d \in Clients :
             /\ work.from = {d}
             /\ \A f \in work.todo : f \in Entry /\ f.by = d
             /\ \A s \in DOMAIN work.acks : work.acks[s].by = d
  BY <1>1 DEF TypeOK, ServerTypeOK
<1>3. d = c
  BY <1>2 DEF Working
<1> QED BY <1>2, <1>3 DEF TypeOK, ServerTypeOK

\* acks with one more entry.
LEMMA AckedType ==
    ASSUME NEW f, NEW s \in Nat \ {0}, NEW e \in Entry, IsSequenced(f)
    PROVE  IsSequenced(Insert(f, s, e))
BY DEF IsSequenced, Insert

\* Idle has the shape of work.
LEMMA IdleType ==
    /\ IsSequenced(Idle.acks)
    /\ Idle = [from |-> Idle.from, todo |-> Idle.todo, acks |-> Idle.acks]
BY DEF Idle, IsSequenced, Nothing

\* Being done with an entry keeps the shape of work.
LEMMA WorkDone ==
    ASSUME NEW c \in Clients, NEW e \in work.todo, NEW s \in Nat \ {0}, TypeOK, Working(c),
           \/ work' = Done(e)
           \/ work' = [Done(e) EXCEPT !.acks = Insert(@, s, e)]
    PROVE  /\ work' = [from |-> work'.from, todo |-> work'.todo, acks |-> work'.acks]
           /\ IsSequenced(work'.acks)
           /\ work'.from = {c}
           /\ \A f \in work'.todo : f \in Entry /\ f.by = c
           /\ \A t \in DOMAIN work'.acks : work'.acks[t].by = c
<1>1. CASE work' = Done(e)
  BY <1>1, WorkType DEF Done
<1>2. CASE work' = [Done(e) EXCEPT !.acks = Insert(@, s, e)]
  <2>1. work' = [from |-> {c}, todo |-> work.todo \ {e}, acks |-> Insert(work.acks, s, e)]
    BY <1>2, WorkType DEF Done
  <2>2. IsSequenced(Insert(work.acks, s, e))
    BY WorkType, AckedType
  <2>3. \A t \in DOMAIN Insert(work.acks, s, e) : Insert(work.acks, s, e)[t].by = c
    BY WorkType DEF Insert
  <2> QED BY <2>1, <2>2, <2>3, WorkType
<1> QED BY <1>1, <1>2

\* Acking an entry again keeps the type.
LEMMA TAckAgain ==
    ASSUME NEW c \in Clients, TypeOK, AckAgain(c), UNCHANGED clientVars
    PROVE  TypeOK'
<1>1. PICK e \in work.todo, s \in DOMAIN log :
        work' = [Done(e) EXCEPT !.acks = Insert(@, s, e)]
  BY DEF AckAgain
<1>2. Working(c) /\ UNCHANGED <<log, conns, who, up, down, faults>>
  BY DEF AckAgain
<1>3. s \in Nat \ {0}
  BY LogType
<1>4. ServerTypeOK'
  <2>1. /\ work' = [from |-> work'.from, todo |-> work'.todo, acks |-> work'.acks]
        /\ IsSequenced(work'.acks)
        /\ work'.from = {c}
        /\ \A f \in work'.todo : f \in Entry /\ f.by = c
        /\ \A t \in DOMAIN work'.acks : work'.acks[t].by = c
    BY <1>1, <1>2, <1>3, WorkDone
  <2> QED BY <1>2, <2>1 DEF TypeOK, ServerTypeOK
<1>5. NetTypeOK' /\ ClientTypeOK'
  BY <1>2 DEF TypeOK, NetTypeOK, ClientTypeOK, clientVars
<1> QED BY <1>4, <1>5 DEF TypeOK

\* Appending an entry keeps the type.
LEMMA TAppend1 ==
    ASSUME NEW c \in Clients, TypeOK, Append1(c), UNCHANGED clientVars
    PROVE  TypeOK'
<1>1. PICK e \in work.todo :
        /\ log' = Append(log, e)
        /\ work' = [Done(e) EXCEPT !.acks = Insert(@, head + 1, e)]
  BY DEF Append1
<1>2. Working(c) /\ UNCHANGED <<conns, who, up, down, faults>>
  BY DEF Append1
<1>3. head + 1 \in Nat \ {0}
  BY LogType
<1>4. log' \in Seq(Entry)
  BY <1>1, <1>2, WorkType DEF TypeOK, ServerTypeOK
<1>5. ServerTypeOK'
  <2>1. /\ work' = [from |-> work'.from, todo |-> work'.todo, acks |-> work'.acks]
        /\ IsSequenced(work'.acks)
        /\ work'.from = {c}
        /\ \A f \in work'.todo : f \in Entry /\ f.by = c
        /\ \A t \in DOMAIN work'.acks : work'.acks[t].by = c
    BY <1>1, <1>2, <1>3, WorkDone
  <2> QED BY <1>2, <1>4, <2>1 DEF TypeOK, ServerTypeOK
<1>6. NetTypeOK' /\ ClientTypeOK'
  BY <1>2 DEF TypeOK, NetTypeOK, ClientTypeOK, clientVars
<1> QED BY <1>5, <1>6 DEF TypeOK

\* Refusing an entry keeps the type, whatever the reason.
LEMMA TRefuse ==
    ASSUME NEW c \in Clients, TypeOK, Refuse(c) \/ IoRefuse(c), UNCHANGED clientVars
    PROVE  TypeOK'
<1>1. PICK e \in work.todo :
        /\ work' = Done(e)
        /\ down' = [down EXCEPT ![c] = @ \cup {Reject(e)}]
  BY DEF Refuse, IoRefuse
<1>2. Working(c) /\ UNCHANGED <<log, conns, who, up>> /\ faults' \in Nat
  BY FaultType DEF Refuse, IoRefuse, TypeOK, NetTypeOK
<1>3. ServerMsgOK(c, Reject(e))
  BY <1>2, WorkType DEF ServerMsgOK, Reject
<1>4. ConnsOK(conns') /\ DownOK(down')
  BY <1>1, <1>2, <1>3, SentOK, NowOK
<1>5. NetTypeOK' /\ ClientTypeOK'
  BY <1>2, <1>4, TServer DEF TypeOK, NetTypeOK
<1>6. ServerTypeOK'
  <2>1. 1 \in Nat \ {0}
    OBVIOUS
  <2>2. /\ work' = [from |-> work'.from, todo |-> work'.todo, acks |-> work'.acks]
        /\ IsSequenced(work'.acks)
        /\ work'.from = {c}
        /\ \A f \in work'.todo : f \in Entry /\ f.by = c
        /\ \A t \in DOMAIN work'.acks : work'.acks[t].by = c
    BY <1>1, <1>2, <2>1, WorkDone
  <2> QED BY <1>2, <2>2 DEF TypeOK, ServerTypeOK
<1> QED BY <1>5, <1>6 DEF TypeOK

\* Answering a Push keeps the type.
LEMMA TFinishPush ==
    ASSUME NEW c \in Clients, TypeOK, FinishPush(c), UNCHANGED clientVars
    PROVE  TypeOK'
<1>1. Working(c) /\ work' = Idle /\ UNCHANGED <<log, who, up, faults>>
  BY DEF FinishPush
<1>2. PICK d \in {down, [down EXCEPT ![c] = @ \cup {Ack(work.acks)}]} : Fanout(conns, d)
  BY DEF FinishPush
<1>3. ServerMsgOK(c, Ack(work.acks))
  <2>1. work # Idle
    BY <1>1 DEF Idle, Working
  <2>2. IsSequenced(work.acks) /\ \A s \in DOMAIN work.acks : work.acks[s].by = c
    BY <1>1, <2>1 DEF TypeOK, ServerTypeOK, Working
  <2> QED BY <2>2 DEF ServerMsgOK, Ack
<1>4. DownOK(d)
  BY <1>2, <1>3, SentOK, NowOK
<1>5. ConnsOK(conns') /\ DownOK(down')
  BY <1>2, <1>4, NowOK, FanoutType
<1>6. NetTypeOK' /\ ClientTypeOK'
  BY <1>1, <1>5, TServer DEF TypeOK, NetTypeOK
<1>7. ServerTypeOK'
  BY <1>1, <1>5, IdleType DEF TypeOK, ServerTypeOK, ConnsOK
<1> QED BY <1>6, <1>7 DEF TypeOK

----------------------------------------------------------------------------
(* The steps of both ends *)

\* A step that empties c's wire and leaves the server idle or as it was.
LEMMA TCut ==
    ASSUME NEW c \in Clients, TypeOK,
           up' = [up EXCEPT ![c] = {}], down' = [down EXCEPT ![c] = {}],
           faults' \in Nat, ConnsOK(conns'), WhoOK(who'),
           UNCHANGED log, work' = Idle \/ work' = work
    PROVE  NetTypeOK' /\ ServerTypeOK'
<1>1. /\ up = [d \in Clients |-> up[d]]
      /\ down = [d \in Clients |-> down[d]]
  BY DEF TypeOK, NetTypeOK
<1>2. NetTypeOK'
  BY <1>1, NetShrinks
<1>3. ServerTypeOK'
  BY IdleType DEF TypeOK, ServerTypeOK, ConnsOK, WhoOK
<1> QED BY <1>2, <1>3

\* Cutting a connection keeps the type of what it touches.
LEMMA THangup ==
    ASSUME NEW c \in Clients, TypeOK, Hangup(c),
           faults' \in Nat, ConnsOK(conns'), WhoOK(who'),
           UNCHANGED log, work' = Idle \/ work' = work
    PROVE  TypeOK'
<1>1. ClientTypeOK'
  BY DEF Hangup, TypeOK, ClientTypeOK
<1>2. up' = [up EXCEPT ![c] = {}] /\ down' = [down EXCEPT ![c] = {}]
  BY DEF Hangup
<1> QED BY <1>1, <1>2, TCut DEF TypeOK

\* A disconnect keeps the type.
LEMMA TDisconnect ==
    ASSUME NEW c \in Clients, TypeOK, Disconnect(c)
    PROVE  TypeOK'
<1>1. faults' \in Nat
  BY FaultType DEF Disconnect
<1>2. ConnsOK(conns') /\ WhoOK(who')
  BY InsertType, WhoType DEF Disconnect, Forget
<1> QED BY <1>1, <1>2, THangup DEF Disconnect

\* Closing a connection turned away keeps the type.
LEMMA TCloseDenied ==
    ASSUME NEW c \in Clients, TypeOK, CloseDenied(c)
    PROVE  TypeOK'
<1>1. UNCHANGED <<faults, log, conns, who, work>>
  BY DEF CloseDenied, serverVars
<1>2. faults' \in Nat /\ ConnsOK(conns') /\ WhoOK(who')
  BY <1>1, NowOK, WhoType DEF TypeOK, NetTypeOK
<1> QED BY <1>1, <1>2, THangup DEF CloseDenied

\* A handler that fails keeps the type.
LEMMA TFailPush ==
    ASSUME NEW c \in Clients, TypeOK, FailPush(c)
    PROVE  TypeOK'
<1>1. faults' \in Nat
  BY FaultType DEF FailPush, IoFail
<1>2. ConnsOK(conns') /\ WhoOK(who')
  BY InsertType, WhoType DEF FailPush, IoFail, Forget
<1> QED BY <1>1, <1>2, THangup DEF FailPush, IoFail

\* A crash of a client keeps the type.
LEMMA TCrashClient ==
    ASSUME NEW c \in Clients, TypeOK, CrashClient(c)
    PROVE  TypeOK'
<1>1. Crash(c) /\ Stop(c) /\ UNCHANGED <<log, work, authored>>
  BY DEF CrashClient, Crash
<1>2. faults' \in Nat
  BY FaultType DEF CrashClient, Crash
<1>3. ConnsOK(conns') /\ WhoOK(who')
  BY InsertType, WhoType DEF CrashClient, Forget
<1>4. NetTypeOK' /\ ServerTypeOK'
  BY <1>1, <1>2, <1>3, TCut DEF Stop
<1>5. /\ run' \in [Clients -> BOOLEAN]
      /\ carried' \in [Clients -> BOOLEAN]
      /\ broken' \in [Clients -> BOOLEAN]
      /\ authored' = [d \in Clients |-> authored'[d]]
      /\ \A d \in Clients : OwnEntries(d, authored'[d])
  BY <1>1 DEF Stop, TypeOK, ClientTypeOK
<1>6. ClientTypeOK'
  BY <1>1, <1>5, StopType DEF ClientTypeOK
<1> QED BY <1>4, <1>6 DEF TypeOK

\* A restart of the server keeps the type.
LEMMA TRestartServer == ASSUME TypeOK, RestartServer PROVE TypeOK'
<1>1. faults' \in Nat
  BY FaultType DEF RestartServer, Restart
<1>2. /\ conns' = Nothing /\ work' = Idle /\ UNCHANGED log
      /\ who' = [c \in Clients |-> {}]
      /\ up' = [c \in Clients |-> {}] /\ down' = [c \in Clients |-> {}]
  BY DEF RestartServer, Restart
<1>3. NetTypeOK'
  BY <1>1, <1>2 DEF NetTypeOK
<1>4. ServerTypeOK'
  BY <1>2, IdleType DEF TypeOK, ServerTypeOK, Nothing
<1>5. ClientTypeOK'
  BY DEF RestartServer, TypeOK, ClientTypeOK
<1> QED BY <1>3, <1>4, <1>5 DEF TypeOK

\* A lost message keeps the type.
LEMMA TLose ==
    ASSUME NEW c \in Clients, TypeOK, Lose(c), UNCHANGED <<clientVars, serverVars>>
    PROVE  TypeOK'
<1>1. faults' \in Nat
  BY FaultType DEF Lose
<1>2. PICK m :
         \/ up' = [up EXCEPT ![c] = @ \ {m}] /\ UNCHANGED down
         \/ down' = [down EXCEPT ![c] = @ \ {m}] /\ UNCHANGED up
  BY DEF Lose
<1>3. /\ up = [d \in Clients |-> up[d]]
      /\ down = [d \in Clients |-> down[d]]
  BY DEF TypeOK, NetTypeOK
<1>4. NetTypeOK'
  BY <1>1, <1>2, <1>3, NetShrinks
<1>5. ServerTypeOK'
  BY DEF TypeOK, ServerTypeOK, serverVars, Idle
<1>6. ClientTypeOK'
  BY DEF TypeOK, ClientTypeOK, clientVars
<1> QED BY <1>4, <1>5, <1>6 DEF TypeOK

----------------------------------------------------------------------------

\* Every step keeps the type.
LEMMA StepType == TypeOK /\ [Next]_vars => TypeOK'
<1> SUFFICES ASSUME TypeOK, [Next]_vars PROVE TypeOK'
  OBVIOUS
<1>1. CASE UNCHANGED vars
  BY <1>1 DEF vars, netVars, clientVars, serverVars, TypeOK, NetTypeOK,
             ClientTypeOK, ServerTypeOK, Idle
<1>2. ASSUME NEW c \in Clients, ClientNext(c), UNCHANGED serverVars
      PROVE  TypeOK'
  BY <1>2, TMutate, TConnected, TRecvBatch, TRecvAck, TRecvReject, TRecvDenied,
     TOpen DEF ClientNext
<1>3. ASSUME NEW c \in Clients, ServerNext(c), UNCHANGED clientVars
      PROVE  TypeOK'
  BY <1>3, THandleHello, TDenyHello, TTakePush, TDenyPush, TAckAgain, TAppend1,
     TRefuse, TFinishPush DEF ServerNext
<1> QED BY <1>1, <1>2, <1>3, TLose, TDisconnect, TCloseDenied, TFailPush,
           TCrashClient, TRestartServer DEF Next

\* The variables of the sync engine always have their types.
THEOREM TypeCorrect == Spec => []TypeOK
BY InitType, StepType, PTL DEF Spec

----------------------------------------------------------------------------
(***************************************************************************)
(* PART 2: the inductive invariant                                         *)
(*                                                                         *)
(* Every step is of one of four kinds (StepKinds), and each conjunct is    *)
(* shown to survive each kind: what a client may do to its files, whether  *)
(* it receives, opens or crashes in the middle, is the one formula Moves.  *)
(***************************************************************************)

----------------------------------------------------------------------------
(* What a client's step does to its state, in one formula                  *)

\* h is what c held, with entries a Batch or an Ack in flight brings.
FromWire(c, h) ==
    /\ IsSequenced(h)
    /\ DOMAIN held[c] \subseteq DOMAIN h
    /\ \A s \in DOMAIN h :
          \/ s \in DOMAIN held[c] /\ h[s] = held[c][s]
          \/ \E m \in down[c] :
                /\ m.type \in {"Batch", "Ack"}
                /\ s \in DOMAIN m.entries
                /\ h[s] = m.entries[s]

\* An entry stops being pending because a message in flight or the client's
\* own log has it, or because it is among those told.
GoneFor(c, gone, told) ==
    \A e \in gone :
        \/ e \in told
        \/ e \in Range(held[c])
        \/ \E m \in down[c] : m.type \in {"Batch", "Ack"} /\ e \in Range(m.entries)

ToldOnWire(c, told) ==
    \A e \in told : \E m \in down[c] : m.type = "Reject" /\ m.id = e

\* The entries h has beyond n include one the app refuses where it stands.
StuckAfter(c, h, n) ==
    \E end \in Nat, i \in Nat :
        /\ end >= cursor[c]
        /\ (cursor[c] + 1)..end \subseteq DOMAIN h
        /\ i > n /\ i <= end
        /\ RefusesAt(c, Before(Applied(c, h, end), i), Applied(c, h, end)[i])

\* The tables and the queue of c after a step that ends over the log h.
SettlesTo(c, h, n, p, told, dropped) ==
    /\ n >= cursor[c]
    /\ (cursor[c] + 1)..n \subseteq DOMAIN h
    /\ cursor' = [cursor EXCEPT ![c] = n]
    /\ base' = [base EXCEPT ![c] = Applied(c, h, n)]
    /\ pending' = [pending EXCEPT ![c] = p \ dropped]
    /\ refused' = [refused EXCEPT ![c] = @ \cup dropped \cup told]
    /\ \/ broken' = [broken EXCEPT ![c] = FALSE]
       \/ broken' = [broken EXCEPT ![c] = TRUE] /\ StuckAfter(c, h, n)
       \/ broken' = broken /\ n = cursor[c]

Moves(c, h, n, gone, told, dropped) ==
    /\ FromWire(c, h)
    /\ held' = [held EXCEPT ![c] = h]
    /\ SettlesTo(c, h, n, pending[c] \ gone, told, dropped)
    /\ GoneFor(c, gone, told)
    /\ ToldOnWire(c, told)
    /\ authored' = authored
    /\ \A d \in Clients : down'[d] \subseteq down[d]
    /\ \A d \in Clients : \A m \in up'[d] : m \in up[d] \/ m.type = "Hello"

ClientMoves(c) ==
    \E n \in Nat : \E dropped \in SUBSET pending[c] : \E h, gone, told :
        Moves(c, h, n, gone, told, dropped)

\* The end of recv and open, both ways it may go, in the one formula.
LEMMA FinishDoes ==
    ASSUME NEW c \in Clients, NEW h, NEW p, NEW told, TypeOK,
           IsSequenced(h), Settle(c, h, p, told) \/ Stick(c, h, p, told)
    PROVE  \E n \in Nat, dropped \in SUBSET p : SettlesTo(c, h, n, p, told, dropped)
<1>1. cursor[c] \in Nat /\ ApplyChunk \in Nat
  BY ProtocolAssumption DEF TypeOK, ClientTypeOK
<1>2. CASE Settle(c, h, p, told)
  <2>1. PICK end \in {cursor[c]} \cup DOMAIN h, kept \in SUBSET p :
          /\ end >= cursor[c]
          /\ (cursor[c] + 1)..end \subseteq DOMAIN h
          /\ cursor' = [cursor EXCEPT ![c] = end]
          /\ base' = [base EXCEPT ![c] = Applied(c, h, end)]
          /\ broken' = [broken EXCEPT ![c] = FALSE]
          /\ pending' = [pending EXCEPT ![c] = kept]
          /\ refused' = [refused EXCEPT ![c] = @ \cup (p \ kept) \cup told]
    BY <1>2 DEF Settle, RunEnd
  <2>2. end \in Nat
    BY <1>1 DEF IsSequenced
  <2>3. p \ (p \ kept) = kept
    OBVIOUS
  <2>4. SettlesTo(c, h, end, p, told, p \ kept)
    BY <2>1, <2>3 DEF SettlesTo
  <2> QED BY <2>2, <2>4
<1>3. CASE Stick(c, h, p, told)
  <2>1. PICK end \in {cursor[c]} \cup DOMAIN h : \E k \in 0..(end - cursor[c]) :
          /\ end >= cursor[c]
          /\ (cursor[c] + 1)..end \subseteq DOMAIN h
          /\ \E i \in (cursor[c] + k * ApplyChunk + 1)..(cursor[c] + k * ApplyChunk + ApplyChunk) :
                i <= end /\ RefusesAt(c, Before(Applied(c, h, end), i), Applied(c, h, end)[i])
          /\ cursor[c] + k * ApplyChunk <= end
          /\ cursor' = [cursor EXCEPT ![c] = cursor[c] + k * ApplyChunk]
          /\ base' = [base EXCEPT ![c] = Applied(c, h, cursor[c] + k * ApplyChunk)]
          /\ broken' = [broken EXCEPT ![c] = TRUE]
          /\ pending' = [pending EXCEPT ![c] = p]
          /\ refused' = [refused EXCEPT ![c] = @ \cup told]
    BY <1>3, Zenon DEF Stick, RunEnd
  <2>2. end \in Nat
    BY <1>1 DEF IsSequenced
  <2> PICK k \in 0..(end - cursor[c]) :
          /\ end >= cursor[c]
          /\ (cursor[c] + 1)..end \subseteq DOMAIN h
          /\ \E i \in (cursor[c] + k * ApplyChunk + 1)..(cursor[c] + k * ApplyChunk + ApplyChunk) :
                i <= end /\ RefusesAt(c, Before(Applied(c, h, end), i), Applied(c, h, end)[i])
          /\ cursor[c] + k * ApplyChunk <= end
          /\ cursor' = [cursor EXCEPT ![c] = cursor[c] + k * ApplyChunk]
          /\ base' = [base EXCEPT ![c] = Applied(c, h, cursor[c] + k * ApplyChunk)]
          /\ broken' = [broken EXCEPT ![c] = TRUE]
          /\ pending' = [pending EXCEPT ![c] = p]
          /\ refused' = [refused EXCEPT ![c] = @ \cup told]
    BY <2>1
  <2>3. k * ApplyChunk \in Nat
    BY <1>1, <2>2
  <2>4. PICK n \in Nat : n = cursor[c] + k * ApplyChunk
    BY <1>1, <2>3
  <2>5. PICK i \in (n + 1)..(n + ApplyChunk) :
          i <= end /\ RefusesAt(c, Before(Applied(c, h, end), i), Applied(c, h, end)[i])
    BY <2>1, <2>4
  <2>6. i \in Nat /\ i > n
    BY <1>1
  <2>7. StuckAfter(c, h, n)
    BY <2>1, <2>2, <2>5, <2>6 DEF StuckAfter
  <2>8. n >= cursor[c] /\ (cursor[c] + 1)..n \subseteq DOMAIN h
    BY <1>1, <2>1, <2>2, <2>3, <2>4
  <2>9. SettlesTo(c, h, n, p, told, {})
    BY <2>1, <2>4, <2>7, <2>8 DEF SettlesTo
  <2> QED BY <2>9
<1> QED BY <1>2, <1>3

\* A restriction of a message's entries put into what is held.
LEMMA PutFromWire ==
    ASSUME NEW c \in Clients, NEW m \in down[c], m.type \in {"Batch", "Ack"},
           NEW S \in SUBSET DOMAIN m.entries, TypeOK
    PROVE  FromWire(c, Put(held[c], Restrict(m.entries, S)))
<1> DEFINE g == Restrict(m.entries, S)
<1>1. IsSequenced(held[c]) /\ IsSequenced(m.entries)
  BY WireType DEF TypeOK, ClientTypeOK
<1>2. /\ IsSequenced(g)
      /\ DOMAIN g = S
      /\ \A s \in S : g[s] = m.entries[s]
  BY <1>1 DEF IsSequenced, Restrict
<1> HIDE DEF g
<1>3. IsSequenced(Put(held[c], g))
  BY <1>1, <1>2, PutSequenced
<1>4. /\ DOMAIN held[c] \subseteq DOMAIN Put(held[c], g)
      /\ \A s \in DOMAIN Put(held[c], g) :
            \/ s \in DOMAIN held[c] /\ Put(held[c], g)[s] = held[c][s]
            \/ s \in DOMAIN g /\ Put(held[c], g)[s] = g[s]
  BY DEF Put
<1>5. FromWire(c, Put(held[c], g))
  BY <1>2, <1>3, <1>4 DEF FromWire
<1> QED BY <1>5 DEF g

\* A whole Batch or Ack put into what is held.
LEMMA WholeFromWire ==
    ASSUME NEW c \in Clients, NEW m \in down[c], m.type \in {"Batch", "Ack"}, TypeOK
    PROVE  FromWire(c, Put(held[c], m.entries))
<1>1. IsSequenced(m.entries)
  BY WireType
<1>2. Restrict(m.entries, DOMAIN m.entries) = m.entries
  BY <1>1 DEF IsSequenced, Restrict
<1>3. DOMAIN m.entries \in SUBSET DOMAIN m.entries
  OBVIOUS
<1>4. FromWire(c, Put(held[c], Restrict(m.entries, DOMAIN m.entries)))
  BY <1>3, PutFromWire
<1> QED BY <1>2, <1>4

\* The promoted part of an Ack put into what is held.
LEMMA PromotedFromWire ==
    ASSUME NEW c \in Clients, NEW m \in down[c], m.type = "Ack", TypeOK
    PROVE  FromWire(c, Put(held[c], Promoted(c, m)))
<1> DEFINE S == {s \in DOMAIN m.entries : m.entries[s] \in pending[c]}
<1>1. S \in SUBSET DOMAIN m.entries
  OBVIOUS
<1>2. FromWire(c, Put(held[c], Restrict(m.entries, S)))
  BY <1>1, PutFromWire
<1> QED BY <1>2 DEF Promoted

\* What is held is what is held.
LEMMA HeldFromWire ==
    ASSUME NEW c \in Clients, TypeOK
    PROVE  FromWire(c, held[c]) /\ held = [held EXCEPT ![c] = held[c]]
BY DEF FromWire, TypeOK, ClientTypeOK

\* A recv that finishes is a move.
LEMMA FinishMoves ==
    ASSUME NEW c \in Clients, NEW h, NEW gone, NEW told, TypeOK, FromWire(c, h),
           Finish(c, h, pending[c] \ gone, told),
           GoneFor(c, gone, told), ToldOnWire(c, told),
           UNCHANGED authored,
           \A d \in Clients : down'[d] \subseteq down[d],
           \A d \in Clients : \A m \in up'[d] : m \in up[d] \/ m.type = "Hello"
    PROVE  ClientMoves(c)
<1>1. IsSequenced(h)
  BY DEF FromWire
<1>2. PICK n \in Nat, dropped \in SUBSET (pending[c] \ gone) :
        SettlesTo(c, h, n, pending[c] \ gone, told, dropped)
  BY <1>1, FinishDoes DEF Finish
<1>3. Moves(c, h, n, gone, told, dropped)
  BY <1>2 DEF Moves, Finish
<1> QED BY <1>3 DEF ClientMoves

\* A delivery takes at most the message from the wire.
LEMMA DownShrinks ==
    ASSUME NEW c \in Clients, NEW m, NEW kept, TypeOK,
           down' = [down EXCEPT ![c] = After(@, m, kept)]
    PROVE  \A d \in Clients : down'[d] \subseteq down[d]
<1>1. down = [d \in Clients |-> down[d]]
  BY DEF TypeOK, NetTypeOK
<1>2. After(down[c], m, kept) \subseteq down[c]
  BY DEF After
<1> QED BY <1>1, <1>2

\* Every recv is a move.
LEMMA RecvMoves ==
    ASSUME NEW c \in Clients, TypeOK,
           RecvBatch(c) \/ RecvAck(c) \/ RecvReject(c) \/ RecvDenied(c)
    PROVE  ClientMoves(c)
<1>1. CASE RecvBatch(c)
  <2>1. PICK m \in down[c], kept \in BOOLEAN :
        /\ m.type = "Batch"
        /\ down' = [down EXCEPT ![c] = After(@, m, kept)]
        /\ Finish(c, Put(held[c], m.entries), pending[c] \ Range(m.entries), {})
        /\ IF m.more
           THEN \E since : up' = [up EXCEPT ![c] = @ \cup {Hello(since)}]
           ELSE UNCHANGED up
        /\ UNCHANGED authored
    BY <1>1 DEF RecvBatch
  <2>2. FromWire(c, Put(held[c], m.entries))
    BY <2>1, WholeFromWire
  <2>3. GoneFor(c, Range(m.entries), {}) /\ ToldOnWire(c, {})
    BY <2>1 DEF GoneFor, ToldOnWire
  <2>4. \A d \in Clients : \A x \in up'[d] : x \in up[d] \/ x.type = "Hello"
    <3>1. up = [d \in Clients |-> up[d]]
      BY DEF TypeOK, NetTypeOK
    <3>2. CASE UNCHANGED up
      BY <3>2
    <3>3. ASSUME NEW since, up' = [up EXCEPT ![c] = @ \cup {Hello(since)}]
          PROVE  \A d \in Clients : \A x \in up'[d] : x \in up[d] \/ x.type = "Hello"
      <4>1. Hello(since).type = "Hello"
        BY DEF Hello
      <4>2. \A d \in Clients : up'[d] = up[d] \/ up'[d] = up[d] \cup {Hello(since)}
        BY <3>1, <3>3
      <4> QED BY <4>1, <4>2
    <3> QED BY <2>1, <3>2, <3>3
  <2> QED BY <2>1, <2>2, <2>3, <2>4, DownShrinks, FinishMoves
<1>2. CASE RecvAck(c)
  <2>1. PICK m \in down[c], kept \in BOOLEAN :
        /\ m.type = "Ack"
        /\ down' = [down EXCEPT ![c] = After(@, m, kept)]
        /\ Finish(c, Put(held[c], Promoted(c, m)), pending[c] \ Range(m.entries), {})
        /\ UNCHANGED <<authored, up>>
    BY <1>2 DEF RecvAck
  <2>2. FromWire(c, Put(held[c], Promoted(c, m)))
    BY <2>1, PromotedFromWire
  <2>3. GoneFor(c, Range(m.entries), {}) /\ ToldOnWire(c, {})
    BY <2>1 DEF GoneFor, ToldOnWire
  <2> QED BY <2>1, <2>2, <2>3, DownShrinks, FinishMoves
<1>3. CASE RecvReject(c)
  <2>1. PICK m \in down[c], kept \in BOOLEAN :
        /\ m.type = "Reject"
        /\ down' = [down EXCEPT ![c] = After(@, m, kept)]
        /\ Finish(c, held[c], pending[c] \ {m.id}, {m.id})
        /\ UNCHANGED <<authored, up>>
    BY <1>3 DEF RecvReject
  <2>2. GoneFor(c, {m.id}, {m.id}) /\ ToldOnWire(c, {m.id})
    BY <2>1 DEF GoneFor, ToldOnWire
  <2> QED BY <2>1, <2>2, HeldFromWire, DownShrinks, FinishMoves
<1>4. CASE RecvDenied(c)
  <2>1. PICK m \in down[c], kept \in BOOLEAN :
        /\ down' = [down EXCEPT ![c] = After(@, m, kept)]
        /\ Finish(c, held[c], pending[c] \ {}, {})
        /\ UNCHANGED <<authored, up>>
    BY <1>4 DEF RecvDenied
  <2>2. GoneFor(c, {}, {}) /\ ToldOnWire(c, {})
    BY DEF GoneFor, ToldOnWire
  <2> QED BY <2>1, <2>2, HeldFromWire, DownShrinks, FinishMoves
<1> QED BY <1>1, <1>2, <1>3, <1>4

\* open is a move.
LEMMA OpenMoves ==
    ASSUME NEW c \in Clients, TypeOK, Open(c)
    PROVE  ClientMoves(c)
<1>1. PICK gone \in SUBSET Range(held[c]) :
        Settle(c, held[c], pending[c] \ gone, {}) \/ Stick(c, held[c], pending[c] \ gone, {})
  <2>1. pending[c] \ {} = pending[c]
    OBVIOUS
  <2> QED BY <2>1 DEF Open
<1>2. UNCHANGED <<held, authored, up, down>>
  BY DEF Open
<1>3. GoneFor(c, gone, {}) /\ ToldOnWire(c, {})
  BY <1>1 DEF GoneFor, ToldOnWire
<1>4. Finish(c, held[c], pending[c] \ gone, {})
  BY <1>1, <1>2, HeldFromWire DEF Finish
<1> QED BY <1>2, <1>3, <1>4, HeldFromWire, FinishMoves

\* A crash, wherever it lands, is a move.
LEMMA CrashMoves ==
    ASSUME NEW c \in Clients, TypeOK, Crash(c)
    PROVE  ClientMoves(c)
<1>1. /\ broken' = [broken EXCEPT ![c] = FALSE]
      /\ UNCHANGED authored
      /\ \A d \in Clients : down'[d] \subseteq down[d] /\ up'[d] \subseteq up[d]
  <2>1. /\ up = [d \in Clients |-> up[d]]
        /\ down = [d \in Clients |-> down[d]]
    BY DEF TypeOK, NetTypeOK
  <2> QED BY <2>1 DEF Crash, Stop
<1>2. cursor[c] \in Nat
  BY DEF TypeOK, ClientTypeOK
<1>3. Applied(c, held[c], cursor[c]) = base[c]
  BY <1>2 DEF Applied, TypeOK, ClientTypeOK
<1>4. \A h : Applied(c, h, cursor[c]) = base[c]
  BY <1>2 DEF Applied, TypeOK, ClientTypeOK
\* The parts of the state a stop leaves alone, written as updates.
<1>5. /\ cursor = [cursor EXCEPT ![c] = cursor[c]]
      /\ base = [base EXCEPT ![c] = base[c]]
      /\ refused = [refused EXCEPT ![c] = refused[c] \cup {} \cup {}]
      /\ pending = [pending EXCEPT ![c] = (pending[c] \ {}) \ {}]
  BY DEF TypeOK, ClientTypeOK
<1>6. (cursor[c] + 1)..cursor[c] = {}
  BY <1>2
<1>7. CASE UNCHANGED <<held, pending, cursor, base, refused>>
  <2>1. SettlesTo(c, held[c], cursor[c], pending[c] \ {}, {}, {})
    BY <1>1, <1>2, <1>4, <1>5, <1>6, <1>7 DEF SettlesTo
  <2>2. Moves(c, held[c], cursor[c], {}, {}, {})
    BY <1>1, <1>7, <2>1, HeldFromWire DEF Moves, GoneFor, ToldOnWire
  <2> QED BY <1>2, <2>2 DEF ClientMoves
<1>8. ASSUME NEW m \in down[c], m.type \in {"Batch", "Ack"},
             StopWriting(c, m), UNCHANGED refused
      PROVE  ClientMoves(c)
  <2>1. PICK S \in SUBSET DOMAIN m.entries, s \in DOMAIN m.entries, dropped \in BOOLEAN :
          /\ held' = [held EXCEPT ![c] = Put(@, Restrict(m.entries, S))]
          /\ pending' = [pending EXCEPT ![c] =
                @ \ Range(IF dropped THEN UpTo(m, Rank(m, s)) ELSE UpTo(m, Rank(m, s) - 1))]
    BY <1>8, Zenon DEF StopWriting
  <2> DEFINE gone == Range(IF dropped THEN UpTo(m, Rank(m, s)) ELSE UpTo(m, Rank(m, s) - 1))
             h == Put(held[c], Restrict(m.entries, S))
  <2>2. UNCHANGED <<cursor, base>>
    BY <1>8 DEF StopWriting
  <2>3. gone \subseteq Range(m.entries)
    BY DEF UpTo, Restrict, Range
  <2>4. GoneFor(c, gone, {}) /\ ToldOnWire(c, {})
    BY <1>8, <2>3 DEF GoneFor, ToldOnWire
  <2>5. FromWire(c, h)
    BY <1>8, PutFromWire
  <2>6. held' = [held EXCEPT ![c] = h] /\ pending' = [pending EXCEPT ![c] = @ \ gone]
    BY <2>1
  <2> HIDE DEF gone, h
  <2>7. SettlesTo(c, h, cursor[c], pending[c] \ gone, {}, {})
    BY <1>1, <1>2, <1>4, <1>5, <1>6, <1>8, <2>2, <2>6 DEF SettlesTo
  <2>8. Moves(c, h, cursor[c], gone, {}, {})
    BY <1>1, <2>4, <2>5, <2>6, <2>7 DEF Moves
  <2> QED BY <1>2, <2>8 DEF ClientMoves
<1>9. ASSUME NEW m \in down[c], m.type \in {"Batch", "Ack"},
             StopAdvancing(c, m), UNCHANGED refused
      PROVE  ClientMoves(c)
  <2> DEFINE h == Put(held[c], IF m.type = "Batch" THEN m.entries ELSE Promoted(c, m))
  <2>1. FromWire(c, h)
    BY <1>9, WholeFromWire, PromotedFromWire
  <2>2. PICK end \in {cursor[c]} \cup DOMAIN h :
          /\ held' = [held EXCEPT ![c] = h]
          /\ pending' = [pending EXCEPT ![c] = @ \ Range(m.entries)]
          /\ end >= cursor[c]
          /\ (cursor[c] + 1)..end \subseteq DOMAIN h
          /\ cursor' = [cursor EXCEPT ![c] = end]
          /\ base' = [base EXCEPT ![c] = Applied(c, h, end)]
    BY <1>9 DEF StopAdvancing
  <2> HIDE DEF h
  <2>3. end \in Nat
    BY <1>2, <2>1 DEF FromWire, IsSequenced
  <2>4. GoneFor(c, Range(m.entries), {}) /\ ToldOnWire(c, {})
    BY <1>9 DEF GoneFor, ToldOnWire
  <2>5. SettlesTo(c, h, end, pending[c] \ Range(m.entries), {}, {})
    BY <1>1, <1>5, <1>9, <2>2 DEF SettlesTo
  <2>6. Moves(c, h, end, Range(m.entries), {}, {})
    BY <1>1, <2>1, <2>2, <2>4, <2>5 DEF Moves
  <2> QED BY <2>3, <2>6 DEF ClientMoves
<1>10. ASSUME NEW m \in down[c], m.type = "Reject", StopRefusing(c, m)
       PROVE  ClientMoves(c)
  <2>1. /\ pending' = [pending EXCEPT ![c] = @ \ {m.id}]
        /\ refused' = [refused EXCEPT ![c] = @ \cup {m.id}]
        /\ UNCHANGED <<held, cursor, base>>
    BY <1>10 DEF StopRefusing
  <2>2. SettlesTo(c, held[c], cursor[c], pending[c] \ {m.id}, {m.id}, {})
    BY <1>1, <1>2, <1>4, <1>5, <1>6, <2>1 DEF SettlesTo
  <2>3. Moves(c, held[c], cursor[c], {m.id}, {m.id}, {})
    BY <1>1, <1>10, <2>1, <2>2, HeldFromWire DEF Moves, GoneFor, ToldOnWire
  <2> QED BY <1>2, <2>3 DEF ClientMoves
<1> QED BY <1>7, <1>8, <1>9, <1>10 DEF Crash

----------------------------------------------------------------------------
(* The four kinds of step: a client moves, a client makes an entry, the    *)
(* server appends one, and the rest, which leave the log and what the      *)
(* clients hold alone.                                                     *)

\* What the rest may put on the wire to d.
NewDown(d, m) ==
    \/ m = Denied
    \/ m.type = "Reject" /\ Working(d) /\ m.id \in work.todo
    \/ m = Ack(work.acks)
    \/ \E a \in Nat, l \in Nat, more \in BOOLEAN :
          l <= head /\ m = Batch(Slice(a, l), more)

NewUp(d, m) == m.type = "Hello" \/ m = Push(pending[d])

\* What the rest may make of the Push being handled.
NewWork ==
    \/ work' = work
    \/ work' = Idle
    \/ /\ work'.from = work.from
       /\ work'.todo \subseteq work.todo
       /\ \/ work'.acks = work.acks
          \/ \E s \in DOMAIN log : work'.acks = Insert(work.acks, s, log[s])
    \/ \E c \in Clients : \E m \in up[c] :
          m.type = "Push" /\ work' = [from |-> {c}, todo |-> m.entries, acks |-> Nothing]

QuietStep ==
    /\ UNCHANGED <<log, held, cursor, base, pending, refused, broken, authored>>
    /\ \A d \in Clients : \A m \in down'[d] : m \in down[d] \/ NewDown(d, m)
    /\ \A d \in Clients : \A m \in up'[d] : m \in up[d] \/ NewUp(d, m)
    /\ NewWork

\* fanout sends slices of the log and nothing else.
LEMMA FanoutSends ==
    ASSUME NEW cs, NEW f, TypeOK, ConnsOK(cs), Fanout(cs, f)
    PROVE  \A d \in Clients : \A m \in down'[d] : m \in f[d] \/ NewDown(d, m)
<1> SUFFICES ASSUME NEW d \in Clients, NEW m \in down'[d], m \notin f[d]
             PROVE  NewDown(d, m)
  OBVIOUS
<1>1. /\ d \in DOMAIN cs
      /\ m = Batch(Slice(cs[d], Lesser(cs[d] + BatchLimit, head)),
                   Lesser(cs[d] + BatchLimit, head) < head)
  BY DEF Fanout
<1>2. cs[d] \in Nat /\ head \in Nat /\ BatchLimit \in Nat
  BY <1>1, LogType, ProtocolAssumption DEF ConnsOK
<1>3. /\ Lesser(cs[d] + BatchLimit, head) \in Nat
      /\ Lesser(cs[d] + BatchLimit, head) <= head
  BY <1>2 DEF Lesser
<1>4. (Lesser(cs[d] + BatchLimit, head) < head) \in BOOLEAN
  BY <1>2, <1>3
<1> QED BY <1>1, <1>2, <1>3, <1>4 DEF NewDown

\* What is in flight is a function on the clients.
LEMMA WireIsFun ==
    ASSUME TypeOK
    PROVE  up = [d \in Clients |-> up[d]] /\ down = [d \in Clients |-> down[d]]
BY DEF TypeOK, NetTypeOK

\* A delivery to the server adds nothing to what is in flight to it.
LEMMA UpTaken ==
    ASSUME NEW c \in Clients, NEW m, NEW kept, TypeOK,
           up' = [up EXCEPT ![c] = After(@, m, kept)]
    PROVE  \A d \in Clients : up'[d] \subseteq up[d]
<1>1. After(up[c], m, kept) \subseteq up[c]
  BY DEF After
<1> QED BY <1>1, WireIsFun

\* Turning a connection away is quiet.
LEMMA DenyQuiet ==
    ASSUME NEW c \in Clients, TypeOK, DenyHello(c) \/ DenyPush(c), UNCHANGED clientVars
    PROVE  QuietStep
<1>1. PICK m, kept : up' = [up EXCEPT ![c] = After(@, m, kept)]
  <2>1. ASSUME NEW m PROVE up[c] \ {m} = After(up[c], m, FALSE)
    BY DEF After
  <2> QED BY <2>1 DEF DenyHello, DenyPush
<1>2. down' = [down EXCEPT ![c] = @ \cup {Denied}] /\ UNCHANGED <<log, work>>
  BY DEF DenyHello, DenyPush, Deny
<1>3. \A d \in Clients : \A x \in down'[d] : x \in down[d] \/ x = Denied
  BY <1>2, WireIsFun
<1> QED BY <1>1, <1>2, <1>3, UpTaken DEF QuietStep, NewDown, NewWork, clientVars

\* The handler of Hello is quiet.
LEMMA HelloQuiet ==
    ASSUME NEW c \in Clients, TypeOK, HandleHello(c), UNCHANGED clientVars
    PROVE  QuietStep
<1>1. PICK m \in up[c], kept \in BOOLEAN :
        /\ m.type = "Hello"
        /\ up' = [up EXCEPT ![c] = After(@, m, kept)]
        /\ Fanout(Insert(conns, c, Lesser(m.since, head)), down)
        /\ UNCHANGED <<log, work>>
  BY DEF HandleHello
<1>2. Lesser(m.since, head) \in Nat
  <2>1. m.since \in Nat
    BY <1>1 DEF TypeOK, NetTypeOK, ClientMsgOK, Hello, Push
  <2> QED BY <2>1, LogType DEF Lesser
<1>3. \A d \in Clients : \A x \in down'[d] : x \in down[d] \/ NewDown(d, x)
  BY <1>1, <1>2, InsertType, FanoutSends
<1> QED BY <1>1, <1>3, UpTaken DEF QuietStep, NewWork, clientVars

\* Everything a Push does except its appends is quiet.
LEMMA PushQuiet ==
    ASSUME NEW c \in Clients, TypeOK,
           TakePush(c) \/ AckAgain(c) \/ Refuse(c) \/ IoRefuse(c) \/ FinishPush(c),
           UNCHANGED clientVars
    PROVE  QuietStep
<1>1. CASE TakePush(c)
  <2>1. PICK m \in up[c], kept \in BOOLEAN :
        /\ m.type = "Push"
        /\ up' = [up EXCEPT ![c] = After(@, m, kept)]
        /\ work' = [from |-> {c}, todo |-> m.entries, acks |-> Nothing]
        /\ UNCHANGED <<log, down>>
    BY <1>1 DEF TakePush
  <2> QED BY <2>1, UpTaken DEF QuietStep, NewWork, clientVars
<1>2. CASE AckAgain(c)
  <2>1. PICK e \in work.todo, s \in DOMAIN log :
        /\ log[s] = e
        /\ work' = [Done(e) EXCEPT !.acks = Insert(@, s, e)]
        /\ Working(c)
        /\ UNCHANGED <<log, up, down>>
    BY <1>2 DEF AckAgain
  <2>2. work' = [from |-> work.from, todo |-> work.todo \ {e}, acks |-> Insert(work.acks, s, e)]
    BY <2>1, WorkType DEF Done
  <2> QED BY <2>1, <2>2 DEF QuietStep, NewWork, clientVars
<1>3. CASE Refuse(c) \/ IoRefuse(c)
  <2>1. PICK e \in work.todo :
        /\ work' = Done(e)
        /\ down' = [down EXCEPT ![c] = @ \cup {Reject(e)}]
        /\ Working(c)
        /\ UNCHANGED <<log, up>>
    BY <1>3 DEF Refuse, IoRefuse
  <2>2. work' = [from |-> work.from, todo |-> work.todo \ {e}, acks |-> work.acks]
    BY <2>1, WorkType DEF Done
  <2>3. ASSUME NEW d \in Clients, NEW m \in down'[d], m \notin down[d]
        PROVE  NewDown(d, m)
    <3>1. d = c /\ m = Reject(e)
      BY <2>1, <2>3, WireIsFun
    <3> QED BY <2>1, <3>1 DEF NewDown, Reject
  <2> QED BY <2>1, <2>2, <2>3 DEF QuietStep, NewWork, clientVars
<1>4. CASE FinishPush(c)
  <2>1. PICK f \in {down, [down EXCEPT ![c] = @ \cup {Ack(work.acks)}]} :
        /\ Fanout(conns, f)
        /\ work' = Idle
        /\ UNCHANGED <<log, up>>
    BY <1>4 DEF FinishPush
  <2>2. ASSUME NEW d \in Clients, NEW m \in down'[d], m \notin down[d]
        PROVE  NewDown(d, m)
    <3>1. m \in f[d] \/ NewDown(d, m)
      BY <2>1, NowOK, FanoutSends
    <3>2. m \in f[d] => m = Ack(work.acks)
      BY <2>1, <2>2, WireIsFun
    <3> QED BY <3>1, <3>2 DEF NewDown
  <2> QED BY <2>1, <2>2 DEF QuietStep, NewWork, clientVars
<1> QED BY <1>1, <1>2, <1>3, <1>4

\* connected is quiet: it re-offers what is pending.
LEMMA ConnectedQuiet ==
    ASSUME NEW c \in Clients, TypeOK, Connected(c), UNCHANGED serverVars
    PROVE  QuietStep
<1>1. PICK S \in SUBSET {Push(pending[c])} :
        /\ up' = [up EXCEPT ![c] = {Hello(cursor[c])} \cup S]
        /\ down' = [down EXCEPT ![c] = {}]
        /\ UNCHANGED <<held, cursor, base, pending, authored, refused, broken>>
  BY DEF Connected
<1>2. \A d \in Clients : down'[d] \subseteq down[d]
  BY <1>1, WireIsFun
<1>3. ASSUME NEW d \in Clients, NEW m \in up'[d], m \notin up[d]
      PROVE  NewUp(d, m)
  BY <1>1, <1>3, WireIsFun DEF NewUp, Hello
<1> QED BY <1>1, <1>2, <1>3 DEF QuietStep, NewWork, serverVars

\* Losing a connection is quiet.
LEMMA CutQuiet ==
    ASSUME NEW c \in Clients, TypeOK,
           Disconnect(c) \/ CloseDenied(c) \/ FailPush(c)
    PROVE  QuietStep
<1>1. /\ Hangup(c)
      /\ UNCHANGED log
      /\ work' = work \/ work' = Idle
  BY DEF Disconnect, CloseDenied, FailPush, IoFail, serverVars
<1>2. \A d \in Clients : down'[d] \subseteq down[d] /\ up'[d] \subseteq up[d]
  BY <1>1, WireIsFun DEF Hangup
<1> QED BY <1>1, <1>2 DEF QuietStep, NewWork, Hangup

\* Losing a message is quiet.
LEMMA LoseQuiet ==
    ASSUME NEW c \in Clients, TypeOK, Lose(c), UNCHANGED <<clientVars, serverVars>>
    PROVE  QuietStep
<1>1. PICK m :
         \/ up' = [up EXCEPT ![c] = @ \ {m}] /\ UNCHANGED down
         \/ down' = [down EXCEPT ![c] = @ \ {m}] /\ UNCHANGED up
  BY DEF Lose
<1>2. \A d \in Clients : down'[d] \subseteq down[d] /\ up'[d] \subseteq up[d]
  BY <1>1, WireIsFun
<1> QED BY <1>2 DEF QuietStep, NewWork, clientVars, serverVars

\* A restart of the server is quiet.
LEMMA RestartQuiet == ASSUME TypeOK, RestartServer PROVE QuietStep
<1>1. \A d \in Clients : down'[d] = {} /\ up'[d] = {}
  BY DEF RestartServer, Restart
<1> QED BY <1>1 DEF RestartServer, Restart, QuietStep, NewWork

\* Every step is of one of the four kinds.
LEMMA StepKinds ==
    ASSUME TypeOK, Next
    PROVE  \/ \E c \in Clients : ClientMoves(c) /\ UNCHANGED <<log, work>>
           \/ \E c \in Clients : Mutate(c) /\ UNCHANGED serverVars
           \/ \E c \in Clients : Append1(c) /\ UNCHANGED clientVars
           \/ QuietStep
<1>1. ASSUME NEW c \in Clients, ClientNext(c), UNCHANGED serverVars
      PROVE  ClientMoves(c) \/ Mutate(c) \/ QuietStep
  BY <1>1, RecvMoves, OpenMoves, ConnectedQuiet DEF ClientNext
<1>2. ASSUME NEW c \in Clients, ServerNext(c), UNCHANGED clientVars
      PROVE  Append1(c) \/ QuietStep
  BY <1>2, HelloQuiet, DenyQuiet, PushQuiet DEF ServerNext
<1>3. ASSUME NEW c \in Clients, CrashClient(c)
      PROVE  ClientMoves(c) /\ UNCHANGED <<log, work>>
  BY <1>3, CrashMoves DEF CrashClient
<1> QED BY <1>1, <1>2, <1>3, LoseQuiet, CutQuiet, RestartQuiet DEF Next, serverVars

----------------------------------------------------------------------------
(* The log                                                                 *)

\* At the start the server knows of no connection.
LEMMA InitIdentified == Init => Identified
BY DEF Init, ServerInit, Identified, Nothing, Working, Idle

\* Forgetting a connection that no Push is being handled for.
LEMMA ForgetIdentified ==
    ASSUME NEW c \in Clients, TypeOK, Identified, Forget(c),
           work' = Idle \/ (~Working(c) /\ work' = work)
    PROVE  Identified'
<1>1. who \in [Clients -> SUBSET Users] /\ DOMAIN conns \subseteq Clients
  BY DEF TypeOK, ServerTypeOK
<1>2. DOMAIN conns' = DOMAIN conns \ {c} /\ who' = [who EXCEPT ![c] = {}]
  BY DEF Forget, Without, Restrict
<1>3. ASSUME NEW d \in Clients, Working(d)' PROVE d \in DOMAIN conns'
  <2>1. Working(d) /\ ~Working(c)
    BY <1>3 DEF Working, Idle
  <2> QED BY <1>2, <2>1 DEF Identified, Working
<1> QED BY <1>1, <1>2, <1>3 DEF Identified

\* A step that knows the same connections as the same users, for one Push.
LEMMA SameIdentified ==
    ASSUME TypeOK, Identified, UNCHANGED who, DOMAIN conns' = DOMAIN conns,
           work' = Idle \/ work'.from = work.from
    PROVE  Identified'
BY DEF Identified, Working, Idle

\* The server's own steps keep what it knows of its connections.
LEMMA ServerIdentified ==
    ASSUME NEW c \in Clients, TypeOK, Identified, ServerNext(c)
    PROVE  Identified'
<1>1. /\ who \in [Clients -> SUBSET Users]
      /\ DOMAIN conns \subseteq Clients
      /\ work = [from |-> work.from, todo |-> work.todo, acks |-> work.acks]
  BY DEF TypeOK, ServerTypeOK
<1>2. CASE HandleHello(c)
  <2>1. PICK m \in up[c] : Fanout(Insert(conns, c, Lesser(m.since, head)), down)
    BY <1>2 DEF HandleHello
  <2>2. DOMAIN conns' = DOMAIN conns \cup {c}
    BY <2>1 DEF Fanout, Insert
  <2>3. PICK user \in Authenticated(c) : who' = [who EXCEPT ![c] = user]
    BY <1>2 DEF HandleHello
  <2>4. /\ user \subseteq IF Trusting THEN {} ELSE Proves[c]
        /\ ~Trusting => user # {}
    BY <2>3 DEF Authenticated
  <2>5. \A d \in Clients : ~Working(d)'
    BY <1>2 DEF HandleHello, Working, Idle
  <2> QED BY <1>1, <2>2, <2>3, <2>4, <2>5 DEF Identified
<1>3. CASE DenyHello(c) \/ DenyPush(c)
  BY <1>3, ForgetIdentified DEF DenyHello, DenyPush, Deny
<1>4. CASE TakePush(c)
  <2>1. DOMAIN conns' = DOMAIN conns \cup {c} /\ (~Trusting => c \in DOMAIN conns)
    BY <1>4 DEF TakePush, Insert
  <2>2. work'.from = {c} /\ UNCHANGED who
    BY <1>4 DEF TakePush
  <2> QED BY <1>1, <2>1, <2>2 DEF Identified, Working
<1>5. CASE AckAgain(c) \/ Append1(c) \/ Refuse(c) \/ IoRefuse(c)
  <2>1. UNCHANGED <<conns, who>> /\ work'.from = work.from
    BY <1>1, <1>5 DEF AckAgain, Append1, Refuse, IoRefuse, Done
  <2> QED BY <2>1, SameIdentified
<1>6. CASE FinishPush(c)
  <2>1. UNCHANGED who /\ DOMAIN conns' = DOMAIN conns /\ work' = Idle
    BY <1>6 DEF FinishPush, Fanout
  <2> QED BY <2>1, SameIdentified
<1> QED BY <1>2, <1>3, <1>4, <1>5, <1>6 DEF ServerNext

\* Every step keeps it.
LEMMA StepIdentified == Identified /\ TypeOK /\ [Next]_vars => Identified'
<1> SUFFICES ASSUME Identified, TypeOK, [Next]_vars PROVE Identified'
  OBVIOUS
<1>1. CASE UNCHANGED serverVars
  BY <1>1, SameIdentified DEF serverVars
<1>2. ASSUME NEW c \in Clients, Disconnect(c) \/ FailPush(c) \/ CrashClient(c)
      PROVE  Identified'
  BY <1>2, ForgetIdentified DEF Disconnect, FailPush, IoFail, CrashClient
<1>3. CASE RestartServer
  BY <1>3 DEF RestartServer, Restart, Identified, Nothing, Working, Idle
<1> QED BY <1>1, <1>2, <1>3, ServerIdentified DEF Next, vars, CloseDenied

LogInv == LoggedOnce /\ LogPermitted /\ LogValid

\* The empty log has every property of a log.
LEMMA InitLog == Init => LogInv
BY DEF Init, ServerInit, LogInv, LoggedOnce, LogPermitted, LogValid

\* On the connection of a Push being handled, what is allowed is allowed to
\* somebody its client could prove to be.
LEMMA AllowedIsPermitted ==
    ASSUME NEW c \in Clients, NEW e, Identified, Working(c), Allowed(c, e), ~Trusting
    PROVE  \E u \in Proves[c] : Permitted(u, e)
BY DEF Identified, Allowed

\* What the log is after an append.
LEMMA AppendLog ==
    ASSUME NEW c \in Clients, TypeOK, Append1(c)
    PROVE  \E e \in work.todo :
              /\ log' = Append(log, e)
              /\ DOMAIN log' = 1..(head + 1)
              /\ log'[head + 1] = e
              /\ \A i \in 1..head : log'[i] = log[i]
              /\ e.by = c
              /\ ~Logged(e) /\ Allowed(c, e) /\ ~Rejects(log, e)
              /\ work' = [from |-> work.from, todo |-> work.todo \ {e},
                          acks |-> Insert(work.acks, head + 1, e)]
<1>1. PICK e \in work.todo :
        /\ ~Logged(e) /\ Allowed(c, e) /\ ~Rejects(log, e)
        /\ log' = Append(log, e)
        /\ work' = [Done(e) EXCEPT !.acks = Insert(@, head + 1, e)]
  BY DEF Append1
<1>2. Working(c)
  BY DEF Append1
<1>3. work' = [from |-> work.from, todo |-> work.todo \ {e},
              acks |-> Insert(work.acks, head + 1, e)]
  BY <1>1, <1>2, WorkType DEF Done
<1>4. log \in Seq(Entry) /\ e \in Entry /\ e.by = c
  BY <1>2, WorkType DEF TypeOK, ServerTypeOK
<1>5. /\ DOMAIN log' = 1..(head + 1)
      /\ log'[head + 1] = e
      /\ \A i \in 1..head : log'[i] = log[i]
  BY <1>1, <1>4 DEF head
<1> QED BY <1>1, <1>3, <1>4, <1>5

\* Every step keeps the log without repetition, permitted and valid.
LEMMA StepLog == LogInv /\ Identified /\ TypeOK /\ [Next]_vars => LogInv'
<1> SUFFICES ASSUME LogInv, Identified, TypeOK, [Next]_vars PROVE LogInv'
  OBVIOUS
<1>1. CASE UNCHANGED log
  BY <1>1 DEF LogInv, LoggedOnce, LogPermitted, LogValid, Before
<1>2. ASSUME NEW c \in Clients, Append1(c)
      PROVE  LogInv'
  <2>1. PICK e :
              /\ DOMAIN log' = 1..(head + 1)
              /\ log'[head + 1] = e
              /\ \A i \in 1..head : log'[i] = log[i]
              /\ e.by = c
              /\ ~Logged(e) /\ Allowed(c, e) /\ ~Rejects(log, e)
    BY <1>2, AppendLog
  <2>2. head \in Nat /\ DOMAIN log = 1..head /\ log = [i \in 1..head |-> log[i]]
    BY LogType DEF TypeOK, ServerTypeOK, head
  <2>3. LoggedOnce'
    BY <2>1, <2>2 DEF LogInv, LoggedOnce, Logged, Range
  <2>4. LogPermitted'
    <3>1. ~Trusting => \E u \in Proves[c] : Permitted(u, e)
      BY <1>2, <2>1, AllowedIsPermitted DEF Append1
    <3> QED BY <2>1, <2>2, <3>1 DEF LogInv, LogPermitted
  <2>5. ASSUME NEW i \in 1..(head + 1)
        PROVE  ~Rejects(Before(log', i), log'[i])
    <3>1. CASE i = head + 1
      <4>1. Before(log', i) = log
        BY <2>1, <2>2, <3>1 DEF Before
      <4> QED BY <2>1, <3>1, <4>1
    <3>2. CASE i \in 1..head
      <4>1. Before(log', i) = Before(log, i)
        BY <2>1, <2>2, <3>2 DEF Before
      <4> QED BY <2>1, <2>2, <3>2, <4>1 DEF LogInv, LogValid
    <3> QED BY <2>2, <3>1, <3>2
  <2>6. LogValid'
    BY <2>1, <2>5 DEF LogValid
  <2> QED BY <2>3, <2>4, <2>6 DEF LogInv
<1>3. CASE UNCHANGED vars
  BY <1>1, <1>3 DEF vars, serverVars
<1> QED BY <1>1, <1>2, <1>3, StepKinds DEF QuietStep, serverVars

----------------------------------------------------------------------------
(* Agreement: what every copy of a part of the log says                    *)

AgreeInv ==
    /\ Agrees(work.acks)
    /\ WireAgrees
    /\ HeldAgrees
    /\ BaseIsLog

\* With nothing held and nothing in flight, all copies agree.
LEMMA InitAgree == Init => AgreeInv
BY DEF Init, NetInit, ClientInit, ServerInit, Idle, Nothing, AgreeInv, Agrees,
       WireAgrees, HeldAgrees, BaseIsLog, head

\* The tables after applying n entries of a log that agrees are the log.
LEMMA AppliedIsLog ==
    ASSUME NEW c \in Clients, NEW h, NEW n \in Nat, TypeOK, BaseIsLog, Agrees(h),
           n >= cursor[c], (cursor[c] + 1)..n \subseteq DOMAIN h
    PROVE  n <= head /\ Applied(c, h, n) = SubSeq(log, 1, n)
<1>1. /\ cursor[c] \in Nat /\ cursor[c] <= head
      /\ head \in Nat /\ log \in Seq(Entry)
      /\ base[c] = SubSeq(log, 1, cursor[c])
  BY LogType DEF TypeOK, ClientTypeOK, ServerTypeOK, BaseIsLog
<1>2. n <= head
  <2>1. CASE n = cursor[c]
    BY <1>1, <2>1
  <2>2. CASE n > cursor[c]
    <3>1. n \in (cursor[c] + 1)..n
      BY <1>1, <2>2
    <3> QED BY <3>1 DEF Agrees
  <2> QED BY <1>1, <2>1, <2>2
<1>3. ASSUME NEW i \in 1..n
      PROVE  (IF i <= cursor[c] THEN base[c][i] ELSE h[i]) = log[i]
  BY <1>1, <1>2 DEF Agrees, head
<1>4. SubSeq(log, 1, n) = [i \in 1..n |-> log[i]]
  BY <1>1, <1>2 DEF head
<1> QED BY <1>2, <1>3, <1>4 DEF Applied

\* What a client holds after a move agrees with the log.
LEMMA FromWireAgrees ==
    ASSUME NEW c \in Clients, NEW h, AgreeInv, FromWire(c, h)
    PROVE  Agrees(h)
BY DEF AgreeInv, WireAgrees, HeldAgrees, FromWire, Agrees

\* A move keeps every copy of the log right.
LEMMA MovesAgree ==
    ASSUME NEW c \in Clients, TypeOK, AgreeInv, ClientMoves(c), UNCHANGED <<log, work>>
    PROVE  AgreeInv'
<1>1. PICK n \in Nat, dropped \in SUBSET pending[c] : \E h, gone, told :
        Moves(c, h, n, gone, told, dropped)
  BY DEF ClientMoves
<1>2. PICK h, gone, told : Moves(c, h, n, gone, told, dropped)
  BY <1>1
<1>3. Agrees(h)
  BY <1>2, FromWireAgrees DEF Moves
<1>4. n <= head /\ Applied(c, h, n) = SubSeq(log, 1, n)
  BY <1>2, <1>3, AppliedIsLog DEF AgreeInv, Moves, SettlesTo
<1>5. \A d \in Clients : held'[d] = IF d = c THEN h ELSE held[d]
  BY <1>2 DEF Moves, TypeOK, ClientTypeOK
<1>6. \A d \in Clients :
         /\ cursor'[d] = IF d = c THEN n ELSE cursor[d]
         /\ base'[d] = IF d = c THEN SubSeq(log, 1, n) ELSE base[d]
  BY <1>2, <1>4 DEF Moves, SettlesTo, TypeOK, ClientTypeOK
<1>7. HeldAgrees'
  BY <1>3, <1>5 DEF AgreeInv, HeldAgrees, Agrees, head
<1>8. BaseIsLog'
  BY <1>4, <1>6 DEF AgreeInv, BaseIsLog, head
<1>9. WireAgrees'
  BY <1>2 DEF Moves, AgreeInv, WireAgrees, Agrees, head
<1> QED BY <1>7, <1>8, <1>9 DEF AgreeInv, Agrees, head

\* The log only grows at its end, so an append keeps every copy right.
LEMMA AppendAgrees ==
    ASSUME NEW c \in Clients, TypeOK, AgreeInv, Append1(c), UNCHANGED clientVars
    PROVE  AgreeInv'
<1>1. PICK e \in work.todo :
              /\ log' = Append(log, e)
              /\ DOMAIN log' = 1..(head + 1)
              /\ log'[head + 1] = e
              /\ \A i \in 1..head : log'[i] = log[i]
              /\ work' = [from |-> work.from, todo |-> work.todo \ {e},
                          acks |-> Insert(work.acks, head + 1, e)]
  BY AppendLog
<1>2. head \in Nat /\ log \in Seq(Entry) /\ e \in Entry
  BY LogType, WorkType DEF TypeOK, ServerTypeOK, Append1
<1>3. head' = head + 1 /\ head + 1 \in Nat /\ head + 1 >= head
  BY <1>1, <1>2 DEF head
<1>4. UNCHANGED <<down, held, cursor, base>>
  BY DEF Append1, clientVars
\* What agrees with the log agrees with the longer one.
<1>5. ASSUME NEW f, IsSequenced(f), Agrees(f)
      PROVE  \A s \in DOMAIN f : s <= head' /\ f[s] = log'[s]
  BY <1>1, <1>2, <1>3, <1>5 DEF Agrees, IsSequenced
<1>6. Agrees(work.acks)'
  <2>1. \A s \in DOMAIN work.acks : s <= head' /\ work.acks[s] = log'[s]
    <3>1. Agrees(work.acks) /\ IsSequenced(work.acks)
      BY DEF AgreeInv, TypeOK, ServerTypeOK
    <3> QED BY <1>5, <3>1
  <2>2. work'.acks = Insert(work.acks, head + 1, e)
    BY <1>1
  <2>3. ASSUME NEW s \in DOMAIN Insert(work.acks, head + 1, e)
        PROVE  s <= head' /\ Insert(work.acks, head + 1, e)[s] = log'[s]
    <3>1. s \in DOMAIN work.acks \cup {head + 1}
      BY DEF Insert
    <3>2. CASE s = head + 1
      <4>1. Insert(work.acks, head + 1, e)[s] = e
        BY <3>2 DEF Insert
      <4>2. s <= head'
        BY <1>2, <1>3, <3>2
      <4> QED BY <1>1, <3>2, <4>1, <4>2
    <3>3. CASE s \in DOMAIN work.acks /\ s # head + 1
      <4>1. Insert(work.acks, head + 1, e)[s] = work.acks[s]
        BY <3>3 DEF Insert
      <4> QED BY <2>1, <3>3, <4>1
    <3> QED BY <3>1, <3>2, <3>3
  <2> QED BY <2>2, <2>3 DEF Agrees
<1>7. WireAgrees'
  <2> SUFFICES ASSUME NEW d \in Clients, NEW m \in down[d], m.type \in {"Batch", "Ack"}
               PROVE  \A s \in DOMAIN m.entries : s <= head' /\ m.entries[s] = log'[s]
    BY <1>4 DEF WireAgrees, Agrees
  <2>1. IsSequenced(m.entries) /\ Agrees(m.entries)
    BY WireType DEF AgreeInv, WireAgrees
  <2> QED BY <1>5, <2>1
<1>8. HeldAgrees'
  <2> SUFFICES ASSUME NEW d \in Clients
               PROVE  \A s \in DOMAIN held[d] : s <= head' /\ held[d][s] = log'[s]
    BY <1>4 DEF HeldAgrees, Agrees
  <2>1. IsSequenced(held[d]) /\ Agrees(held[d])
    BY DEF AgreeInv, HeldAgrees, TypeOK, ClientTypeOK
  <2> QED BY <1>5, <2>1
<1>9. BaseIsLog'
  <2> SUFFICES ASSUME NEW d \in Clients
               PROVE  cursor[d] <= head' /\ base[d] = SubSeq(log', 1, cursor[d])
    BY <1>4 DEF BaseIsLog
  <2>1. cursor[d] \in Nat /\ cursor[d] <= head /\ base[d] = SubSeq(log, 1, cursor[d])
    BY DEF AgreeInv, BaseIsLog, TypeOK, ClientTypeOK
  <2>2. SubSeq(log', 1, cursor[d]) = SubSeq(log, 1, cursor[d])
    BY <1>1, <1>2, <1>3, <2>1 DEF head
  <2> QED BY <1>2, <1>3, <2>1, <2>2
<1> QED BY <1>6, <1>7, <1>8, <1>9 DEF AgreeInv

\* A slice of the log agrees with it.
LEMMA SliceAgrees ==
    ASSUME NEW a \in Nat, NEW l \in Nat, l <= head, TypeOK
    PROVE  Agrees(Slice(a, l))
BY LogType DEF Agrees, Slice

\* What a quiet step sends agrees with the log.
LEMMA QuietAgrees ==
    ASSUME TypeOK, AgreeInv, QuietStep
    PROVE  AgreeInv'
<1>1. Agrees(work.acks)'
  <2>1. CASE work' = work \/ work' = Idle
    BY <2>1 DEF QuietStep, AgreeInv, Agrees, head, Idle, Nothing
  <2>2. CASE work'.acks = work.acks
    BY <2>2 DEF QuietStep, AgreeInv, Agrees, head
  <2>3. ASSUME NEW s \in DOMAIN log, work'.acks = Insert(work.acks, s, log[s])
        PROVE  Agrees(work.acks)'
    BY <2>3, LogType DEF QuietStep, AgreeInv, Agrees, head, Insert
  <2>4. CASE work'.acks = Nothing
    BY <2>4 DEF Agrees, Nothing
  <2> QED BY <2>1, <2>2, <2>3, <2>4 DEF QuietStep, NewWork
<1>2. WireAgrees'
  <2> SUFFICES ASSUME NEW d \in Clients, NEW m \in down'[d], m.type \in {"Batch", "Ack"}
               PROVE  Agrees(m.entries)
    BY DEF QuietStep, WireAgrees, Agrees, head
  <2>1. CASE m \in down[d]
    BY <2>1 DEF AgreeInv, WireAgrees
  <2>2. CASE NewDown(d, m)
    <3>1. m # Denied
      BY DEF Denied
    <3>2. CASE m = Ack(work.acks)
      BY <3>2 DEF Ack, AgreeInv
    <3>3. ASSUME NEW a \in Nat, NEW l \in Nat, NEW more, l <= head,
                 m = Batch(Slice(a, l), more)
          PROVE  Agrees(m.entries)
      <4>1. m.entries = Slice(a, l)
        BY <3>3 DEF Batch
      <4> QED BY <3>3, <4>1, SliceAgrees
    <3> QED BY <2>2, <3>1, <3>2, <3>3 DEF NewDown
  <2> QED BY <2>1, <2>2 DEF QuietStep
<1>3. HeldAgrees' /\ BaseIsLog'
  BY DEF QuietStep, AgreeInv, HeldAgrees, BaseIsLog, Agrees, head
<1> QED BY <1>1, <1>2, <1>3 DEF AgreeInv

\* Every step keeps every copy of the log right.
LEMMA StepAgree == AgreeInv /\ TypeOK /\ [Next]_vars => AgreeInv'
<1> SUFFICES ASSUME AgreeInv, TypeOK, [Next]_vars PROVE AgreeInv'
  OBVIOUS
<1>1. CASE UNCHANGED vars
  BY <1>1 DEF vars, netVars, clientVars, serverVars, AgreeInv, Agrees, WireAgrees,
             HeldAgrees, BaseIsLog, head
<1>2. ASSUME NEW c \in Clients, Mutate(c), UNCHANGED serverVars
      PROVE  AgreeInv'
  BY <1>2 DEF Mutate, serverVars, AgreeInv, Agrees, WireAgrees, HeldAgrees,
             BaseIsLog, head
<1> QED BY <1>1, <1>2, StepKinds, MovesAgree, AppendAgrees, QuietAgrees

----------------------------------------------------------------------------
(* Confirmed entries apply                                                 *)

\* A client that fails on a confirmed entry fails for want of its verb: the
\* log accepted the entry after exactly what the client applied.
LEMMA MovesConfirm ==
    ASSUME NEW c \in Clients, TypeOK, LogInv, AgreeInv, ConfirmedApplies, ClientMoves(c)
    PROVE  ConfirmedApplies'
<1>1. PICK n \in Nat, dropped \in SUBSET pending[c] : \E h, gone, told :
        Moves(c, h, n, gone, told, dropped)
  BY DEF ClientMoves
<1>2. PICK h, gone, told : Moves(c, h, n, gone, told, dropped)
  BY <1>1
<1>3. Agrees(h)
  BY <1>2, FromWireAgrees DEF Moves
<1>4. \A d \in Clients :
         /\ held'[d] = IF d = c THEN h ELSE held[d]
         /\ cursor'[d] = IF d = c THEN n ELSE cursor[d]
  BY <1>2 DEF Moves, SettlesTo, TypeOK, ClientTypeOK
<1>5. ASSUME NEW d \in Clients, d # c, broken'[d]
      PROVE  \E s \in DOMAIN held'[d] : s > cursor'[d] /\ ~Knows(d, held'[d][s])
  <2>1. broken[d]
    BY <1>2, <1>5 DEF Moves, SettlesTo, TypeOK, ClientTypeOK
  <2>2. held'[d] = held[d] /\ cursor'[d] = cursor[d]
    BY <1>4, <1>5
  <2> QED BY <2>1, <2>2 DEF ConfirmedApplies
<1>6. ASSUME broken'[c]
      PROVE  \E s \in DOMAIN h : s > n /\ ~Knows(c, h[s])
  <2>1. broken' # [broken EXCEPT ![c] = FALSE]
    BY <1>6 DEF TypeOK, ClientTypeOK
  <2>2. CASE StuckAfter(c, h, n)
    <3>1. PICK end \in Nat, i \in Nat :
            /\ end >= cursor[c]
            /\ (cursor[c] + 1)..end \subseteq DOMAIN h
            /\ i > n /\ i <= end
            /\ RefusesAt(c, Before(Applied(c, h, end), i), Applied(c, h, end)[i])
      BY <2>2 DEF StuckAfter
    <3>2. end <= head /\ Applied(c, h, end) = SubSeq(log, 1, end)
      BY <1>3, <3>1, AppliedIsLog DEF AgreeInv
    <3>3. /\ cursor[c] \in Nat /\ n >= cursor[c]
          /\ head \in Nat /\ DOMAIN log = 1..head /\ log \in Seq(Entry)
      BY <1>2, LogType DEF Moves, SettlesTo, TypeOK, ClientTypeOK, ServerTypeOK
    <3>4. i \in 1..end /\ i \in DOMAIN log /\ i \in DOMAIN h
      BY <3>1, <3>2, <3>3
    <3>5. SubSeq(log, 1, end) = [j \in 1..end |-> log[j]]
      BY <3>2, <3>3 DEF head
    <3>6. Applied(c, h, end)[i] = log[i]
      BY <3>2, <3>4, <3>5
    <3>7. Before(Applied(c, h, end), i) = Before(log, i)
      BY <3>2, <3>4, <3>5 DEF Before
    <3>8. ~Rejects(Before(log, i), log[i])
      BY <3>4 DEF LogInv, LogValid
    <3>9. ~Knows(c, log[i])
      BY <3>1, <3>6, <3>7, <3>8 DEF RefusesAt
    <3>10. h[i] = log[i]
      BY <1>3, <3>4 DEF Agrees
    <3> QED BY <3>1, <3>4, <3>9, <3>10
  <2>3. CASE broken' = broken /\ n = cursor[c]
    <3>1. PICK s \in DOMAIN held[c] : s > cursor[c] /\ ~Knows(c, held[c][s])
      BY <1>6, <2>3 DEF ConfirmedApplies
    <3>2. s \in DOMAIN h
      BY <1>2 DEF Moves, FromWire
    <3>3. h[s] = held[c][s]
      BY <1>3, <3>2 DEF Agrees, AgreeInv, HeldAgrees
    <3> QED BY <2>3, <3>1, <3>2, <3>3
  <2> QED BY <1>2, <2>1, <2>2, <2>3 DEF Moves, SettlesTo
<1> QED BY <1>4, <1>5, <1>6 DEF ConfirmedApplies

\* Every step keeps it that only an old app fails on a confirmed entry.
LEMMA StepConfirmed ==
    ConfirmedApplies /\ TypeOK /\ LogInv /\ AgreeInv /\ [Next]_vars => ConfirmedApplies'
<1> SUFFICES ASSUME ConfirmedApplies, TypeOK, LogInv, AgreeInv, [Next]_vars
             PROVE  ConfirmedApplies'
  OBVIOUS
<1>1. CASE UNCHANGED <<held, cursor, broken>>
  BY <1>1 DEF ConfirmedApplies
<1>2. ASSUME NEW c \in Clients, Mutate(c)
      PROVE  ConfirmedApplies'
  BY <1>2 DEF Mutate, ConfirmedApplies, TypeOK, ClientTypeOK
<1> QED BY <1>1, <1>2, StepKinds, MovesConfirm
        DEF vars, clientVars, QuietStep

----------------------------------------------------------------------------
(* Entries and their authors                                               *)

AuthorInv == OwnAuthored /\ LogAuthored

\* Nobody has made anything yet.
LEMMA InitAuthor == Init => AuthorInv
BY DEF Init, NetInit, ClientInit, ServerInit, AuthorInv, OwnAuthored, LogAuthored,
       Working, Idle

\* A move brings no entry to a client that it has not made.
LEMMA MovesAuthor ==
    ASSUME NEW c \in Clients, TypeOK, AuthorInv, ClientMoves(c), UNCHANGED <<log, work>>
    PROVE  AuthorInv'
<1>1. PICK n \in Nat, dropped \in SUBSET pending[c] : \E h, gone, told :
        Moves(c, h, n, gone, told, dropped)
  BY DEF ClientMoves
<1>2. PICK h, gone, told : Moves(c, h, n, gone, told, dropped)
  BY <1>1
<1>3. \A d \in Clients :
         /\ pending'[d] \subseteq pending[d]
         /\ refused'[d] \subseteq refused[d] \cup (IF d = c THEN dropped \cup told ELSE {})
  BY <1>2 DEF Moves, SettlesTo, TypeOK, ClientTypeOK
<1>4. told \subseteq authored[c]
  BY <1>2 DEF Moves, ToldOnWire, AuthorInv, OwnAuthored
<1>5. \A d \in Clients : pending'[d] \cup refused'[d] \subseteq authored[d]
  BY <1>3, <1>4 DEF AuthorInv, OwnAuthored
<1>6. authored' = authored
  BY <1>2 DEF Moves
<1>7. ASSUME NEW d \in Clients
      PROVE  /\ \A m \in up'[d] : m.type = "Push" => m.entries \subseteq authored[d]
             /\ \A m \in down'[d] : m.type = "Reject" => m.id \in authored[d]
             /\ Working(d) => work.todo \subseteq authored[d]
  BY <1>2 DEF Moves, AuthorInv, OwnAuthored
<1>8. OwnAuthored'
  BY <1>5, <1>6, <1>7 DEF OwnAuthored, Working
<1> QED BY <1>6, <1>8 DEF AuthorInv, LogAuthored

\* What a mutate offers, its client has made.
LEMMA MutateAuthor ==
    ASSUME NEW c \in Clients, TypeOK, AuthorInv, Mutate(c), UNCHANGED serverVars
    PROVE  AuthorInv'
<1>1. PICK kept \in SUBSET pending[c], e \in Entry :
        /\ e.by = c
        /\ refused' = [refused EXCEPT ![c] = @ \cup (pending[c] \ kept)]
        /\ \/ /\ authored' = [authored EXCEPT ![c] = @ \cup {e}]
              /\ pending' = [pending EXCEPT ![c] = kept \cup {e}]
              /\ e \notin authored[c]
              /\ \/ up' = [up EXCEPT ![c] = @ \cup {Push({e})}]
                 \/ up' = up
           \/ /\ pending' = [pending EXCEPT ![c] = kept]
              /\ UNCHANGED <<authored, up>>
  BY MutateDoes
<1>2. UNCHANGED <<down, log, work>>
  BY DEF Mutate, serverVars
<1>3. \A d \in Clients : refused'[d] \subseteq refused[d] \cup pending[d]
  BY <1>1 DEF TypeOK, ClientTypeOK
<1>4. CASE UNCHANGED <<authored, up>> /\ pending' = [pending EXCEPT ![c] = kept]
  <2>1. \A d \in Clients : pending'[d] \subseteq pending[d]
    BY <1>4 DEF TypeOK, ClientTypeOK
  <2> QED BY <1>2, <1>3, <1>4, <2>1 DEF AuthorInv, OwnAuthored, LogAuthored, Working
<1>5. CASE /\ authored' = [authored EXCEPT ![c] = @ \cup {e}]
           /\ pending' = [pending EXCEPT ![c] = kept \cup {e}]
           /\ \/ up' = [up EXCEPT ![c] = @ \cup {Push({e})}]
              \/ up' = up
  <2>1. \A d \in Clients :
           /\ authored[d] \subseteq authored'[d]
           /\ d = c => e \in authored'[d]
           /\ pending'[d] \subseteq pending[d] \cup (IF d = c THEN {e} ELSE {})
    BY <1>5 DEF TypeOK, ClientTypeOK
  <2>2. \A d \in Clients : pending'[d] \cup refused'[d] \subseteq authored'[d]
    BY <1>3, <2>1 DEF AuthorInv, OwnAuthored
  <2>3. ASSUME NEW d \in Clients, NEW m \in up'[d], m.type = "Push"
        PROVE  m.entries \subseteq authored'[d]
    <3>1. m \in up[d] \/ (d = c /\ m = Push({e}))
      BY <1>5, <2>3, WireIsFun
    <3>2. Push({e}).entries = {e}
      BY DEF Push
    <3> QED BY <2>1, <2>3, <3>1, <3>2 DEF AuthorInv, OwnAuthored
  <2>4. OwnAuthored'
    BY <1>2, <2>1, <2>2, <2>3 DEF AuthorInv, OwnAuthored, Working
  <2>5. LogAuthored'
    BY <1>2, <2>1 DEF AuthorInv, LogAuthored
  <2> QED BY <2>4, <2>5 DEF AuthorInv
<1> QED BY <1>1, <1>4, <1>5

\* What is appended, somebody has made.
LEMMA AppendAuthor ==
    ASSUME NEW c \in Clients, TypeOK, AuthorInv, Append1(c), UNCHANGED clientVars
    PROVE  AuthorInv'
<1>1. PICK e \in work.todo :
        /\ DOMAIN log' = 1..(head + 1)
        /\ log'[head + 1] = e
        /\ \A i \in 1..head : log'[i] = log[i]
        /\ work' = [from |-> work.from, todo |-> work.todo \ {e},
                    acks |-> Insert(work.acks, head + 1, e)]
  BY AppendLog
<1>2. UNCHANGED <<up, down, pending, refused, authored>> /\ Working(c)
  BY DEF Append1, clientVars
<1>3. OwnAuthored'
  BY <1>1, <1>2 DEF AuthorInv, OwnAuthored, Working
<1>4. e \in authored[c]
  BY <1>2 DEF AuthorInv, OwnAuthored
<1>5. head \in Nat /\ DOMAIN log = 1..head
  BY LogType
<1>6. ASSUME NEW i \in DOMAIN log'
      PROVE  \E d \in Clients : log'[i] \in authored[d]
  <2>1. i = head + 1 \/ i \in 1..head
    BY <1>1, <1>5
  <2> QED BY <1>1, <1>4, <1>5, <2>1 DEF AuthorInv, LogAuthored
<1>7. LogAuthored'
  BY <1>2, <1>6 DEF LogAuthored
<1> QED BY <1>3, <1>7 DEF AuthorInv

\* A quiet step sends about a client's entries only what it made.
LEMMA QuietAuthor ==
    ASSUME TypeOK, AuthorInv, QuietStep
    PROVE  AuthorInv'
<1>1. UNCHANGED <<log, pending, refused, authored>>
  BY DEF QuietStep
<1>2. ASSUME NEW d \in Clients, NEW m \in up'[d], m.type = "Push"
      PROVE  m.entries \subseteq authored[d]
  <2>1. m \in up[d] \/ m = Push(pending[d])
    BY <1>2 DEF QuietStep, NewUp
  <2> QED BY <1>2, <2>1 DEF Push, AuthorInv, OwnAuthored
<1>3. ASSUME NEW d \in Clients, NEW m \in down'[d], m.type = "Reject"
      PROVE  m.id \in authored[d]
  <2>1. m \in down[d] \/ NewDown(d, m)
    BY DEF QuietStep
  <2>2. NewDown(d, m) => Working(d) /\ m.id \in work.todo
    BY <1>3 DEF NewDown, Denied, Ack, Batch
  <2> QED BY <1>3, <2>1, <2>2 DEF AuthorInv, OwnAuthored
<1>4. ASSUME NEW d \in Clients, Working(d)'
      PROVE  work'.todo \subseteq authored[d]
  <2>1. CASE work' = work
    BY <1>4, <2>1 DEF Working, AuthorInv, OwnAuthored
  <2>2. CASE work' = Idle
    BY <2>2 DEF Idle
  <2>3. CASE work'.from = work.from /\ work'.todo \subseteq work.todo
    BY <1>4, <2>3 DEF Working, AuthorInv, OwnAuthored
  <2>4. ASSUME NEW c \in Clients, NEW m \in up[c], m.type = "Push",
               work' = [from |-> {c}, todo |-> m.entries, acks |-> Nothing]
        PROVE  work'.todo \subseteq authored[d]
    <3>1. d = c
      BY <1>4, <2>4 DEF Working
    <3> QED BY <2>4, <3>1 DEF AuthorInv, OwnAuthored
  <2> QED BY <2>1, <2>2, <2>3, <2>4 DEF QuietStep, NewWork
<1> QED BY <1>1, <1>2, <1>3, <1>4 DEF AuthorInv, OwnAuthored, LogAuthored

\* Every step keeps entries with their authors.
LEMMA StepAuthor == AuthorInv /\ TypeOK /\ [Next]_vars => AuthorInv'
<1> SUFFICES ASSUME AuthorInv, TypeOK, [Next]_vars PROVE AuthorInv'
  OBVIOUS
<1>1. CASE UNCHANGED vars
  BY <1>1 DEF vars, netVars, clientVars, serverVars, AuthorInv, OwnAuthored,
             LogAuthored, Working
<1> QED BY <1>1, StepKinds, MovesAuthor, MutateAuthor, AppendAuthor, QuietAuthor

----------------------------------------------------------------------------
(* Nothing is lost                                                         *)

\* Entries that agree with the log are in it.
LEMMA AgreesInLog ==
    ASSUME NEW f, TypeOK, IsSequenced(f), Agrees(f)
    PROVE  Range(f) \subseteq Range(log)
<1>1. DOMAIN log = 1..head /\ head \in Nat
  BY LogType
<1>2. \A s \in DOMAIN f : s \in DOMAIN log /\ f[s] = log[s]
  BY <1>1 DEF IsSequenced, Agrees
<1> QED BY <1>2 DEF Range

\* A move gives up a pending entry only to the log or to a refusal.
LEMMA MovesLose ==
    ASSUME NEW c \in Clients, TypeOK, AgreeInv, NothingLost, ClientMoves(c), UNCHANGED log
    PROVE  NothingLost'
<1>1. PICK n \in Nat, dropped \in SUBSET pending[c] : \E h, gone, told :
        Moves(c, h, n, gone, told, dropped)
  BY DEF ClientMoves
<1>2. PICK h, gone, told : Moves(c, h, n, gone, told, dropped)
  BY <1>1
<1>3. \A d \in Clients :
         /\ pending[d] \subseteq pending'[d] \cup (IF d = c THEN gone \cup dropped ELSE {})
         /\ refused[d] \cup (IF d = c THEN dropped \cup told ELSE {}) \subseteq refused'[d]
  BY <1>2 DEF Moves, SettlesTo, TypeOK, ClientTypeOK
<1>4. gone \subseteq told \cup Range(log)
  <2>1. Range(held[c]) \subseteq Range(log)
    BY AgreesInLog DEF AgreeInv, HeldAgrees, TypeOK, ClientTypeOK
  <2>2. ASSUME NEW m \in down[c], m.type \in {"Batch", "Ack"}
        PROVE  Range(m.entries) \subseteq Range(log)
    BY <2>2, WireType, AgreesInLog DEF AgreeInv, WireAgrees
  <2> QED BY <1>2, <2>1, <2>2 DEF Moves, GoneFor
<1>5. authored' = authored
  BY <1>2 DEF Moves
<1> QED BY <1>3, <1>4, <1>5 DEF NothingLost

\* A mutate keeps what it makes, and refuses what it drops.
LEMMA MutateLose ==
    ASSUME NEW c \in Clients, TypeOK, NothingLost, Mutate(c), UNCHANGED log
    PROVE  NothingLost'
<1>1. PICK kept \in SUBSET pending[c], e \in Entry :
        /\ e.by = c
        /\ refused' = [refused EXCEPT ![c] = @ \cup (pending[c] \ kept)]
        /\ \/ /\ authored' = [authored EXCEPT ![c] = @ \cup {e}]
              /\ pending' = [pending EXCEPT ![c] = kept \cup {e}]
              /\ e \notin authored[c]
              /\ \/ up' = [up EXCEPT ![c] = @ \cup {Push({e})}]
                 \/ up' = up
           \/ /\ pending' = [pending EXCEPT ![c] = kept]
              /\ UNCHANGED <<authored, up>>
  BY MutateDoes
<1>2. \A d \in Clients : authored'[d] \subseteq authored[d] \cup pending'[d]
  <2>1. CASE /\ authored' = [authored EXCEPT ![c] = @ \cup {e}]
             /\ pending' = [pending EXCEPT ![c] = kept \cup {e}]
    BY <2>1 DEF TypeOK, ClientTypeOK
  <2>2. CASE UNCHANGED authored
    BY <2>2
  <2> QED BY <1>1, <2>1, <2>2
<1>3. \A d \in Clients :
         pending[d] \cup refused[d] \subseteq pending'[d] \cup refused'[d]
  BY <1>1 DEF TypeOK, ClientTypeOK
<1> QED BY <1>2, <1>3 DEF NothingLost

\* An append takes nothing out of the log.
LEMMA AppendLose ==
    ASSUME NEW c \in Clients, TypeOK, NothingLost, Append1(c), UNCHANGED clientVars
    PROVE  NothingLost'
<1>1. PICK e \in work.todo :
        /\ log' = Append(log, e)
        /\ DOMAIN log' = 1..(head + 1)
        /\ log'[head + 1] = e
        /\ \A i \in 1..head : log'[i] = log[i]
        /\ ~Logged(e) /\ ~Rejects(log, e)
        /\ work' = [from |-> work.from, todo |-> work.todo \ {e},
                    acks |-> Insert(work.acks, head + 1, e)]
  BY AppendLog
<1>2. DOMAIN log = 1..head /\ head \in Nat
  BY LogType
<1>3. \A i \in DOMAIN log : i \in DOMAIN log' /\ log'[i] = log[i]
  BY <1>1, <1>2
<1>4. Range(log) \subseteq Range(log')
  BY <1>3 DEF Range
<1> QED BY <1>4 DEF NothingLost, clientVars

\* No step loses an entry.
LEMMA StepLose == NothingLost /\ TypeOK /\ AgreeInv /\ [Next]_vars => NothingLost'
<1> SUFFICES ASSUME NothingLost, TypeOK, AgreeInv, [Next]_vars PROVE NothingLost'
  OBVIOUS
<1>1. CASE UNCHANGED <<authored, pending, refused, log>>
  BY <1>1 DEF NothingLost
<1> QED BY <1>1, StepKinds, MovesLose, MutateLose, AppendLose
        DEF vars, clientVars, serverVars, QuietStep

----------------------------------------------------------------------------
(* The theorems                                                            *)

\* To begin with nothing is lost and nothing is broken.
LEMMA InitRest == Init => ConfirmedApplies /\ NothingLost
BY DEF Init, ClientInit, ConfirmedApplies, NothingLost

\* The inductive invariant holds in every reachable state: what the files,
\* the wire and the server say of the log is what the log says.
THEOREM Invariant == Spec => []IInv
<1> DEFINE Whole ==
        /\ TypeOK /\ Identified /\ LogInv /\ AgreeInv /\ AuthorInv
        /\ ConfirmedApplies /\ NothingLost
<1>1. Init => Whole
  BY InitType, InitIdentified, InitLog, InitAgree, InitAuthor, InitRest
<1>2. Whole /\ [Next]_vars => Whole'
  BY StepType, StepIdentified, StepLog, StepAgree, StepAuthor, StepConfirmed, StepLose
<1>3. Whole => IInv
  BY DEF IInv, LogInv, AgreeInv, AuthorInv
<1> QED BY <1>1, <1>2, <1>3, PTL DEF Spec

----------------------------------------------------------------------------
(***************************************************************************)
(* PART 3: what the invariant gives                                        *)
(*                                                                         *)
(* The properties TLC checks on small instances; the refinement, where     *)
(* every step of PetrosSync is a step of IntentLog or leaves what          *)
(* IntentLog speaks of alone; that the view counts no entry twice; and     *)
(* that a refusal is a verdict.                                            *)
(***************************************************************************)

\* However often an entry is pushed again, the log has it at one place.
THEOREM OnceInTheLog == Spec => []LoggedOnce
BY Invariant, PTL DEF IInv

\* Every sequence number a client holds is the server's.
THEOREM NeverDisagree == Spec => []HeldAgrees
BY Invariant, PTL DEF IInv

\* A client's tables are the log applied up to its cursor, whatever was
\* lost, repeated or overtaken and wherever the client crashed.
THEOREM TablesAreThePrefix == Spec => []BaseIsLog
BY Invariant, PTL DEF IInv

\* A client fails on a confirmed entry only where its app is too old to have
\* the entry's verb.
THEOREM OnlyOldAppsStick == Spec => []ConfirmedApplies
BY Invariant, PTL DEF IInv

\* What a client has authored is pending, in the log, or refused.
THEOREM NoMutationDisappears == Spec => []NothingLost
BY Invariant, PTL DEF IInv

\* The log has only what somebody its author could prove to be may push: a
\* Push is handled on no connection but one whose Hello has proved who it is.
THEOREM OnlyPermittedLogged == Spec => []LogPermitted
BY Invariant, PTL DEF IInv

----------------------------------------------------------------------------
(* The refinement, one lemma for each kind of step                         *)

\* The initial state is an initial state of IntentLog.
LEMMA InitRefines == Init => Promise!AbsInit
BY DEF Init, ClientInit, ServerInit, Promise!AbsInit

\* What a client has applied is as long as its cursor says.
LEMMA BaseLength ==
    ASSUME TypeOK, NEW c \in Clients
    PROVE  Len(base[c]) = cursor[c] /\ cursor[c] \in Nat
<1>1. cursor[c] \in Nat /\ base[c] \in [1..cursor[c] -> Entry]
  BY DEF TypeOK, ClientTypeOK
<1> QED BY <1>1

\* A client that receives, opens or crashes hears of the order.
LEMMA MovesHear ==
    ASSUME NEW c \in Clients, TypeOK, AgreeInv, AuthorInv,
           TypeOK', AgreeInv', ClientMoves(c), UNCHANGED <<log, work>>
    PROVE  Promise!Hear(c)
<1>1. PICK n \in Nat, dropped \in SUBSET pending[c] :
        \E h, gone, told : Moves(c, h, n, gone, told, dropped)
  BY DEF ClientMoves
<1>2. PICK h, gone, told : Moves(c, h, n, gone, told, dropped)
  BY <1>1
<1>3. /\ cursor' = [cursor EXCEPT ![c] = n]
      /\ base' = [base EXCEPT ![c] = Applied(c, h, n)]
      /\ pending' = [pending EXCEPT ![c] = (pending[c] \ gone) \ dropped]
      /\ refused' = [refused EXCEPT ![c] = @ \cup dropped \cup told]
      /\ authored' = authored
      /\ n >= cursor[c]
  BY <1>2 DEF Moves, SettlesTo
<1>4. /\ n \in Len(base[c])..Len(log)
      /\ base' = [base EXCEPT ![c] = SubSeq(log, 1, n)]
  <2>1. cursor'[c] = n /\ base'[c] = Applied(c, h, n)
    BY <1>3 DEF TypeOK, ClientTypeOK
  <2>2. cursor'[c] <= head /\ base'[c] = SubSeq(log, 1, cursor'[c])
    BY DEF AgreeInv, BaseIsLog, head
  <2>3. head \in Nat /\ Len(log) = head
    BY LogType DEF head
  <2> QED BY <1>3, <2>1, <2>2, <2>3, BaseLength
<1>5. dropped \cup told \subseteq authored[c]
  BY <1>2 DEF Moves, ToldOnWire, AuthorInv, OwnAuthored
<1>6. refused' = [refused EXCEPT ![c] = @ \cup (dropped \cup told)]
  <2>1. refused[c] \cup dropped \cup told = refused[c] \cup (dropped \cup told)
    OBVIOUS
  <2> QED BY <1>3, <2>1
<1>7. gone \subseteq told \cup Range(log)
  <2>1. Range(held[c]) \subseteq Range(log)
    BY AgreesInLog DEF AgreeInv, HeldAgrees, TypeOK, ClientTypeOK
  <2>2. ASSUME NEW m \in down[c], m.type \in {"Batch", "Ack"}
        PROVE  Range(m.entries) \subseteq Range(log)
    BY <2>2, WireType, AgreesInLog DEF AgreeInv, WireAgrees
  <2> QED BY <1>2, <2>1, <2>2 DEF Moves, GoneFor
<1> DEFINE leaving == (gone \cap pending[c]) \cup dropped
<1>8. leaving \in SUBSET pending[c]
  OBVIOUS
<1>9. leaving \subseteq Range(log) \cup refused'[c]
  <2>1. refused'[c] = refused[c] \cup (dropped \cup told)
    BY <1>6 DEF TypeOK, ClientTypeOK
  <2> QED BY <1>7, <2>1
<1>10. pending' = [pending EXCEPT ![c] = @ \ leaving]
  <2>1. (pending[c] \ gone) \ dropped = pending[c] \ leaving
    OBVIOUS
  <2> QED BY <1>3, <2>1
<1> HIDE DEF leaving
<1>11. Promise!Range(log) = Range(log)
  BY DEF Promise!Range, Range
<1> QED BY <1>3, <1>4, <1>5, <1>6, <1>8, <1>9, <1>10, <1>11 DEF Promise!Hear

\* A mutate makes an intent; one the app refuses only tells of those that no
\* longer hold.
LEMMA MutateMakes ==
    ASSUME NEW c \in Clients, TypeOK, AgreeInv, AuthorInv,
           Mutate(c), UNCHANGED serverVars
    PROVE  Promise!Make(c) \/ Promise!Hear(c)
<1>1. PICK kept \in SUBSET pending[c], e \in Entry :
        /\ e.by = c
        /\ refused' = [refused EXCEPT ![c] = @ \cup (pending[c] \ kept)]
        /\ \/ /\ authored' = [authored EXCEPT ![c] = @ \cup {e}]
              /\ pending' = [pending EXCEPT ![c] = kept \cup {e}]
              /\ e \notin authored[c]
              /\ \/ up' = [up EXCEPT ![c] = @ \cup {Push({e})}]
                 \/ up' = up
           \/ /\ pending' = [pending EXCEPT ![c] = kept]
              /\ UNCHANGED <<authored, up>>
  BY MutateDoes
<1>2. UNCHANGED <<log, base>>
  BY DEF Mutate, serverVars
<1> DEFINE told == pending[c] \ kept
<1>3. /\ told \in SUBSET pending[c]
      /\ told \in SUBSET authored[c]
      /\ pending[c] \ told = kept
  BY DEF AuthorInv, OwnAuthored
<1>4. refused' = [refused EXCEPT ![c] = @ \cup told]
  BY <1>1
<1> HIDE DEF told
<1>5. CASE /\ authored' = [authored EXCEPT ![c] = @ \cup {e}]
           /\ pending' = [pending EXCEPT ![c] = kept \cup {e}]
           /\ e \notin authored[c]
  <2>1. e \in authored'[c] \ authored[c]
    BY <1>5 DEF TypeOK, ClientTypeOK
  <2>2. pending' = [pending EXCEPT ![c] = (@ \ told) \cup {e}]
    BY <1>3, <1>5
  <2> QED BY <1>2, <1>3, <1>4, <1>5, <2>1, <2>2 DEF Promise!Make
<1>6. CASE pending' = [pending EXCEPT ![c] = kept] /\ UNCHANGED authored
  <2>1. pending' = [pending EXCEPT ![c] = @ \ told]
    BY <1>3, <1>6
  <2>2. /\ Len(base[c]) \in Len(base[c])..Len(log)
        /\ base' = [base EXCEPT ![c] = SubSeq(log, 1, Len(base[c]))]
    <3>1. base = [base EXCEPT ![c] = base[c]]
      BY DEF TypeOK, ClientTypeOK
    <3>2. cursor[c] <= head /\ base[c] = SubSeq(log, 1, cursor[c])
      BY DEF AgreeInv, BaseIsLog
    <3>3. head \in Nat /\ Len(log) = head
      BY LogType DEF head
    <3> QED BY <1>2, <3>1, <3>2, <3>3, BaseLength
  <2>3. told \subseteq refused'[c]
    BY <1>4 DEF TypeOK, ClientTypeOK
  <2> QED BY <1>2, <1>3, <1>4, <1>6, <2>1, <2>2, <2>3 DEF Promise!Hear
<1> QED BY <1>1, <1>5, <1>6

\* An append enters an intent its author has made.
LEMMA AppendEnters ==
    ASSUME NEW c \in Clients, TypeOK, AuthorInv, Append1(c), UNCHANGED clientVars
    PROVE  Promise!Enter
<1>1. PICK e \in work.todo : log' = Append(log, e) /\ ~Logged(e) /\ ~Rejects(log, e)
  BY AppendLog
<1>2. e \in authored[c]
  BY <1>1 DEF Append1, AuthorInv, OwnAuthored
<1> QED BY <1>1, <1>2 DEF Promise!Enter, Promise!Range, Range, Logged, clientVars

\* Every step is a step of IntentLog or leaves what it speaks of alone.
LEMMA StepRefines ==
    ASSUME TypeOK, AgreeInv, AuthorInv, TypeOK', AgreeInv', [Next]_vars
    PROVE  [Promise!AbsNext]_(Promise!absVars)
<1>1. CASE UNCHANGED <<log, base, pending, refused, authored>>
  BY <1>1 DEF Promise!absVars
<1>2. CASE UNCHANGED vars \/ QuietStep
  BY <1>1, <1>2 DEF vars, clientVars, serverVars, QuietStep
<1> QED BY <1>2, StepKinds, MovesHear, MutateMakes, AppendEnters DEF Promise!AbsNext

\* The sync engine implements IntentLog: one order of intents, every replica
\* a beginning of it, nothing waiting given up without an answer.
THEOREM Refinement == Spec => KeepsPromise
<1>1. IInv => TypeOK /\ AgreeInv /\ AuthorInv
  BY DEF IInv, AgreeInv, AuthorInv
<1>2. IInv /\ IInv' /\ [Next]_vars => [Promise!AbsNext]_(Promise!absVars)
  BY <1>1, StepRefines DEF IInv, AgreeInv
<1> QED BY InitRefines, <1>2, Invariant, PTL DEF Spec, KeepsPromise, Promise!AbsSpec
----------------------------------------------------------------------------
(* The view counts an entry once                                           *)

\* What is put into a table is in it or was put.
LEMMA PutRange ==
    ASSUME NEW f, NEW g
    PROVE  Range(Put(f, g)) \subseteq Range(f) \cup Range(g)
BY DEF Put, Range

\* A client's own log names nothing its author has not made.
LEMMA HeldAuthored ==
    ASSUME TypeOK, AgreeInv, AuthorInv, NEW c \in Clients,
           NEW e \in Range(held[c]), e.by = c
    PROVE  e \in authored[c]
<1>1. e \in Range(log)
  BY AgreesInLog DEF AgreeInv, HeldAgrees, TypeOK, ClientTypeOK
<1>2. PICK d \in Clients : e \in authored[d]
  BY <1>1 DEF Range, AuthorInv, LogAuthored
<1> QED BY <1>2 DEF TypeOK, ClientTypeOK, OwnEntries

\* A recv leaves nothing pending that it made the client hold.
LEMMA FinishUnconfirmed ==
    ASSUME NEW c \in Clients, NEW h, NEW gone, NEW told, TypeOK, IsSequenced(h),
           pending[c] \cap Range(held[c]) = {},
           Range(h) \subseteq Range(held[c]) \cup gone,
           Finish(c, h, pending[c] \ gone, told)
    PROVE  pending'[c] \cap Range(held'[c]) = {}
<1>1. PICK n \in Nat, dropped \in SUBSET (pending[c] \ gone) :
        SettlesTo(c, h, n, pending[c] \ gone, told, dropped)
  BY FinishDoes DEF Finish
<1>2. pending'[c] \subseteq pending[c] \ gone
  BY <1>1 DEF SettlesTo, TypeOK, ClientTypeOK
<1>3. held'[c] = h
  BY DEF Finish, TypeOK, ClientTypeOK
<1> QED BY <1>2, <1>3

\* Whichever message it receives.
LEMMA RecvUnconfirmed ==
    ASSUME NEW c \in Clients, TypeOK, pending[c] \cap Range(held[c]) = {},
           RecvBatch(c) \/ RecvAck(c) \/ RecvReject(c) \/ RecvDenied(c)
    PROVE  pending'[c] \cap Range(held'[c]) = {}
<1>1. CASE RecvBatch(c)
  <2>1. PICK m \in down[c] :
        /\ m.type = "Batch"
        /\ Finish(c, Put(held[c], m.entries), pending[c] \ Range(m.entries), {})
    BY <1>1 DEF RecvBatch
  <2>2. IsSequenced(Put(held[c], m.entries))
    BY <2>1, WholeFromWire DEF FromWire
  <2> QED BY <2>1, <2>2, PutRange, FinishUnconfirmed
<1>2. CASE RecvAck(c)
  <2>1. PICK m \in down[c] :
        /\ m.type = "Ack"
        /\ Finish(c, Put(held[c], Promoted(c, m)), pending[c] \ Range(m.entries), {})
    BY <1>2 DEF RecvAck
  <2>2. IsSequenced(Put(held[c], Promoted(c, m)))
    BY <2>1, PromotedFromWire DEF FromWire
  <2>3. Range(Promoted(c, m)) \subseteq Range(m.entries)
    BY DEF Promoted, Restrict, Range
  <2>4. Range(Put(held[c], Promoted(c, m))) \subseteq Range(held[c]) \cup Range(m.entries)
    BY <2>3, PutRange
  <2> QED BY <2>1, <2>2, <2>4, FinishUnconfirmed
<1>3. CASE RecvReject(c) \/ RecvDenied(c)
  <2>1. PICK gone, told : Finish(c, held[c], pending[c] \ gone, told)
    <3>1. CASE RecvReject(c)
      BY <3>1 DEF RecvReject
    <3>2. CASE RecvDenied(c)
      <4>1. pending[c] \ {} = pending[c]
        OBVIOUS
      <4>2. Finish(c, held[c], pending[c], {})
        BY <3>2 DEF RecvDenied
      <4> QED BY <4>1, <4>2
    <3> QED BY <1>3, <3>1, <3>2
  <2>2. IsSequenced(held[c])
    BY DEF TypeOK, ClientTypeOK
  <2> QED BY <2>1, <2>2, FinishUnconfirmed
<1> QED BY <1>1, <1>2, <1>3

\* Opening forgets what the log already has, or fails.
LEMMA OpenUnconfirmed ==
    ASSUME NEW c \in Clients, TypeOK, Open(c), run'[c]
    PROVE  pending'[c] \cap Range(held'[c]) = {}
<1>1. held' = held /\ Settle(c, held[c], pending[c] \ Range(held[c]), {})
  BY DEF Open
<1>2. PICK kept \in SUBSET (pending[c] \ Range(held[c])) :
        pending' = [pending EXCEPT ![c] = kept]
  BY <1>1 DEF Settle
<1> QED BY <1>1, <1>2 DEF TypeOK, ClientTypeOK

\* A new entry is in nobody's log.
LEMMA MutateUnconfirmed ==
    ASSUME NEW c \in Clients, TypeOK, AgreeInv, AuthorInv, Mutate(c),
           pending[c] \cap Range(held[c]) = {}
    PROVE  pending'[c] \cap Range(held'[c]) = {}
<1>1. PICK kept \in SUBSET pending[c], e \in Entry :
        /\ e.by = c
        /\ \/ /\ pending' = [pending EXCEPT ![c] = kept \cup {e}]
              /\ e \notin authored[c]
           \/ pending' = [pending EXCEPT ![c] = kept]
  BY MutateDoes
<1>2. held' = held
  BY DEF Mutate
<1>3. e \notin authored[c] => e \notin Range(held[c])
  BY <1>1, HeldAuthored
<1>4. c \in DOMAIN pending
  BY DEF TypeOK, ClientTypeOK
<1>5. CASE pending' = [pending EXCEPT ![c] = kept \cup {e}] /\ e \notin authored[c]
  <2>1. pending'[c] = kept \cup {e}
    BY <1>4, <1>5
  <2> QED BY <1>2, <1>3, <1>5, <2>1
<1>6. CASE pending' = [pending EXCEPT ![c] = kept]
  <2>1. pending'[c] = kept
    BY <1>4, <1>6
  <2> QED BY <1>2, <2>1
<1> QED BY <1>1, <1>5, <1>6

\* One client's step leaves the files of the others alone.
LEMMA OthersFiles ==
    ASSUME NEW c \in Clients, NEW d \in Clients, c # d, TypeOK,
           ClientNext(c) \/ CrashClient(c)
    PROVE  run'[d] = run[d] /\ pending'[d] = pending[d] /\ held'[d] = held[d]
<1>1. CASE ClientMoves(c)
  <2>a. PICK n \in Nat : \E dropped \in SUBSET pending[c] : \E h, gone, told :
           Moves(c, h, n, gone, told, dropped)
    BY <1>1 DEF ClientMoves
  <2>b. PICK dropped \in SUBSET pending[c] : \E h, gone, told :
           Moves(c, h, n, gone, told, dropped)
    BY <2>a
  <2>c. PICK h, gone, told : Moves(c, h, n, gone, told, dropped)
    BY <2>b
  <2>1. /\ held' = [held EXCEPT ![c] = h]
        /\ pending' = [pending EXCEPT ![c] = (pending[c] \ gone) \ dropped]
    BY <2>c DEF Moves, SettlesTo
  <2>2. PICK r : run' = [run EXCEPT ![c] = r] \/ run' = run
    BY DEF ClientNext, Mutate, Connected, RecvBatch, RecvAck, RecvReject, RecvDenied,
           Open, CrashClient, Crash, Stop
  <2> QED BY <2>1, <2>2 DEF TypeOK, ClientTypeOK
<1>2. CASE Mutate(c)
  <2>1. PICK p : pending' = [pending EXCEPT ![c] = p]
    BY <1>2, MutateDoes
  <2> QED BY <1>2, <2>1 DEF Mutate, TypeOK, ClientTypeOK
<1>3. CASE Connected(c)
  BY <1>3 DEF Connected
<1> QED BY <1>1, <1>2, <1>3, RecvMoves, OpenMoves, CrashMoves DEF ClientNext, CrashClient

\* Every step.
LEMMA StepUnconfirmed ==
    ASSUME TypeOK, AgreeInv, AuthorInv, PendingUnconfirmed, [Next]_vars
    PROVE  PendingUnconfirmed'
<1> SUFFICES ASSUME NEW d \in Clients, run'[d]
             PROVE  pending'[d] \cap Range(held'[d]) = {}
  BY DEF PendingUnconfirmed
<1>1. run[d] => pending[d] \cap Range(held[d]) = {}
  BY DEF PendingUnconfirmed
<1>2. CASE UNCHANGED <<run, pending, held>>
  BY <1>1, <1>2
<1>3. ASSUME NEW c \in Clients, ClientNext(c) \/ CrashClient(c), c # d
      PROVE  pending'[d] \cap Range(held'[d]) = {}
  BY <1>1, <1>3, OthersFiles
<1>4. CASE ClientNext(d)
  <2>1. CASE Mutate(d)
    BY <1>1, <2>1, MutateUnconfirmed DEF Mutate
  <2>2. CASE Connected(d)
    BY <1>1, <2>2 DEF Connected
  <2>3. CASE RecvBatch(d) \/ RecvAck(d) \/ RecvReject(d) \/ RecvDenied(d)
    <3>1. run[d]
      BY <2>3 DEF RecvBatch, RecvAck, RecvReject, RecvDenied
    <3> QED BY <1>1, <2>3, <3>1, RecvUnconfirmed
  <2> QED BY <1>4, <2>1, <2>2, <2>3, OpenUnconfirmed DEF ClientNext
<1>5. CASE CrashClient(d)
  BY <1>5 DEF CrashClient, Crash, Stop, TypeOK, ClientTypeOK
<1>6. ASSUME NEW c \in Clients,
             \/ ServerNext(c) /\ UNCHANGED clientVars
             \/ Lose(c) /\ UNCHANGED <<clientVars, serverVars>>
             \/ Disconnect(c) \/ CloseDenied(c) \/ FailPush(c)
      PROVE  UNCHANGED <<run, pending, held>>
  BY <1>6 DEF clientVars, Disconnect, CloseDenied, FailPush, Hangup
<1>7. RestartServer => UNCHANGED <<run, pending, held>>
  BY DEF RestartServer
<1>8. UNCHANGED vars => UNCHANGED <<run, pending, held>>
  BY DEF vars, clientVars
<1>9. Next => \/ RestartServer
              \/ \E c \in Clients :
                    \/ ClientNext(c) \/ CrashClient(c)
                    \/ ServerNext(c) /\ UNCHANGED clientVars
                    \/ Lose(c) /\ UNCHANGED <<clientVars, serverVars>>
                    \/ Disconnect(c) \/ CloseDenied(c) \/ FailPush(c)
  BY DEF Next
<1> QED BY <1>2, <1>3, <1>4, <1>5, <1>6, <1>7, <1>8, <1>9

\* On a running client nothing is pending that its own log has: what a Batch
\* or an Ack brings leaves the queue in the same call, a crash between the two
\* files is made good by open, and an entry is new to every log when it is made.
THEOREM NothingCountsTwice == Spec => []PendingUnconfirmed
<1>1. Init => PendingUnconfirmed
  BY DEF Init, ClientInit, PendingUnconfirmed
<1>2. IInv => TypeOK /\ AgreeInv /\ AuthorInv
  BY DEF IInv, AgreeInv, AuthorInv
<1>3. IInv /\ PendingUnconfirmed /\ [Next]_vars => PendingUnconfirmed'
  BY <1>2, StepUnconfirmed
<1> QED BY <1>1, <1>3, Invariant, PTL DEF Spec

----------------------------------------------------------------------------
(* A refusal is a verdict                                                  *)

\* What a client has applied it also holds.
HeldWhole == \A c \in Clients : 1..cursor[c] \subseteq DOMAIN held[c]

LEMMA InitWhole == Init => HeldWhole
BY DEF Init, ClientInit, HeldWhole

\* advance applies nothing that is not in the table it reads.
LEMMA MovesWhole ==
    ASSUME NEW c \in Clients, TypeOK, HeldWhole, ClientMoves(c)
    PROVE  HeldWhole'
<1>1. PICK n \in Nat : \E h :
        /\ DOMAIN held[c] \subseteq DOMAIN h
        /\ held' = [held EXCEPT ![c] = h]
        /\ (cursor[c] + 1)..n \subseteq DOMAIN h
        /\ cursor' = [cursor EXCEPT ![c] = n]
  <2>0. PICK n \in Nat : \E h, dropped, gone, told : Moves(c, h, n, gone, told, dropped)
    BY Zenon DEF ClientMoves
  <2>1. PICK h, dropped, gone, told : Moves(c, h, n, gone, told, dropped)
    BY <2>0
  <2>2. DOMAIN held[c] \subseteq DOMAIN h /\ held' = [held EXCEPT ![c] = h]
    BY <2>1, Zenon DEF Moves, FromWire
  <2>3. (cursor[c] + 1)..n \subseteq DOMAIN h /\ cursor' = [cursor EXCEPT ![c] = n]
    BY <2>1, Zenon DEF Moves, SettlesTo
  <2> QED BY <2>2, <2>3, Zenon
<1>2. PICK h :
        /\ DOMAIN held[c] \subseteq DOMAIN h
        /\ held' = [held EXCEPT ![c] = h]
        /\ (cursor[c] + 1)..n \subseteq DOMAIN h
        /\ cursor' = [cursor EXCEPT ![c] = n]
  BY <1>1
<1>3. cursor[c] \in Nat
  BY DEF TypeOK, ClientTypeOK
<1>4. 1..n \subseteq DOMAIN h
  BY <1>2, <1>3 DEF HeldWhole
<1> QED BY <1>2, <1>4 DEF HeldWhole, TypeOK, ClientTypeOK

\* Every step keeps it.
LEMMA StepWhole == HeldWhole /\ TypeOK /\ [Next]_vars => HeldWhole'
<1> SUFFICES ASSUME HeldWhole, TypeOK, [Next]_vars PROVE HeldWhole'
  OBVIOUS
<1>1. CASE UNCHANGED <<held, cursor>>
  BY <1>1 DEF HeldWhole
<1> QED BY <1>1, StepKinds, MovesWhole DEF Mutate, QuietStep, vars, clientVars

\* Grounds are for ever: the log only grows, and so does what was made before.
Grown == /\ \A d \in Clients : authored[d] \subseteq authored'[d]
         /\ head <= head'
         /\ \A n \in 0..head : SubSeq(log', 1, n) = SubSeq(log, 1, n)

LEMMA GroundsLast ==
    ASSUME NEW c, NEW e, c \in Clients, TypeOK, Grown, head' \in Nat, Grounds(c, e)
    PROVE  Grounds(c, e)'
<1>1. CASE ~Trusting /\ \E u \in Proves[c] : ~Permitted(u, e)
  BY <1>1 DEF Grounds
<1>2. CASE \E n \in 0..head, before \in SUBSET {f \in authored[c] : f.n < e.n} :
             /\ e \notin Range(SubSeq(log, 1, n))
             /\ RefusesAt(c, SubSeq(log, 1, n) \o InOrder(before), e)
  <2>1. PICK n \in 0..head, before \in SUBSET {f \in authored[c] : f.n < e.n} :
             /\ e \notin Range(SubSeq(log, 1, n))
             /\ RefusesAt(c, SubSeq(log, 1, n) \o InOrder(before), e)
    BY <1>2
  <2>2. n \in 0..head' /\ SubSeq(log', 1, n) = SubSeq(log, 1, n)
    BY <2>1, LogType DEF Grown
  <2>3. before \in SUBSET {f \in authored'[c] : f.n < e.n}
    BY <2>1 DEF Grown
  <2> QED BY <2>1, <2>2, <2>3 DEF Grounds, RefusesAt
<1> QED BY <1>1, <1>2 DEF Grounds

\* Every step is growth.
LEMMA StepGrown == ASSUME TypeOK, [Next]_vars PROVE Grown /\ head' \in Nat
<1>1. log \in Seq(Entry) /\ head \in Nat /\ head = Len(log)
  BY LogType DEF TypeOK, ServerTypeOK, head
<1>2. \A d \in Clients : authored[d] \subseteq authored'[d]
  <2>1. ASSUME NEW c \in Clients, Mutate(c)
        PROVE  \A d \in Clients : authored[d] \subseteq authored'[d]
    <3>1. \/ \E e : authored' = [authored EXCEPT ![c] = @ \cup {e}]
          \/ authored' = authored
      BY <2>1, Zenon DEF Mutate
    <3>2. authored = [d \in Clients |-> authored[d]]
      BY DEF TypeOK, ClientTypeOK
    <3>3. ASSUME NEW e, authored' = [authored EXCEPT ![c] = @ \cup {e}], NEW d \in Clients
          PROVE  authored[d] \subseteq authored'[d]
      BY <3>2, <3>3
    <3> QED BY <3>1, <3>3
  <2>2. ASSUME NEW c \in Clients, ClientMoves(c) PROVE UNCHANGED authored
    BY <2>2 DEF ClientMoves, Moves
  <2> QED BY <2>1, <2>2, StepKinds DEF QuietStep, vars, clientVars
<1>3. CASE UNCHANGED log
  BY <1>1, <1>2, <1>3 DEF Grown, head
<1>4. ASSUME NEW c \in Clients, Append1(c) PROVE Grown /\ head' \in Nat
  <2>1. PICK e \in work.todo : log' = Append(log, e)
    BY <1>4 DEF Append1
  <2>2. e \in Entry
    BY <1>4, <2>1, WorkType DEF Append1
  <2>3. Len(log') = Len(log) + 1 /\ \A n \in 0..head : SubSeq(log', 1, n) = SubSeq(log, 1, n)
    BY <1>1, <2>1, <2>2
  <2> QED BY <1>1, <1>2, <2>3 DEF Grown, head
<1> QED BY <1>3, <1>4, StepKinds DEF QuietStep, vars, serverVars

\* An entry that the replay of a queue p on the first n of the log drops has
\* grounds, as long as those do not have it already.
LEMMA DroppedOnGrounds ==
    ASSUME NEW c \in Clients, NEW n \in 0..head, NEW p, p \subseteq authored[c],
           NEW kept \in SUBSET p, Survives(c, SubSeq(log, 1, n), p, kept),
           NEW e \in p, e \notin kept, e \notin Range(SubSeq(log, 1, n))
    PROVE  Grounds(c, e)
<1> DEFINE before == {f \in kept : f.n < e.n}
<1>1. before \in SUBSET {f \in authored[c] : f.n < e.n}
  OBVIOUS
<1>2. RefusesAt(c, SubSeq(log, 1, n) \o InOrder(before), e)
  BY DEF Survives
<1> HIDE DEF before
<1> QED BY <1>1, <1>2 DEF Grounds

\* So does what the end of a recv or of an open drops.
LEMMA SettledOnGrounds ==
    ASSUME NEW c \in Clients, NEW h, NEW p, NEW told, TypeOK, AgreeInv, HeldWhole,
           AuthorInv, FromWire(c, h), p \subseteq pending[c], p \cap Range(h) = {},
           Settle(c, h, p, told) \/ Stick(c, h, p, told),
           NEW e \in refused'[c], e \notin refused[c], e \notin told
    PROVE  Grounds(c, e)
<1>1. CASE Settle(c, h, p, told)
  <2>1. PICK end \in {cursor[c]} \cup DOMAIN h, kept \in SUBSET p :
          /\ end >= cursor[c]
          /\ (cursor[c] + 1)..end \subseteq DOMAIN h
          /\ Survives(c, Applied(c, h, end), p, kept)
          /\ refused' = [refused EXCEPT ![c] = @ \cup (p \ kept) \cup told]
    BY <1>1 DEF Settle, RunEnd
  <2>2. e \in p /\ e \notin kept
    BY <2>1 DEF TypeOK, ClientTypeOK
  <2>3. cursor[c] \in Nat /\ end \in Nat
    BY DEF TypeOK, ClientTypeOK, FromWire, IsSequenced
  <2>4. Agrees(h)
    BY FromWireAgrees
  <2>5. end <= head /\ Applied(c, h, end) = SubSeq(log, 1, end)
    BY <2>1, <2>3, <2>4, AppliedIsLog DEF AgreeInv
  <2>6. 1..end \subseteq DOMAIN h
    BY <2>1, <2>3 DEF HeldWhole, FromWire
  <2>7. e \notin Range(SubSeq(log, 1, end))
    <3>1. head \in Nat /\ head = Len(log) /\ log \in Seq(Entry)
      BY LogType DEF TypeOK, ServerTypeOK, head
    <3>2. SubSeq(log, 1, end) = [i \in 1..end |-> log[i]]
      BY <2>3, <2>5, <3>1
    <3>3. \A i \in 1..end : log[i] = h[i]
      BY <2>4, <2>6 DEF Agrees
    <3>4. \A i \in 1..end : h[i] # e
      BY <2>2, <2>6 DEF Range
    <3> QED BY <3>2, <3>3, <3>4 DEF Range
  <2>8. end \in 0..head /\ p \subseteq authored[c]
    BY <2>3, <2>5, LogType DEF AuthorInv, OwnAuthored
  <2> QED BY <2>1, <2>2, <2>5, <2>7, <2>8, DroppedOnGrounds
<1>2. CASE Stick(c, h, p, told)
  BY <1>2 DEF Stick, TypeOK, ClientTypeOK
<1> QED BY <1>1, <1>2

\* What a recv adds to what was refused: what it was told, and what the replay
\* drops.
LEMMA RecvOnGrounds ==
    ASSUME NEW c \in Clients, TypeOK, AgreeInv, HeldWhole, AuthorInv,
           pending[c] \cap Range(held[c]) = {},
           RecvBatch(c) \/ RecvAck(c) \/ RecvReject(c) \/ RecvDenied(c),
           NEW e \in refused'[c], e \notin refused[c]
    PROVE  Grounds(c, e) \/ \E m \in down[c] : m.type = "Reject" /\ m.id = e
<1>1. CASE RecvBatch(c)
  <2>1. PICK m \in down[c] :
        /\ m.type = "Batch"
        /\ Finish(c, Put(held[c], m.entries), pending[c] \ Range(m.entries), {})
    BY <1>1 DEF RecvBatch
  <2>2. FromWire(c, Put(held[c], m.entries))
    BY <2>1, WholeFromWire
  <2>3. (pending[c] \ Range(m.entries)) \cap Range(Put(held[c], m.entries)) = {}
    BY PutRange
  <2> QED BY <2>1, <2>2, <2>3, SettledOnGrounds DEF Finish
<1>2. CASE RecvAck(c)
  <2>1. PICK m \in down[c] :
        /\ m.type = "Ack"
        /\ Finish(c, Put(held[c], Promoted(c, m)), pending[c] \ Range(m.entries), {})
    BY <1>2 DEF RecvAck
  <2>2. FromWire(c, Put(held[c], Promoted(c, m)))
    BY <2>1, PromotedFromWire
  <2>3. Range(Promoted(c, m)) \subseteq Range(m.entries)
    BY DEF Promoted, Restrict, Range
  <2>4. (pending[c] \ Range(m.entries)) \cap Range(Put(held[c], Promoted(c, m))) = {}
    BY <2>3, PutRange
  <2> QED BY <2>1, <2>2, <2>4, SettledOnGrounds DEF Finish
<1>3. CASE RecvReject(c)
  <2>1. PICK m \in down[c] :
        /\ m.type = "Reject"
        /\ Finish(c, held[c], pending[c] \ {m.id}, {m.id})
    BY <1>3 DEF RecvReject
  <2> QED BY <2>1, HeldFromWire, SettledOnGrounds DEF Finish
<1>4. CASE RecvDenied(c)
  <2>1. Finish(c, held[c], pending[c], {})
    BY <1>4 DEF RecvDenied
  <2> QED BY <2>1, HeldFromWire, SettledOnGrounds DEF Finish
<1> QED BY <1>1, <1>2, <1>3, <1>4

\* What any call, or a stop in the middle of one, adds to what was refused.
LEMMA ClientOnGrounds ==
    ASSUME NEW c \in Clients, TypeOK, AgreeInv, HeldWhole, AuthorInv,
           PendingUnconfirmed, ClientNext(c) \/ CrashClient(c),
           NEW d \in Clients, NEW e \in refused'[d], e \notin refused[d]
    PROVE  /\ d = c
           /\ Grounds(c, e) \/ \E m \in down[c] : m.type = "Reject" /\ m.id = e
<1>1. d = c
  <2>1. CASE ClientMoves(c)
    <3>1. \E more : refused' = [refused EXCEPT ![c] = more]
      BY <2>1, Zenon DEF ClientMoves, Moves, SettlesTo
    <3> QED BY <3>1 DEF TypeOK, ClientTypeOK
  <2>2. CASE Mutate(c)
    <3>1. \E more : refused' = [refused EXCEPT ![c] = more]
      BY <2>2, Zenon DEF Mutate
    <3> QED BY <3>1 DEF TypeOK, ClientTypeOK
  <2>3. CASE Connected(c)
    BY <2>3 DEF Connected
  <2> QED BY <2>1, <2>2, <2>3, RecvMoves, OpenMoves, CrashMoves DEF ClientNext, CrashClient
<1>2. e \in refused'[c] /\ e \notin refused[c]
  BY <1>1
<1>3. run[c] => pending[c] \cap Range(held[c]) = {}
  BY DEF PendingUnconfirmed
<1>4. CASE Mutate(c)
  <2>1. PICK kept \in SUBSET pending[c] :
          /\ IF broken[c] THEN Survives(c, base[c], pending[c], kept)
                          ELSE kept = pending[c]
          /\ refused' = [refused EXCEPT ![c] = @ \cup (pending[c] \ kept)]
    BY <1>4, Zenon DEF Mutate
  <2>2. e \in pending[c] /\ e \notin kept
    BY <1>2, <2>1 DEF TypeOK, ClientTypeOK
  <2>3. Survives(c, base[c], pending[c], kept)
    BY <2>1, <2>2
  <2>4. cursor[c] \in 0..head /\ base[c] = SubSeq(log, 1, cursor[c])
    BY LogType DEF AgreeInv, BaseIsLog, TypeOK, ClientTypeOK
  <2>5. e \notin Range(held[c])
    BY <1>3, <1>4, <2>2 DEF Mutate
  <2>6. e \notin Range(SubSeq(log, 1, cursor[c]))
    <3>1. SubSeq(log, 1, cursor[c]) = [i \in 1..cursor[c] |-> log[i]]
      BY <2>4, LogType DEF TypeOK, ServerTypeOK, head
    <3>2. \A i \in 1..cursor[c] : i \in DOMAIN held[c] /\ held[c][i] = log[i]
      BY DEF HeldWhole, AgreeInv, HeldAgrees, Agrees
    <3> QED BY <2>5, <3>1, <3>2 DEF Range
  <2>7. pending[c] \subseteq authored[c]
    BY DEF AuthorInv, OwnAuthored
  <2> QED BY <1>1, <2>1, <2>2, <2>3, <2>4, <2>6, <2>7, DroppedOnGrounds
<1>5. CASE RecvBatch(c) \/ RecvAck(c) \/ RecvReject(c) \/ RecvDenied(c)
  <2>1. run[c]
    BY <1>5 DEF RecvBatch, RecvAck, RecvReject, RecvDenied
  <2> QED BY <1>1, <1>2, <1>3, <1>5, <2>1, RecvOnGrounds
<1>6. CASE Open(c)
  <2>1. CASE Settle(c, held[c], pending[c] \ Range(held[c]), {})
    BY <1>1, <1>2, <2>1, HeldFromWire, SettledOnGrounds
  <2>2. CASE Stick(c, held[c], pending[c], {})
    BY <1>2, <2>2 DEF Stick, TypeOK, ClientTypeOK
  <2> QED BY <1>6, <2>1, <2>2 DEF Open
<1>7. CASE Connected(c)
  BY <1>2, <1>7 DEF Connected
<1>8. CASE CrashClient(c)
  <2>1. \/ UNCHANGED refused
        \/ \E m \in down[c] :
              m.type = "Reject" /\ refused' = [refused EXCEPT ![c] = @ \cup {m.id}]
    BY <1>8, Zenon DEF CrashClient, Crash, StopRefusing
  <2> QED BY <1>1, <1>2, <2>1 DEF TypeOK, ClientTypeOK
<1> QED BY <1>4, <1>5, <1>6, <1>7, <1>8 DEF ClientNext

\* Where a failing database is no verdict, the server has grounds to refuse.
NoFalseVerdict == ~(IoIsVerdict /\ "io" \in Faults)

LEMMA RefuseOnGrounds ==
    ASSUME NEW c \in Clients, TypeOK, Identified, AuthorInv, Refuse(c)
    PROVE  \E e : /\ Grounds(c, e)
                  /\ down' = [down EXCEPT ![c] = @ \cup {Reject(e)}]
<1>1. PICK e \in work.todo :
        /\ ~Logged(e)
        /\ ~Allowed(c, e) \/ Rejects(log, e)
        /\ down' = [down EXCEPT ![c] = @ \cup {Reject(e)}]
  BY DEF Refuse
<1>2. ~Allowed(c, e) => Grounds(c, e)
  BY DEF Allowed, Identified, Grounds
<1>3. ASSUME Rejects(log, e) PROVE Grounds(c, e)
  <2>1. log \in Seq(Entry) /\ head = Len(log)
    BY DEF TypeOK, ServerTypeOK, head
  <2>2. SubSeq(log, 1, head) = log /\ head \in 0..head
    BY <2>1
  <2>3. InOrder({}) = <<>>
    <3>1. Cardinality({}) = 0
      BY FS_EmptySet
    <3>2. 1..Cardinality({}) = {}
      BY <3>1
    <3> QED BY <3>2 DEF InOrder
  <2>4. log \o InOrder({}) = log
    BY <2>1, <2>3
  <2>5. {} \in SUBSET {f \in authored[c] : f.n < e.n}
    OBVIOUS
  <2> QED BY <1>1, <1>3, <2>2, <2>4, <2>5 DEF Grounds, RefusesAt, Logged
<1> QED BY <1>1, <1>2, <1>3

\* Of the server's steps, only Refuse refuses.
LEMMA OnlyRefuseRefuses ==
    ASSUME TypeOK, NoFalseVerdict, NEW c \in Clients, NEW d \in Clients, ServerNext(c),
           UNCHANGED clientVars, NEW m \in down'[d], m \notin down[d], m.type = "Reject"
    PROVE  Refuse(c) /\ d = c
<1>1. CASE HandleHello(c)
  <2>1. PICK x : Fanout(Insert(conns, c, Lesser(x.since, head)), down)
    BY <1>1 DEF HandleHello
  <2> QED BY <2>1 DEF Fanout, Batch
<1>2. CASE DenyHello(c) \/ DenyPush(c)
  <2>1. down' = [down EXCEPT ![c] = @ \cup {Denied}]
    BY <1>2 DEF DenyHello, DenyPush, Deny
  <2> QED BY <2>1, WireIsFun DEF Denied
<1>3. CASE TakePush(c) \/ AckAgain(c) \/ Append1(c)
  BY <1>3 DEF TakePush, AckAgain, Append1
<1>4. CASE FinishPush(c)
  <2>1. PICK f \in {down, [down EXCEPT ![c] = @ \cup {Ack(work.acks)}]} :
          Fanout(conns, f)
    BY <1>4 DEF FinishPush
  <2>2. m \in f[d] => m = Ack(work.acks)
    BY <2>1, WireIsFun
  <2>3. m \in f[d] \/ m.type = "Batch"
    BY <2>1 DEF Fanout, Batch
  <2> QED BY <2>2, <2>3 DEF Ack
<1>5. CASE Refuse(c)
  <2>1. PICK e : down' = [down EXCEPT ![c] = @ \cup {Reject(e)}]
    BY <1>5 DEF Refuse
  <2> QED BY <1>5, <2>1, WireIsFun
<1>6. ~IoRefuse(c)
  BY DEF IoRefuse, NoFalseVerdict, Fault
<1> QED BY <1>1, <1>2, <1>3, <1>4, <1>5, <1>6 DEF ServerNext

\* Nothing but a step of the server puts a message on the wire to a client.
LEMMA OthersAreSilent ==
    ASSUME TypeOK, NEW d \in Clients, [Next]_vars,
           ~\E c \in Clients : ServerNext(c) /\ UNCHANGED clientVars
    PROVE  down'[d] \subseteq down[d]
<1>1. ASSUME NEW c \in Clients, ClientNext(c)
      PROVE  down'[d] \subseteq down[d]
  <2>1. CASE ClientMoves(c)
    BY <2>1 DEF ClientMoves, Moves
  <2>2. CASE Mutate(c)
    BY <2>2 DEF Mutate
  <2>3. CASE Connected(c)
    BY <2>3, WireIsFun DEF Connected
  <2> QED BY <1>1, <2>1, <2>2, <2>3, RecvMoves, OpenMoves DEF ClientNext
<1>2. ASSUME NEW c \in Clients, CrashClient(c) PROVE down'[d] \subseteq down[d]
  BY <1>2, CrashMoves DEF CrashClient, ClientMoves, Moves
<1>3. ASSUME NEW c \in Clients, Disconnect(c) \/ CloseDenied(c) \/ FailPush(c)
      PROVE  down'[d] \subseteq down[d]
  <2>1. Hangup(c)
    BY <1>3 DEF Disconnect, CloseDenied, FailPush
  <2> QED BY <2>1, WireIsFun DEF Hangup
<1>4. ASSUME NEW c \in Clients, Lose(c) PROVE down'[d] \subseteq down[d]
  <2>1. PICK m : down' = [down EXCEPT ![c] = @ \ {m}] \/ down' = down
    BY <1>4 DEF Lose
  <2> QED BY <2>1, WireIsFun
<1>5. RestartServer => down'[d] = {}
  BY DEF RestartServer, Restart
<1>6. UNCHANGED vars => down' = down
  BY DEF vars, netVars
<1> QED BY <1>1, <1>2, <1>3, <1>4, <1>5, <1>6 DEF Next

\* Every step keeps the grounds there are, and adds no refusal without.
LEMMA StepOnGrounds ==
    ASSUME NoFalseVerdict, IInv, HeldWhole, PendingUnconfirmed, RefusalsAreVerdicts,
           [Next]_vars
    PROVE  RefusalsAreVerdicts'
<1>1. TypeOK /\ Identified /\ AgreeInv /\ AuthorInv
  BY DEF IInv, AgreeInv, AuthorInv
<1>2. ASSUME NEW c \in Clients, NEW e, Grounds(c, e) PROVE Grounds(c, e)'
  BY <1>1, <1>2, StepGrown, GroundsLast
<1>3. ASSUME NEW d \in Clients, NEW e \in refused'[d] PROVE Grounds(d, e)'
  <2>1. e \in refused[d] => Grounds(d, e)
    BY DEF RefusalsAreVerdicts
  <2>2. \A m \in down[d] : m.type = "Reject" => Grounds(d, m.id)
    BY DEF RefusalsAreVerdicts
  <2>3. ASSUME NEW c \in Clients, ClientNext(c) \/ CrashClient(c)
        PROVE  e \in refused[d] \/ Grounds(d, e)
    BY <1>1, <2>2, <2>3, ClientOnGrounds
  <2>4. ASSUME NEW c \in Clients, Disconnect(c) \/ CloseDenied(c) \/ FailPush(c)
        PROVE  UNCHANGED refused
    BY <2>4 DEF Disconnect, CloseDenied, FailPush, Hangup
  <2>5. RestartServer => UNCHANGED refused
    BY DEF RestartServer
  <2>6. e \in refused[d] \/ Grounds(d, e)
    BY <1>3, <2>3, <2>4, <2>5 DEF Next, vars, clientVars
  <2> QED BY <1>2, <2>1, <2>6
<1>4. ASSUME NEW d \in Clients, NEW m \in down'[d], m.type = "Reject"
      PROVE  Grounds(d, m.id)'
  <2>1. CASE m \in down[d]
    BY <1>2, <1>4, <2>1 DEF RefusalsAreVerdicts
  <2>2. CASE m \notin down[d]
    <3>1. PICK c \in Clients : ServerNext(c) /\ UNCHANGED clientVars
      BY <1>1, <2>2, OthersAreSilent
    <3>2. Refuse(c) /\ d = c
      BY <1>1, <1>4, <2>2, <3>1, OnlyRefuseRefuses
    <3>3. PICK e : /\ Grounds(d, e)
                   /\ down' = [down EXCEPT ![d] = @ \cup {Reject(e)}]
      BY <1>1, <3>2, RefuseOnGrounds
    <3>4. m = Reject(e)
      BY <1>1, <2>2, <3>3, WireIsFun
    <3> QED BY <1>2, <3>3, <3>4 DEF Reject
  <2> QED BY <2>1, <2>2
<1> QED BY <1>3, <1>4 DEF RefusalsAreVerdicts

\* Unless an app! wiring meets a failing database, every refusal an author is
\* told of, by the server or by its own client, is a verdict on the mutation
\* after a beginning of the log, or on who was signed in; it is so for ever.
THEOREM RefusedOnGrounds == NoFalseVerdict => (Spec => []RefusalsAreVerdicts)
<1> SUFFICES ASSUME NoFalseVerdict PROVE Spec => []RefusalsAreVerdicts
  OBVIOUS
<1>1. Init => RefusalsAreVerdicts
  BY DEF Init, NetInit, ClientInit, RefusalsAreVerdicts
<1>2. IInv /\ HeldWhole /\ PendingUnconfirmed /\ RefusalsAreVerdicts /\ [Next]_vars
      => RefusalsAreVerdicts'
  BY StepOnGrounds
<1>3. IInv /\ HeldWhole /\ [Next]_vars => HeldWhole'
  BY StepWhole DEF IInv
<1> QED BY <1>1, <1>2, <1>3, InitWhole, Invariant, NothingCountsTwice, PTL DEF Spec
=============================================================================
