--------------------------- MODULE Mutators_proofs ---------------------------
(***************************************************************************)
(* Proofs about Mutators, for any peers, any modules and any number of     *)
(* calls, loads, traps and panics.                                         *)
(***************************************************************************)
EXTENDS Mutators, TLAPS

----------------------------------------------------------------------------
(* The records the actions write *)

LEMMA NoRows == <<>> \in Seq(Row)
  OBVIOUS

\* A peer that asked for nothing, at rest, inside a call, or refused.
LEMMA BlankTyped ==
    ASSUME NEW at \in {"idle", "fill", "between", "apply"},
           NEW outcome \in {"none", "accepted", "rejected"},
           NEW why \in {"none", "app", "host"}
    PROVE  Blank(at, outcome, why) \in PeerState
<1> DEFINE e == <<>>
<1>1. e \in Seq(Row)
      BY NoRows
<1>2. Blank(at, outcome, why)
        = [at |-> at, asked |-> e, wrote |-> e, reported |-> e,
           outcome |-> outcome, why |-> why]
      BY DEF Blank
<1> HIDE DEF e
<1> QED BY <1>1, <1>2 DEF PeerState

LEMMA BlankFields ==
    ASSUME NEW at, NEW outcome, NEW why
    PROVE  /\ Blank(at, outcome, why).at = at
           /\ Blank(at, outcome, why).outcome = outcome
           /\ Blank(at, outcome, why).asked = <<>>
           /\ Blank(at, outcome, why).wrote = <<>>
           /\ Blank(at, outcome, why).reported = <<>>
  BY DEF Blank

LEMMA RestingTyped ==
    Resting \in [conn : Peers \cup {Null}, failure : BOOLEAN, changes : Seq(Row)]
<1> DEFINE e == <<>>
<1>1. e \in Seq(Row) /\ Resting = [conn |-> Null, failure |-> FALSE, changes |-> e]
      BY NoRows DEF Resting
<1> HIDE DEF e
<1> QED BY <1>1

LEMMA RestingFields == Resting.conn = Null /\ Resting.failure = FALSE
  BY DEF Resting

LEMMA FreshTyped ==
    /\ Fresh \in [live : Int, early : Nat]
    /\ Fresh.live = 0 /\ Fresh.early = 0
  BY DEF Fresh

----------------------------------------------------------------------------
(* The steps *)

LEMMA InitInv == ASSUME MutatorsAssumption, Init PROVE CallInv
<1>1. CallsTyped
      BY BlankTyped, RestingTyped, FreshTyped DEF Init, CallsTyped
<1>2. LentToTheCall /\ BuffersGivenBack
      BY RestingFields, FreshTyped DEF Init, LentToTheCall, BuffersGivenBack, Buffers
<1>3. KeptOfTheCall /\ ReportedIsWritten
      BY BlankFields DEF Init, KeptOfTheCall, ReportedIsWritten
<1> QED BY <1>1, <1>2, <1>3 DEF CallInv

\* A load waits for the calls under way, and the next begins on a new instance.
LEMMA LoadKeeps ==
    ASSUME MutatorsAssumption, CallInv, NEW m \in Modules, Load(m) PROVE CallInv'
<1> USE DEF CallInv
<1>1. job = Null
      BY DEF Load, Reading, LentToTheCall, CallsTyped
<1>2. CASE m.passes
  <2>1. host' = Resting /\ guest' = Fresh /\ UNCHANGED <<job, peers>>
        BY <1>2 DEF Load
  <2>2. CallsTyped'
        BY <2>1, RestingTyped, FreshTyped DEF CallsTyped
  <2>3. LentToTheCall' /\ BuffersGivenBack'
        BY <1>1, <2>1, RestingFields, FreshTyped DEF LentToTheCall, BuffersGivenBack, Buffers
  <2>4. KeptOfTheCall' /\ ReportedIsWritten'
        BY <1>1, <2>1 DEF KeptOfTheCall, ReportedIsWritten, MutatorsAssumption
  <2> QED BY <2>2, <2>3, <2>4
<1>3. CASE ~m.passes
  <2>1. UNCHANGED <<slot, host, guest, job, peers>>
        BY <1>3 DEF Load
  <2> QED BY <2>1 DEF CallsTyped, LentToTheCall, KeptOfTheCall, BuffersGivenBack,
                      ReportedIsWritten
<1> QED BY <1>2, <1>3 DEF MutatorsAssumption

\* A peer that is in no call, before the step and after it.
LEMMA PeerKeeps ==
    ASSUME MutatorsAssumption, CallInv, NEW p \in Peers, job # p,
           NEW s \in PeerState, peers' = [peers EXCEPT ![p] = s],
           s.at # "idle" => s.outcome = "none",
           s.at \in {"between", "apply"} => s.asked = <<>> /\ s.wrote = <<>>,
           s.outcome # "accepted",
           UNCHANGED <<slot, host, guest, job>>
    PROVE  CallInv'
<1> USE DEF CallInv
<1>1. CallsTyped'
      BY DEF CallsTyped
<1>2. \A q \in Peers : peers'[q] = IF q = p THEN s ELSE peers[q]
      BY DEF CallsTyped
<1>3. LentToTheCall' /\ BuffersGivenBack'
      BY <1>2 DEF LentToTheCall, BuffersGivenBack, CallsTyped
<1>4. KeptOfTheCall'
      BY <1>2 DEF KeptOfTheCall
<1>5. ReportedIsWritten'
      BY <1>2 DEF ReportedIsWritten
<1> QED BY <1>1, <1>3, <1>4, <1>5

LEMMA AskKeeps ==
    ASSUME MutatorsAssumption, CallInv, NEW p \in Peers, NEW what \in {"fill", "apply"},
           Ask(p, what)
    PROVE  CallInv'
<1>1. job # p
      BY DEF Ask, CallInv, LentToTheCall, MutatorsAssumption
<1> DEFINE s == Blank(what, "none", "none")
<1>2. peers' = [peers EXCEPT ![p] = s] /\ UNCHANGED <<slot, host, guest, job>>
      BY DEF Ask
<1>3. /\ s \in PeerState /\ s.outcome = "none"
      /\ s.asked = <<>> /\ s.wrote = <<>>
      BY BlankTyped, BlankFields
<1> HIDE DEF s
<1> QED BY <1>1, <1>2, <1>3, PeerKeeps

LEMMA ApplyKeeps ==
    ASSUME MutatorsAssumption, CallInv, NEW p \in Peers, Apply(p) PROVE CallInv'
<1>1. job # p /\ peers[p] \in PeerState /\ peers[p].at = "between"
      BY DEF Apply, CallInv, LentToTheCall, MutatorsAssumption, CallsTyped
<1>2. peers[p].outcome = "none" /\ peers[p].asked = <<>> /\ peers[p].wrote = <<>>
      BY <1>1 DEF CallInv, KeptOfTheCall
<1> DEFINE s == [peers[p] EXCEPT !.at = "apply"]
<1>3. peers' = [peers EXCEPT ![p] = s] /\ UNCHANGED <<slot, host, guest, job>>
      BY DEF Apply
<1>4. /\ s \in PeerState /\ s.outcome = "none"
      /\ s.asked = <<>> /\ s.wrote = <<>>
      BY <1>1, <1>2 DEF PeerState
<1> HIDE DEF s
<1> QED BY <1>1, <1>3, <1>4, PeerKeeps

\* What Answered makes of a peer.
LEMMA AnsweredFill ==
    ASSUME NEW p \in Peers, peers[p].at = "fill", NEW end, NEW reported,
           Answered(p, end, reported)
    PROVE  peers' = [peers EXCEPT ![p] = Blank("between", "none", "none")]
  BY DEF Answered

LEMMA AnsweredApart ==
    ASSUME NEW p \in Peers, peers[p].at = "apply", NEW end, end # "returned", NEW reported,
           Answered(p, end, reported)
    PROVE  \E why \in {"app", "host"} :
              peers' = [peers EXCEPT ![p] = Blank("idle", "rejected", why)]
  BY DEF Answered

LEMMA AnsweredApply ==
    ASSUME NEW p \in Peers, peers[p].at = "apply", NEW reported,
           Answered(p, "returned", reported)
    PROVE  peers' = [peers EXCEPT ![p] =
                        [@ EXCEPT !.at = "idle", !.outcome = "accepted",
                                  !.reported = reported]]
  BY DEF Answered

LEMMA UnservedKeeps ==
    ASSUME MutatorsAssumption, CallInv, NEW p \in Peers, Unserved(p) PROVE CallInv'
<1>1. job # p
      BY DEF Unserved, CallInv, LentToTheCall, MutatorsAssumption
<1>2. PICK s : /\ s \in PeerState /\ peers' = [peers EXCEPT ![p] = s]
               /\ s.outcome # "accepted"
               /\ s.at # "idle" => s.outcome = "none"
               /\ s.asked = <<>> /\ s.wrote = <<>>
  <2>1. CASE peers[p].at = "fill"
    <3> DEFINE s == Blank("between", "none", "none")
    <3>1. peers' = [peers EXCEPT ![p] = s]
          BY <2>1, AnsweredFill DEF Unserved
    <3>2. /\ s \in PeerState /\ s.outcome = "none"
          /\ s.asked = <<>> /\ s.wrote = <<>>
          BY BlankTyped, BlankFields
    <3> HIDE DEF s
    <3> QED BY <3>1, <3>2
  <2>2. CASE peers[p].at = "apply"
    <3>1. PICK why \in {"app", "host"} :
             peers' = [peers EXCEPT ![p] = Blank("idle", "rejected", why)]
          BY <2>2, AnsweredApart DEF Unserved
    <3> DEFINE s == Blank("idle", "rejected", why)
    <3>2. /\ s \in PeerState /\ s.outcome = "rejected" /\ s.at = "idle"
          /\ s.asked = <<>> /\ s.wrote = <<>>
          BY BlankTyped, BlankFields
    <3>3. peers' = [peers EXCEPT ![p] = s]
          BY <3>1
    <3> HIDE DEF s
    <3> QED BY <3>2, <3>3
  <2> QED BY <2>1, <2>2 DEF Unserved, Reading
<1>3. UNCHANGED <<slot, host, guest, job>>
      BY DEF Unserved
<1> QED BY <1>1, <1>2, <1>3, PeerKeeps

\* A call takes the thread that no call has.
LEMMA BeginKeeps ==
    ASSUME MutatorsAssumption, CallInv, NEW p \in Peers, Begin(p) PROVE CallInv'
<1> USE DEF CallInv
<1>1. /\ job = Null /\ p # Null /\ job' = p /\ UNCHANGED <<slot, peers>>
      /\ slot # Null /\ slot.alive /\ peers[p].at \in {"fill", "apply"}
      BY DEF Begin, Reading, MutatorsAssumption
<1>2. /\ host'.conn = IF peers[p].at = "apply" THEN p ELSE Null
      /\ peers[p].at = "apply" => host'.changes = <<>>
      BY DEF Begin
<1>3. guest'.early = guest.early /\ guest'.live = guest.live + Buffers
      BY DEF Begin, CallsTyped
<1>4. CallsTyped'
  <2>1. host' \in [conn : Peers \cup {Null}, failure : BOOLEAN, changes : Seq(Row)]
    <3> DEFINE c == IF peers[p].at = "apply" THEN <<>> ELSE host.changes
    <3>1. c \in Seq(Row)
          BY NoRows DEF CallsTyped
    <3>2. host' = [conn |-> IF peers[p].at = "apply" THEN p ELSE Null,
                   failure |-> FALSE, changes |-> c]
          BY DEF Begin
    <3> HIDE DEF c
    <3> QED BY <3>1, <3>2
  <2>2. guest' \in [live : Int, early : Nat]
        BY DEF Begin, CallsTyped, Buffers
  <2> QED BY <1>1, <2>1, <2>2 DEF CallsTyped
<1>5. LentToTheCall'
      BY <1>1, <1>2 DEF LentToTheCall
<1>6. KeptOfTheCall'
      BY <1>1, <1>2 DEF KeptOfTheCall, CallsTyped
<1>7. BuffersGivenBack'
      BY <1>1, <1>3 DEF BuffersGivenBack, Buffers, CallsTyped
<1>8. ReportedIsWritten'
      BY <1>1 DEF ReportedIsWritten
<1> QED BY <1>4, <1>5, <1>6, <1>7, <1>8

\* A put of the call under way: it is the peer that lent the connection.
LEMMA PutKeeps ==
    ASSUME MutatorsAssumption, CallInv, Put PROVE CallInv'
<1> USE DEF CallInv
<1> DEFINE p == host.conn
           row == <<p, Len(peers[p].wrote) + 1>>
           s == [peers[p] EXCEPT !.wrote = Append(@, row), !.asked = Append(@, row)]
<1>1. /\ p = job /\ p \in Peers /\ peers[p].at = "apply" /\ p # Null
  <2>1. job # Null /\ host.conn # Null
      BY DEF Put, Does, Runs
  <2>2. job \in Peers
      BY <2>1 DEF CallsTyped
  <2> QED BY <2>1, <2>2 DEF LentToTheCall
<1>2. peers[p] \in PeerState /\ row \in Row
  <2>1. peers[p] \in PeerState
      BY <1>1 DEF CallsTyped
  <2>2. Len(peers[p].wrote) \in Nat
      BY <2>1 DEF PeerState
  <2> QED BY <1>1, <2>1, <2>2 DEF Row
<1>3. UNCHANGED <<slot, guest, job>>
      BY DEF Put
<1>4. peers' = [peers EXCEPT ![p] = s]
      BY <1>1, <1>2 DEF Put, PeerState, CallsTyped
<1> DEFINE kept == Append(host.changes, row)
           wrote == Append(peers[p].wrote, row)
           asked == Append(peers[p].asked, row)
<1>5. host' = [host EXCEPT !.changes = kept] /\ s = [peers[p] EXCEPT !.wrote = wrote, !.asked = asked]
      BY DEF Put
<1> HIDE DEF s, row
<1>a. {kept, wrote, asked} \subseteq Seq(Row)
      BY <1>2 DEF CallsTyped, PeerState
<1> HIDE DEF kept, wrote, asked
<1>6. /\ s \in PeerState /\ s.at = "apply"
      /\ s.outcome = peers[p].outcome
      /\ s.wrote = wrote /\ s.asked = asked
      BY <1>1, <1>2, <1>5, <1>a DEF PeerState
<1>7. /\ host' \in [conn : Peers \cup {Null}, failure : BOOLEAN, changes : Seq(Row)]
      /\ host'.conn = host.conn /\ host'.failure = host.failure
      /\ host'.changes = kept
      BY <1>5, <1>a DEF CallsTyped
<1>8. \A q \in Peers : peers'[q] = IF q = p THEN s ELSE peers[q]
      BY <1>4 DEF CallsTyped
<1>9. CallsTyped'
      BY <1>1, <1>3, <1>4, <1>6, <1>7 DEF CallsTyped
<1>10. LentToTheCall' /\ BuffersGivenBack'
      BY <1>1, <1>3, <1>6, <1>7, <1>8 DEF LentToTheCall, BuffersGivenBack
<1>11. KeptOfTheCall'
  <2>1. /\ host.changes = peers[p].wrote
        /\ ~host.failure => peers[p].asked = peers[p].wrote
        /\ peers[p].outcome = "none"
        BY <1>1 DEF KeptOfTheCall
  <2>2. kept = wrote /\ (~host.failure => asked = wrote)
        BY <2>1 DEF kept, wrote, asked
  <2> QED BY <1>1, <1>3, <1>6, <1>7, <1>8, <2>1, <2>2 DEF KeptOfTheCall
<1>12. ReportedIsWritten'
      BY <1>1, <1>6, <1>8 DEF ReportedIsWritten, KeptOfTheCall
<1> QED BY <1>9, <1>10, <1>11, <1>12

\* A write that reaches nothing fails the call.
LEMMA PutNowhereKeeps ==
    ASSUME MutatorsAssumption, CallInv, PutNowhere PROVE CallInv'
<1> USE DEF CallInv
<1> DEFINE asked == Append(peers[job].asked, <<job, 0>>)
           s == [peers[job] EXCEPT !.asked = asked]
<1>1. /\ job # Null /\ job \in Peers /\ peers[job].at \in {"fill", "apply"}
      /\ peers[job] \in PeerState /\ <<job, 0>> \in Row
      BY DEF PutNowhere, Does, Runs, LentToTheCall, CallsTyped, Row
<1>a. asked \in Seq(Row)
      BY <1>1 DEF PeerState
<1>2. UNCHANGED <<slot, guest, job>> /\ peers' = [peers EXCEPT ![job] = s]
      BY <1>1 DEF PutNowhere, CallsTyped, PeerState
<1> HIDE DEF asked
<1>3. /\ s \in PeerState /\ s.at = peers[job].at /\ s.outcome = peers[job].outcome
      /\ s.wrote = peers[job].wrote
      BY <1>1, <1>a DEF PeerState
<1>4. /\ host' \in [conn : Peers \cup {Null}, failure : BOOLEAN, changes : Seq(Row)]
      /\ host'.conn = host.conn /\ host'.failure /\ host'.changes = host.changes
      BY DEF PutNowhere, CallsTyped
<1> HIDE DEF s
<1>5. \A q \in Peers : peers'[q] = IF q = job THEN s ELSE peers[q]
      BY <1>2 DEF CallsTyped
<1>6. CallsTyped'
      BY <1>1, <1>2, <1>3, <1>4 DEF CallsTyped
<1>7. LentToTheCall' /\ BuffersGivenBack'
      BY <1>1, <1>2, <1>3, <1>4, <1>5 DEF LentToTheCall, BuffersGivenBack
<1>8. KeptOfTheCall'
      BY <1>1, <1>2, <1>3, <1>4, <1>5 DEF KeptOfTheCall
<1>9. ReportedIsWritten'
      BY <1>1, <1>3, <1>5 DEF ReportedIsWritten, KeptOfTheCall
<1> QED BY <1>6, <1>7, <1>8, <1>9

\* However a call ends, the connection is taken back, and what is accepted is what
\* was written and asked for.
LEMMA EndKeeps ==
    ASSUME MutatorsAssumption, CallInv, NEW p \in Peers, job = p, job' = Null,
           NEW s \in PeerState, peers' = [peers EXCEPT ![p] = s],
           s.at \in {"idle", "between"},
           s.at = "between" => s.outcome = "none" /\ s.asked = <<>> /\ s.wrote = <<>>,
           s.outcome = "accepted" => s.reported = s.wrote /\ s.wrote = s.asked,
           host' \in [conn : Peers \cup {Null}, failure : BOOLEAN, changes : Seq(Row)],
           guest' \in [live : Int, early : Nat],
           host'.conn = Null,
           guest'.live <= (Buffers + 1) * guest'.early
    PROVE  CallInv'
<1> USE DEF CallInv
<1>1. \A q \in Peers : peers'[q] = IF q = p THEN s ELSE peers[q]
      BY DEF CallsTyped
<1>2. CallsTyped'
      BY DEF CallsTyped
<1>3. LentToTheCall' /\ BuffersGivenBack'
      BY DEF LentToTheCall, BuffersGivenBack, Buffers
<1>4. KeptOfTheCall'
      BY <1>1 DEF KeptOfTheCall, MutatorsAssumption
<1>5. ReportedIsWritten'
      BY <1>1 DEF ReportedIsWritten
<1> QED BY <1>2, <1>3, <1>4, <1>5

\* What Answered makes of the peer of a call, as EndKeeps asks it.
Ended(p, s) ==
    /\ s \in PeerState /\ peers' = [peers EXCEPT ![p] = s]
    /\ s.at \in {"idle", "between"}
    /\ s.at = "between" => s.outcome = "none" /\ s.asked = <<>> /\ s.wrote = <<>>
    /\ s.outcome = "accepted" => s.reported = s.wrote /\ s.wrote = s.asked

LEMMA EndedOtherwise ==
    ASSUME NEW p \in Peers, peers[p].at \in {"fill", "apply"}, NEW end, NEW reported,
           end # "returned" \/ peers[p].at = "fill", Answered(p, end, reported)
    PROVE  \E s : Ended(p, s)
<1>1. CASE peers[p].at = "fill"
  <2> DEFINE s == Blank("between", "none", "none")
  <2>1. peers' = [peers EXCEPT ![p] = s]
        BY <1>1, AnsweredFill
  <2>2. /\ s \in PeerState /\ s.outcome = "none" /\ s.at = "between"
        /\ s.asked = <<>> /\ s.wrote = <<>>
        BY BlankTyped, BlankFields
  <2> HIDE DEF s
  <2>3. Ended(p, s)
        BY <2>1, <2>2 DEF Ended
  <2> QED BY <2>3
<1>2. CASE peers[p].at = "apply"
  <2>1. PICK why \in {"app", "host"} :
           peers' = [peers EXCEPT ![p] = Blank("idle", "rejected", why)]
        BY <1>2, AnsweredApart
  <2> DEFINE s == Blank("idle", "rejected", why)
  <2>2. s \in PeerState /\ s.outcome = "rejected" /\ s.at = "idle"
        BY BlankTyped, BlankFields
  <2>3. peers' = [peers EXCEPT ![p] = s]
        BY <2>1
  <2> HIDE DEF s
  <2>4. Ended(p, s)
        BY <2>2, <2>3 DEF Ended
  <2> QED BY <2>4
<1> QED BY <1>1, <1>2

LEMMA RestTyped ==
    ASSUME NEW h \in [conn : Peers \cup {Null}, failure : BOOLEAN, changes : Seq(Row)]
    PROVE  /\ Rest(h) \in [conn : Peers \cup {Null}, failure : BOOLEAN, changes : Seq(Row)]
           /\ Rest(h).conn = Null
  BY DEF Rest

\* A guest that returns: what it was written and what it packed is freed.
LEMMA ReturnKeeps ==
    ASSUME MutatorsAssumption, CallInv, NEW end \in {"returned", "refused"}, Return(end)
    PROVE  CallInv'
<1> DEFINE packed == IF end = "refused" \/ peers[job].at = "fill" THEN 1 ELSE 0
           content == end = "returned" /\ peers[job].at = "apply"
           told == IF host.failure THEN "failed" ELSE end
<1>1. /\ job # Null /\ job \in Peers /\ job' = Null
      /\ peers[job].at \in {"fill", "apply"} /\ peers[job] \in PeerState
      BY DEF Return, Runs, CallInv, LentToTheCall, CallsTyped
<1>2. /\ guest' \in [live : Int, early : Nat]
      /\ guest'.live <= (Buffers + 1) * guest'.early
  <2>1. guest' = [guest EXCEPT !.live = @ + packed - Freed(packed)] /\ packed \in Int
        BY DEF Return
  <2> HIDE DEF packed
  <2>2. guest \in [live : Int, early : Nat]
        BY DEF CallInv, CallsTyped
  <2>3. guest.live + packed - Freed(packed) = guest.live - Buffers
        BY <2>1, <2>2 DEF Freed, Buffers
  <2>4. guest' = [guest EXCEPT !.live = guest.live - Buffers]
        BY <2>1, <2>3
  <2>5. guest.live <= (Buffers + 1) * guest.early + Buffers
        BY <1>1 DEF CallInv, BuffersGivenBack
  <2> QED BY <2>2, <2>4, <2>5 DEF Buffers
<1>3. /\ host' \in [conn : Peers \cup {Null}, failure : BOOLEAN, changes : Seq(Row)]
      /\ host'.conn = Null
  <2> DEFINE c == IF content THEN <<>> ELSE Rest(host).changes
  <2>1. host' = [Rest(host) EXCEPT !.changes = c]
        BY DEF Return
  <2>2. c \in Seq(Row)
        BY NoRows, RestTyped DEF CallInv, CallsTyped
  <2> HIDE DEF c
  <2> QED BY <2>1, <2>2, RestTyped DEF CallInv, CallsTyped
<1>4. Answered(job, told, host.changes)
      BY DEF Return
<1>5. \E s : Ended(job, s)
  <2>1. CASE told # "returned" \/ peers[job].at = "fill"
        BY <1>1, <1>4, <2>1, EndedOtherwise
  <2>2. CASE told = "returned" /\ peers[job].at = "apply"
    <3> DEFINE s == [peers[job] EXCEPT !.at = "idle", !.outcome = "accepted",
                                       !.reported = host.changes]
    <3>a. Answered(job, "returned", host.changes) /\ peers[job].at = "apply"
          BY <1>4, <2>2
    <3>1. peers' = [peers EXCEPT ![job] = s]
      <4>1. peers' = [peers EXCEPT ![job] =
                         [@ EXCEPT !.at = "idle", !.outcome = "accepted",
                                   !.reported = host.changes]]
            BY <1>1, <3>a, AnsweredApply
      <4> QED BY <4>1
    <3>2. ~host.failure
          BY <2>2
    <3>3. host.changes = peers[job].wrote /\ peers[job].asked = peers[job].wrote
          BY <1>1, <2>2, <3>2 DEF CallInv, KeptOfTheCall
    <3>4. /\ s \in PeerState /\ s.at = "idle"
          /\ s.reported = s.wrote /\ s.wrote = s.asked
          BY <1>1, <3>3 DEF PeerState, CallInv, CallsTyped
    <3> HIDE DEF s
    <3>5. Ended(job, s)
          BY <3>1, <3>4 DEF Ended
    <3> QED BY <3>5
  <2> QED BY <1>1, <2>1, <2>2
<1> HIDE DEF packed, content, told
<1>6. PICK s : Ended(job, s)
      BY <1>5
<1> QED BY <1>1, <1>2, <1>3, <1>6, EndKeeps DEF Ended

\* A call that ends early leaves at most what the count of those allows for.
LEMMA EndEarlyKeeps ==
    ASSUME MutatorsAssumption, CallInv, NEW kept \in 0..(Buffers + 1), EndEarly(kept)
    PROVE  CallInv'
<1>1. /\ job # Null /\ job \in Peers /\ job' = Null
      /\ peers[job].at \in {"fill", "apply"}
      BY DEF EndEarly, CallInv, LentToTheCall, CallsTyped
<1>2. /\ guest' \in [live : Int, early : Nat]
      /\ guest'.live <= (Buffers + 1) * guest'.early
  <2>1. /\ guest \in [live : Int, early : Nat]
        /\ guest.live <= (Buffers + 1) * guest.early + Buffers
        BY <1>1 DEF CallInv, CallsTyped, BuffersGivenBack
  <2>2. guest' = [guest EXCEPT !.live = guest.live - Buffers + kept,
                               !.early = guest.early + 1]
        BY DEF EndEarly
  <2>a. guest.live - Buffers + kept \in Int /\ guest.early + 1 \in Nat
        BY <2>1 DEF Buffers
  <2>3. /\ guest'.live = guest.live - Buffers + kept
        /\ guest'.early = guest.early + 1
        /\ guest' \in [live : Int, early : Nat]
        BY <2>1, <2>2, <2>a
  <2>4. kept \in Int /\ kept <= Buffers + 1
        BY DEF Buffers
  <2> QED BY <2>1, <2>3, <2>4 DEF Buffers
<1>3. /\ host' \in [conn : Peers \cup {Null}, failure : BOOLEAN, changes : Seq(Row)]
      /\ host'.conn = Null
      BY RestTyped DEF EndEarly, CallInv, CallsTyped
<1>4. PICK s : Ended(job, s)
      BY <1>1, EndedOtherwise DEF EndEarly
<1> QED BY <1>1, <1>2, <1>3, <1>4, EndKeeps DEF Ended

LEMMA PanicKeeps == ASSUME MutatorsAssumption, CallInv, Panic PROVE CallInv'
<1>1. /\ job # Null /\ job \in Peers /\ job' = Null
      /\ peers[job].at \in {"fill", "apply"}
      BY DEF Panic, CallInv, LentToTheCall, CallsTyped
<1>2. /\ guest' \in [live : Int, early : Nat]
      /\ guest'.live <= (Buffers + 1) * guest'.early
      BY FreshTyped DEF Panic, Buffers
<1>3. /\ host' \in [conn : Peers \cup {Null}, failure : BOOLEAN, changes : Seq(Row)]
      /\ host'.conn = Null
      BY RestingTyped, RestingFields DEF Panic
<1>4. PICK s : Ended(job, s)
      BY <1>1, EndedOtherwise DEF Panic
<1> QED BY <1>1, <1>2, <1>3, <1>4, EndKeeps DEF Ended

LEMMA StepKeeps ==
    ASSUME MutatorsAssumption, CallInv, [Next]_vars PROVE CallInv'
<1>1. CASE UNCHANGED vars
      BY <1>1 DEF vars, CallInv, CallsTyped, LentToTheCall, KeptOfTheCall,
                  BuffersGivenBack, ReportedIsWritten
<1>2. CASE Next
      BY <1>2, LoadKeeps, AskKeeps, ApplyKeeps, UnservedKeeps, BeginKeeps, PutKeeps,
         PutNowhereKeeps, ReturnKeeps, EndEarlyKeeps, PanicKeeps DEF Next
<1> QED BY <1>1, <1>2

----------------------------------------------------------------------------
(* The theorems *)

\* Every reachable state of a module's calls satisfies CallInv: one call at a
\* time, on a live module, with the connection out for the apply under way alone.
THEOREM CallsHold == Spec => []CallInv
<1>1. Init => CallInv
      BY InitInv, MutatorsAssumption
<1>2. CallInv /\ [Next]_vars => CallInv'
      BY StepKeeps, MutatorsAssumption
<1> QED BY <1>1, <1>2, PTL DEF Spec

\* However many peers call and however their calls end, a host function that
\* follows the pointer finds the connection of a peer that waits inside apply.
THEOREM LentIsGood == Spec => []LentWhileWaiting
<1>1. CallInv => LentWhileWaiting
      BY DEF CallInv, LentToTheCall, LentWhileWaiting
<1> QED BY <1>1, CallsHold, PTL

\* An accepted apply reported to its view the rows it wrote, all of them and no
\* other call's, whatever the calls before it left in the host.
THEOREM ReportsHold == Spec => []ReportedIsWritten
<1>1. CallInv => ReportedIsWritten
      BY DEF CallInv
<1> QED BY <1>1, CallsHold, PTL

\* What an instance keeps of the host's buffers is what calls that ended early left
\* in it: whatever came before, a call that runs to its end leaves none.
THEOREM BuffersHold == Spec => []BuffersGivenBack
<1>1. CallInv => BuffersGivenBack
      BY DEF CallInv
<1> QED BY <1>1, CallsHold, PTL
=============================================================================
