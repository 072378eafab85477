------------------------------ MODULE Mutators ------------------------------
(***************************************************************************)
(* The domain as a module a peer loads: crates/petros-wasm-host, the half  *)
(* of it that petros-wasm-guest puts inside the module, and the payload of *)
(* crates/petros/src/foreign.rs that calls it.  One module per process,    *)
(* behind a lock that a call reads and a load writes; one thread and one   *)
(* instance per module, on which calls take their turn.  A call lends its  *)
(* connection to that thread as a raw pointer and waits.                   *)
(*                                                                         *)
(* A row written is the caller and its count; what a question and its      *)
(* answer hold is not looked at.  The guest takes an answer before it does *)
(* anything else, so the two are one step.                                 *)
(***************************************************************************)
EXTENDS Integers, Sequences

CONSTANTS
    Peers,       \* the threads that author and replay
    Modules,     \* what may be loaded: [passes, mistyped, does]
    MaxWrites,   \* bound: the writes of one apply
    MaxLoads,    \* bound: the loads, good and bad
    MaxCalls,    \* bound: what the peers ask for
    Null

ASSUME MutatorsAssumption ==
    /\ \A m \in Modules : m.passes \in BOOLEAN
    /\ {MaxWrites, MaxLoads, MaxCalls} \subseteq Nat
    /\ Null \notin Peers

VARIABLES
    slot,    \* MUTATORS: Null, or what is loaded, its generation, and whether
             \* its thread is alive
    host,    \* HostState: conn, failure and changes
    guest,   \* the instance: the buffers the host was given and has not freed,
             \* and how many calls ended before the last free_bytes of theirs
    job,     \* the call the thread is in: Null or the peer it is for
    peers,   \* what each peer is at, and how its last apply ended
    loads,
    calls

vars == <<slot, host, guest, job, peers, loads, calls>>

\* A peer whose last apply left nothing, and how it ended.
Blank(at, outcome, why) ==
    [at |-> at, asked |-> <<>>, wrote |-> <<>>, reported |-> <<>>,
     outcome |-> outcome, why |-> why]

\* Inside MUTATORS.read().
Reading(p) == peers[p].at \in {"fill", "apply"}

----------------------------------------------------------------------------
(* load: the slot, with the write lock held *)

Fresh == [live |-> 0, early |-> 0]
Resting == [conn |-> Null, failure |-> FALSE, changes |-> <<>>]

\* A module that will not compile, lacks an export or speaks another ABI is an
\* error, and what was running goes on.  Of what the exports are, load looks at
\* petros_alloc and petros_abi_version only.
Load(m) ==
    /\ \A p \in Peers : ~Reading(p)
    /\ loads < MaxLoads
    /\ loads' = loads + 1
    /\ IF m.passes
       THEN /\ slot' = [module |-> m, alive |-> TRUE,
                        generation |-> IF slot = Null THEN 1 ELSE slot.generation + 1]
            /\ host' = Resting
            /\ guest' = Fresh
       ELSE UNCHANGED <<slot, host, guest>>
    /\ UNCHANGED <<job, peers, calls>>

----------------------------------------------------------------------------
(* ForeignPayload: what a peer asks for, and what it makes of the answer *)

\* mutate fills the entry and then applies it, each under a lock of its own;
\* a rebase applies an entry that was filled long ago.
Ask(p, what) ==
    /\ peers[p].at = "idle"
    /\ calls < MaxCalls
    /\ calls' = calls + 1
    /\ peers' = [peers EXCEPT ![p] = Blank(what, "none", "none")]
    /\ UNCHANGED <<slot, host, guest, job, loads>>

\* What a peer makes of the end of its call: the entry is applied whatever came
\* of filling it, and every failure of an apply is a refusal of the entry, whose
\* savepoint is rolled back.
Answered(p, end, reported) ==
    peers' = [peers EXCEPT ![p] =
        CASE peers[p].at = "fill" -> Blank("between", "none", "none")
          [] peers[p].at = "apply" /\ end = "returned" ->
                [@ EXCEPT !.at = "idle", !.outcome = "accepted", !.reported = reported]
          [] peers[p].at = "apply" /\ end # "returned" ->
                Blank("idle", "rejected", IF end = "refused" THEN "app" ELSE "host")]

Apply(p) ==
    /\ peers[p].at = "between"
    /\ peers' = [peers EXCEPT ![p].at = "apply"]
    /\ UNCHANGED <<slot, host, guest, job, loads, calls>>

\* No module, or one whose thread is gone.
Unserved(p) ==
    /\ Reading(p)
    /\ IF slot = Null THEN TRUE ELSE ~slot.alive
    /\ Answered(p, "unserved", <<>>)
    /\ UNCHANGED <<slot, host, guest, job, loads, calls>>

----------------------------------------------------------------------------
(* A call, on the thread *)

Buffers == 2   \* the payload, and the context or the uuid

\* Mutant: what an earlier apply left is not cleared.
BeginOnTop(p) ==
    /\ Reading(p)
    /\ job = Null
    /\ slot # Null
    /\ slot.alive
    /\ job' = p
    /\ host' = [host EXCEPT !.conn = IF peers[p].at = "apply" THEN p ELSE Null,
                            !.failure = FALSE]
    /\ guest' = [guest EXCEPT !.live = @ + Buffers]
    /\ UNCHANGED <<slot, peers, loads, calls>>

\* run and write_bytes: the connection is lent to an apply, and to nothing else.
Begin(p) ==
    /\ Reading(p)
    /\ job = Null
    /\ slot # Null
    /\ slot.alive
    /\ job' = p
    /\ host' = [conn |-> IF peers[p].at = "apply" THEN p ELSE Null,
                failure |-> FALSE,
                changes |-> IF peers[p].at = "apply" THEN <<>> ELSE host.changes]
    /\ guest' = [guest EXCEPT !.live = @ + Buffers]
    /\ UNCHANGED <<slot, peers, loads, calls>>

\* The entry point the call is for has the type the host asks of it, which is
\* looked up once the buffers are written.
Runs == job # Null /\ peers[job].at \notin slot.module.mistyped

Does(what) == Runs /\ what \in slot.module.does

\* host_store, for a put that goes through: it reaches the connection that was
\* lent, and what it changed is kept for the length of the apply.  A put that
\* the database refuses is not a step: the guest hears of it and goes on.
Put ==
    /\ Does("write")
    /\ host.conn # Null
    /\ Len(peers[job].asked) < MaxWrites
    /\ LET p == host.conn
           row == <<p, Len(peers[p].wrote) + 1>>
       IN  /\ peers' = [peers EXCEPT ![p].wrote = Append(@, row),
                                     ![job].asked = Append(@, row)]
           /\ host' = [host EXCEPT !.changes = Append(@, row)]
    /\ UNCHANGED <<slot, guest, job, loads, calls>>

\* A request that cannot be read, or any request of a fill: the failure is kept
\* and the guest hears nothing, which is what it hears of a write that went
\* through.
PutNowhere ==
    /\ Does("misspeak") \/ (Does("write") /\ host.conn = Null)
    /\ Len(peers[job].asked) < MaxWrites
    /\ host' = [host EXCEPT !.failure = TRUE]
    /\ peers' = [peers EXCEPT ![job].asked = Append(@, <<job, 0>>)]
    /\ UNCHANGED <<slot, guest, job, loads, calls>>

----------------------------------------------------------------------------
(* The end of a call *)

\* Mutant: the context is not given back.
FreedOfPayload(returned) == 1 + returned

\* free_bytes: both buffers, and what the guest packed.
Freed(returned) == Buffers + returned

\* Mutant: the connection stays where it was until the next call.
RestLending(h) == [h EXCEPT !.failure = FALSE]

\* What the thread clears before it replies.
Rest(h) == [h EXCEPT !.conn = Null, !.failure = FALSE]

\* The guest returns, with a packed buffer or, from an apply that is content,
\* with none.  A failure of the host takes the place of what it says.
Return(end) ==
    LET packed == IF end = "refused" \/ peers[job].at = "fill" THEN 1 ELSE 0
        content == end = "returned" /\ peers[job].at = "apply"
    IN  /\ Runs
        /\ end = "refused" => Does("refuse") /\ peers[job].at = "apply"
        /\ guest' = [guest EXCEPT !.live = @ + packed - Freed(packed)]
        /\ host' = [Rest(host) EXCEPT !.changes = IF content THEN <<>> ELSE @]
        /\ Answered(job, IF host.failure THEN "failed" ELSE end, host.changes)
        /\ job' = Null
        /\ UNCHANGED <<slot, loads, calls>>

\* It ends in an error, and with the error comes no free_bytes: the entry point is
\* mistyped; the guest traps; its memory cannot be written or read where it says,
\* or a free fails, which leaves what had not been freed by then.
EndEarly(kept) ==
    /\ job # Null
    /\ Runs => Does("trap") \/ Does("misplace")
    /\ ~Runs => kept = Buffers
    /\ guest' = [guest EXCEPT !.live = @ - Buffers + kept, !.early = @ + 1]
    /\ host' = Rest(host)
    /\ Answered(job, "failed", <<>>)
    /\ job' = Null
    /\ UNCHANGED <<slot, loads, calls>>

\* A panic of the host's own ends the thread, and its instance with it.
Panic ==
    /\ job # Null
    /\ slot' = [slot EXCEPT !.alive = FALSE]
    /\ host' = Resting
    /\ guest' = Fresh
    /\ Answered(job, "panicked", <<>>)
    /\ job' = Null
    /\ UNCHANGED <<loads, calls>>

Init ==
    /\ slot = Null
    /\ host = Resting
    /\ guest = Fresh
    /\ job = Null
    /\ peers = [p \in Peers |-> Blank("idle", "none", "none")]
    /\ loads = 0
    /\ calls = 0

Next ==
    \/ \E m \in Modules : Load(m)
    \/ \E p \in Peers, what \in {"fill", "apply"} : Ask(p, what)
    \/ \E p \in Peers : Apply(p) \/ Unserved(p) \/ Begin(p)
    \/ Put
    \/ PutNowhere
    \/ \E end \in {"returned", "refused"} : Return(end)
    \/ \E kept \in 0..(Buffers + 1) : EndEarly(kept)
    \/ Panic

Spec == Init /\ [][Next]_vars

----------------------------------------------------------------------------
(* Properties *)

\* The pointer is good: whenever a host function could follow it, the peer that
\* lent the connection is inside that apply and waits (the SAFETY notes).
LentWhileWaiting ==
    host.conn # Null => host.conn = job /\ peers[host.conn].at = "apply"

\* An apply that was accepted reported, for its view, the rows it wrote and no
\* other call's, and wrote all that the module believes it wrote.
ReportedIsWritten ==
    \A p \in Peers : peers[p].outcome = "accepted" =>
        peers[p].reported = peers[p].wrote /\ peers[p].wrote = peers[p].asked

\* A call that runs to its end leaves no buffer of the host's in the instance,
\* whatever the calls before it left: what the instance holds climbs with the
\* calls that ended early, by what a call is written and answers at the most, and
\* not with the number of calls (memory_pages).
BuffersGivenBack ==
    guest.live <= (Buffers + 1) * guest.early + IF job = Null THEN 0 ELSE Buffers

\* Not so: a refusal is a verdict of the app's.
RefusalIsApps == \A p \in Peers : peers[p].outcome = "rejected" => peers[p].why = "app"

----------------------------------------------------------------------------
(* Why they hold *)

Row == Peers \X Nat

PeerState == [at : {"idle", "fill", "between", "apply"},
              asked : Seq(Row), wrote : Seq(Row), reported : Seq(Row),
              outcome : {"none", "accepted", "rejected"},
              why : {"none", "app", "host"}]

CallsTyped ==
    /\ host \in [conn : Peers \cup {Null}, failure : BOOLEAN, changes : Seq(Row)]
    /\ guest \in [live : Int, early : Nat]
    /\ job \in Peers \cup {Null}
    /\ peers \in [Peers -> PeerState]

\* A call is served by a module that is there and alive; the connection is out for
\* the apply that is under way, and for nothing else.
LentToTheCall ==
    /\ job = Null => host.conn = Null
    /\ job # Null => /\ slot # Null /\ slot.alive
                     /\ peers[job].at \in {"fill", "apply"}
                     /\ host.conn = IF peers[job].at = "apply" THEN job ELSE Null

\* An apply that has not begun asked for nothing; of one under way the host has
\* kept what it wrote, which is what it asked for unless the host failed it.
KeptOfTheCall ==
    \A p \in Peers :
        /\ peers[p].at # "idle" => peers[p].outcome = "none"
        /\ peers[p].at \in {"between", "apply"} /\ job # p =>
              peers[p].asked = <<>> /\ peers[p].wrote = <<>>
        /\ peers[p].at = "apply" /\ job = p =>
              /\ host.changes = peers[p].wrote
              /\ ~host.failure => peers[p].asked = peers[p].wrote

CallInv == CallsTyped /\ LentToTheCall /\ KeptOfTheCall /\ BuffersGivenBack /\ ReportedIsWritten
=============================================================================
