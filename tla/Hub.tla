-------------------------------- MODULE Hub ---------------------------------
(***************************************************************************)
(* The server behind a lock, and the tasks that serve its connections, in  *)
(* the two transports there are: crates/petros-axum, with sockets and the  *)
(* peers the server stands in for, and transport/ws.rs of crates/petros.   *)
(*                                                                         *)
(* A task takes the lock, has the server handle one message, takes all of  *)
(* the outbox, lets go of the lock, and only then delivers what it took:   *)
(* other tasks run in between.  The log's own frames are left out (they    *)
(* are PetrosSync's); so a message here is a Hello, a Say or a ping.       *)
(* ws.rs differs in what it does without: it has no standing peers, keeps  *)
(* a connection that was denied or whose message failed, and collects      *)
(* nothing when one goes; its one thread reads, writes and counts pings.   *)
(***************************************************************************)
EXTENDS LiveRooms

CONSTANTS
    Transports, \* "axum", "ws"
    Kinds,      \* of connection: "socket", "standing", "local"
    Faults,     \* what goes wrong: "read" and "write" of the database for a
                \* "socket" or for "another", "deny", "crash", "sleep"
    MaxFaults,
    Missed      \* MISSED

VARIABLES
    transport, \* the one this behaviour is about
    server,    \* the Server, see LiveRooms
    sinks,     \* where frames for a connection go: `peers` and `standing`
    kind,      \* what each connection is
    task,      \* what the task, or the caller, of each connection is doing
    taken,     \* what it took out of the outbox and has still to deliver
    link,      \* the other end: "open", "asleep" or "closed"
    quiet,     \* pings it has not answered
    faults,    \* how many there have been
    said,      \* history: the last word in each room
    proved,    \* history: the rooms each connection proved it belongs in
    refused    \* history: connections whose last Hello proved nothing

vars == <<transport, server, sinks, kind, task, taken, link, quiet, faults, said, proved, refused>>
history == <<transport, said, proved, refused>>

ASSUME HubAssumption ==
    /\ Transports \subseteq {"axum", "ws"}
    /\ Kinds \subseteq {"socket", "standing", "local"}
    /\ Null \notin {"socket", "standing", "local"}
    /\ MaxFaults \in Nat /\ Missed \in Nat

Fault(f) == f \in Faults /\ faults < MaxFaults /\ faults' = faults + 1

\* At most one call of the database fails in this handler.
OneOf(calls) == {{}} \cup {{call} : call \in calls}

Failing(c, failing) ==
    \/ failing = {} /\ UNCHANGED faults
    \/ /\ failing # {}
       /\ IF kind[c] = "socket" THEN "socket" \in Faults ELSE "another" \in Faults
       /\ Fault(IF failing = {"read"} THEN "read" ELSE "write")

----------------------------------------------------------------------------
(* A handler under the lock *)

\* take_outgoing: everything in the outbox, whoever it is for.
Collect(c, s, next) ==
    /\ server' = [s EXCEPT !.out = {}, !.ok = TRUE]
    /\ taken' = [taken EXCEPT ![c] = s.out]
    /\ task' = [task EXCEPT ![c] = next]

\* A handler that fails: the outbox is left as it is.
Fail(c, s, next) ==
    /\ server' = [s EXCEPT !.ok = TRUE]
    /\ task' = [task EXCEPT ![c] = next]
    /\ UNCHANGED taken

\* A socket of the transport that looks at what became of its messages.
Watched(c) == kind[c] = "socket" /\ transport = "axum"

\* route, for a socket: an error ends the task.  exchange and say, for the
\* others, and the route of ws.rs: it is nobody's to see.
Route(c, s) ==
    IF s.ok THEN Collect(c, s, "delivering")
    ELSE Fail(c, s, IF Watched(c) THEN "leaving" ELSE "ready")

Hears(c) == task[c] = "ready" /\ link[c] = "open"

HandleHello(c) ==
    /\ Hears(c) /\ kind[c] # "standing"
    /\ \E who \in Proofs, keeps \in SUBSET {"part", "join"},
         failing \in OneOf({"part", "close", "read", "join"}) :
          LET s == Hello(server, c, who, keeps, failing)
          IN  /\ Failing(c, failing)
              /\ Route(c, s)
              /\ proved' = [proved EXCEPT ![c] = @ \cup {Peer(c, who).room}]
    /\ refused' = refused \ {c}
    /\ UNCHANGED <<transport, quiet, sinks, kind, link, said>>

DenyHello(c) ==
    /\ Hears(c) /\ kind[c] # "standing"
    /\ ~Trusting
    /\ Fault("deny")
    /\ Route(c, Deny(server, c))
    /\ refused' = refused \cup {c}
    /\ UNCHANGED <<transport, quiet, sinks, kind, link, said, proved>>

HandleSay(c) ==
    /\ Hears(c)
    /\ \E val \in Values \cup {Null}, keeps \in SUBSET {"say"}, failing \in OneOf({"say"}) :
          /\ Failing(c, failing)
          /\ Route(c, Say(server, c, val, keeps, failing))
          /\ said' = IF c \notin DOMAIN server.roster THEN said
                     ELSE [said EXCEPT ![server.roster[c].room] = val]
    /\ UNCHANGED <<transport, quiet, sinks, kind, link, proved, refused>>

----------------------------------------------------------------------------
(* Delivering *)

\* The last of a connection: a standing peer's sink, and the socket itself.
Over(c, last) ==
    /\ sinks' = IF last THEN sinks \ {c} ELSE sinks
    /\ link' = IF last THEN [link EXCEPT ![c] = "closed"] ELSE link
    /\ quiet' = IF last THEN [quiet EXCEPT ![c] = 0] ELSE quiet

Turned(c) == Denied(c) \in taken[c]

\* Mutant: the task never looks at what it delivers.
DeliverBlind(c) ==
    /\ task[c] \in {"delivering", "parting"}
    /\ task' = [task EXCEPT ![c] = IF @ = "parting" THEN "done" ELSE "ready"]
    /\ taken' = [taken EXCEPT ![c] = {}]
    /\ Over(c, task[c] = "parting")
    /\ UNCHANGED <<server, kind, faults, history>>

\* deliver: to whatever carries each connection, in one go.  A denial of its
\* own is the last thing a socket's task delivers before it leaves.
Deliver(c) ==
    /\ task[c] \in {"delivering", "parting"}
    /\ task' = [task EXCEPT ![c] =
                  CASE @ = "parting" -> "done"
                    [] @ = "delivering" /\ Watched(c) /\ Turned(c) -> "leaving"
                    [] OTHER -> "ready"]
    /\ taken' = [taken EXCEPT ![c] = {}]
    /\ Over(c, task[c] = "parting")
    /\ UNCHANGED <<server, kind, faults, history>>

----------------------------------------------------------------------------
(* The life of a connection *)

\* The next id of the one counter.
New(c, k) ==
    /\ k \in Kinds /\ (transport = "ws" => k = "socket")
    /\ task[c] = "none"
    /\ \A d \in Conns : d < c => task[d] # "none"
    /\ kind' = [kind EXCEPT ![c] = k]

\* serve: a socket is opened.  local: an id for a peer that has none.
Accept(c) ==
    /\ \E k \in {"socket", "local"} :
          /\ New(c, k)
          /\ sinks' = IF k = "socket" THEN sinks \cup {c} ELSE sinks
    /\ task' = [task EXCEPT ![c] = "ready"]
    /\ link' = [link EXCEPT ![c] = "open"]
    /\ UNCHANGED <<server, taken, quiet, faults, history>>

\* stand: the sink is there before the peer is, and stays if it is refused.
StandIn(c) ==
    /\ New(c, "standing")
    /\ sinks' = sinks \cup {c}
    /\ link' = [link EXCEPT ![c] = "open"]
    /\ \E who \in Identities, keeps \in SUBSET {"join"}, failing \in OneOf({"read", "join"}) :
          LET s == Stand(server, c, who, keeps, failing)
          IN  /\ Failing(c, failing)
              /\ IF s.ok THEN Collect(c, s, "delivering") ELSE Fail(c, s, "done")
              /\ proved' = [proved EXCEPT ![c] = @ \cup {who.user}]
    /\ UNCHANGED <<transport, quiet, said, refused>>

\* The other end closes, cleanly or not, and the reader sees the stream end.
\* When it did so while the task was busy makes no difference to the task.
HangUp(c) ==
    /\ kind[c] = "socket" /\ task[c] = "ready" /\ link[c] # "closed"
    /\ link' = [link EXCEPT ![c] = "closed"]
    /\ UNCHANGED <<server, sinks, kind, task, taken, quiet, faults, history>>

EndOfStream(c) ==
    /\ kind[c] = "socket"
    /\ task[c] = "ready" /\ link[c] = "closed"
    /\ task' = [task EXCEPT ![c] = "leaving"]
    /\ UNCHANGED <<server, sinks, kind, taken, link, quiet, faults, history>>

\* The other end is there and says nothing, not even a pong.
FallAsleep(c) ==
    /\ kind[c] = "socket" /\ task[c] = "ready" /\ link[c] = "open"
    /\ Fault("sleep")
    /\ link' = [link EXCEPT ![c] = "asleep"]
    /\ UNCHANGED <<server, sinks, kind, task, taken, quiet, history>>

\* A ping to a peer that does not answer it: one that is awake answers, or
\* closes, before the next.  When too many went unanswered ws.rs breaks its
\* loop, as for a stream that ended.  The writer of petros-axum sends a Close,
\* which a sleeper does not answer either, and the reader goes on waiting.
Beat(c) ==
    /\ kind[c] = "socket" /\ link[c] = "asleep"
    /\ quiet[c] <= Missed
    /\ quiet' = [quiet EXCEPT ![c] = @ + 1]
    /\ link' = IF transport = "ws" /\ quiet[c] = Missed
               THEN [link EXCEPT ![c] = "closed"] ELSE link
    /\ UNCHANGED <<server, sinks, kind, task, taken, faults, history>>

\* The tail of serve: out of peers first, and then out of the server.
Leave(c) ==
    /\ task[c] = "leaving" /\ transport = "axum"
    /\ c \in sinks
    /\ sinks' = sinks \ {c}
    /\ UNCHANGED <<server, kind, task, taken, link, quiet, faults, history>>

\* Mutant: what the departure said is left in the outbox.
PartUncollected(c) ==
    /\ \/ kind[c] = "socket" /\ task[c] = "leaving" /\ c \notin sinks
       \/ kind[c] = "standing" /\ task[c] = "ready"
    /\ \E keeps \in SUBSET {"part"}, failing \in OneOf({"part", "close"}) :
          /\ Failing(c, failing)
          /\ Fail(c, Disconnect(server, c, keeps, failing), "parting")
    /\ UNCHANGED <<sinks, kind, link, quiet, history>>

\* disconnect and what it said, under one lock; the same for unstand.
Part(c) ==
    /\ \/ kind[c] = "socket" /\ task[c] = "leaving" /\ c \notin sinks
       \/ kind[c] = "standing" /\ task[c] = "ready"
    /\ \E keeps \in SUBSET {"part"}, failing \in OneOf({"part", "close"}) :
          /\ Failing(c, failing)
          /\ Collect(c, Disconnect(server, c, keeps, failing), "parting")
    /\ UNCHANGED <<sinks, kind, link, quiet, history>>

\* ws.rs: disconnect, and then out of peers, with nothing delivered.
PartQuietly(c) ==
    /\ task[c] = "leaving" /\ transport = "ws"
    /\ \E keeps \in SUBSET {"part"}, failing \in OneOf({"part", "close"}) :
          /\ Failing(c, failing)
          /\ Fail(c, Disconnect(server, c, keeps, failing), "parting")
    /\ UNCHANGED <<sinks, kind, link, quiet, history>>

\* The process ends; another starts on the same file, with no connections.
Crash ==
    /\ Fault("crash")
    /\ server' = Fresh(server.disk)
    /\ sinks' = {}
    /\ task' = [c \in Conns |-> IF task[c] = "none" THEN "none" ELSE "done"]
    /\ taken' = [c \in Conns |-> {}]
    /\ link' = [c \in Conns |-> IF task[c] = "none" THEN link[c] ELSE "closed"]
    /\ said' = [r \in Rooms |->
                  IF r \in DOMAIN server.disk THEN server.disk[r] ELSE Null]
    /\ UNCHANGED <<transport, kind, quiet, proved, refused>>

----------------------------------------------------------------------------
Init ==
    /\ transport \in Transports
    /\ server = Fresh(Nobody)
    /\ sinks = {}
    /\ kind = [c \in Conns |-> Null]
    /\ task = [c \in Conns |-> "none"]
    /\ taken = [c \in Conns |-> {}]
    /\ link = [c \in Conns |-> "closed"]
    /\ quiet = [c \in Conns |-> 0]
    /\ faults = 0
    /\ said = [r \in Rooms |-> Null]
    /\ proved = [c \in Conns |-> {}]
    /\ refused = {}

\* What a task does by itself, given the processor.
Step(c) == Deliver(c) \/ EndOfStream(c) \/ Leave(c)
           \/ (kind[c] = "socket" /\ Part(c)) \/ PartQuietly(c)

Next ==
    \/ \E c \in Conns :
          \/ Accept(c) \/ StandIn(c) \/ HandleHello(c) \/ DenyHello(c)
          \/ HandleSay(c) \/ Deliver(c) \/ HangUp(c) \/ EndOfStream(c)
          \/ FallAsleep(c) \/ Beat(c) \/ Leave(c) \/ Part(c)
          \/ PartQuietly(c)
    \/ Crash

Fairness == \A c \in Conns : WF_vars(Step(c)) /\ WF_vars(Beat(c))

Spec == Init /\ [][Next]_vars /\ Fairness

----------------------------------------------------------------------------
(* Properties *)

Tasks == {"none", "ready", "delivering", "leaving", "parting", "done"}

Frames == server.out \cup UNION {taken[c] : c \in Conns}

TypeOK ==
    /\ DOMAIN server.conns \subseteq Conns /\ DOMAIN server.roster \subseteq Conns
    /\ \A c \in DOMAIN server.roster : server.roster[c].conn = c
    /\ server.woken \subseteq Rooms /\ server.ok
    /\ DOMAIN server.app \subseteq Rooms /\ DOMAIN server.disk \subseteq Rooms
    /\ \A f \in Frames : f.to \in Conns
    /\ sinks \subseteq Conns /\ refused \subseteq Conns
    /\ kind \in [Conns -> Kinds \cup {Null}] /\ task \in [Conns -> Tasks]
    /\ link \in [Conns -> {"open", "asleep", "closed"}]
    /\ faults \in 0..MaxFaults

\* The app's machine is told of every arrival and departure, once: whoever it
\* thinks is in a room is who the roster says is (Live::join, Live::part).
ToldOfEverybody == ToldOf(server)

\* The last word in a room: the machine's, or what was written down.
Word(s, r) ==
    IF r \in DOMAIN s.app THEN s.app[r].val
    ELSE IF r \in DOMAIN s.disk THEN s.disk[r] ELSE Null

\* A room is its last word, whoever comes and goes and however often it
\* empties: in memory while it is open and on disk otherwise (`Live`).
RoomContinues == \A r \in Rooms : said[r] = Word(server, r)

\* Nothing crosses between rooms: a frame of a room is only ever on its way to
\* a connection that proved it belongs there (the header of live.rs).
NothingCrosses ==
    \A f \in Frames : f.type = "Heard" => f.room \in proved[f.to]

\* What the server said is never left in the outbox for somebody to speak:
\* a task that did not take it is about to come back for it (serve).
OutboxCollected ==
    \/ transport = "ws"
    \/ server.out = {}
    \/ \E c \in Conns : task[c] = "leaving"

\* A connection that was turned away says nothing in any room (Server::deny):
\* the roster still has it, and its task leaves before it is heard again.
DeniedIsNobody == transport = "axum" => \A c \in refused : ~Hears(c)

\* A connection whose other end is gone leaves its room, and in ws.rs so does
\* one that is only silent.
GoneIsGone ==
    \A c \in Conns :
        (link[c] = "closed" \/ (link[c] = "asleep" /\ transport = "ws"))
            ~> c \notin DOMAIN server.roster

\* Violated: a server leaves a connection whose peer says nothing on its own,
\* and does not go on believing a device is listening (MISSED, serve).
SilentIsGone ==
    \A c \in Conns : link[c] = "asleep" ~> c \notin DOMAIN server.roster

----------------------------------------------------------------------------
(* Why they hold *)

IsServer(s) == DOMAIN s = {"conns", "roster", "woken", "app", "disk", "out", "ok"}

\* Who is in a room proved it, and its snapshot has been offered.
RosterKept(s, pr) ==
    /\ s.roster = [c \in DOMAIN s.roster |-> s.roster[c]]
    /\ \A c \in DOMAIN s.roster :
          /\ c \in Conns /\ s.roster[c].conn = c
          /\ s.roster[c].room \in pr[c] \cap s.woken

\* What waits to be collected is for whom it may be.
OutKept(fs, pr) ==
    \A f \in fs : f.to \in Conns /\ (f.type = "Heard" => f.room \in pr[f.to])

AppKept(s) ==
    /\ s.app = [r \in DOMAIN s.app |-> s.app[r]]
    /\ \A r \in DOMAIN s.app : s.app[r] = [val |-> s.app[r].val, peers |-> s.app[r].peers]

RoomsKept(s, pr) ==
    IsServer(s) /\ RosterKept(s, pr) /\ OutKept(s.out, pr) /\ AppKept(s) /\ ToldOf(s)

\* A room is what was said in it.  One whose snapshot was offered is open, but
\* for `new`, in which nothing was ever said.
Continues(s, sd, new) ==
    /\ DOMAIN s.app \subseteq s.woken /\ s.woken \subseteq DOMAIN s.app \cup new
    /\ new \cap DOMAIN s.disk \subseteq DOMAIN s.app
    /\ \A r \in Rooms : sd[r] = Word(s, r)

\* What tasks have taken and still have to deliver, likewise.
TakenKept(tk, pr) ==
    tk = [c \in Conns |-> tk[c]] /\ \A c \in Conns : OutKept(tk[c], pr)

\* Between two steps the rooms are in order, whoever is about to deliver what.
HubInv ==
    /\ RoomsKept(server, proved) /\ server.ok = TRUE
    /\ TakenKept(taken, proved)
    /\ proved = [c \in Conns |-> proved[c]]

\* The tasks: one that runs is that of some kind of connection.
TaskShape ==
    /\ transport \in {"axum", "ws"}
    /\ task = [c \in Conns |-> task[c]] /\ kind = [c \in Conns |-> kind[c]]
    /\ \A c \in Conns : IF task[c] = "none" THEN kind[c] = Null ELSE kind[c] \in Kinds
=============================================================================
