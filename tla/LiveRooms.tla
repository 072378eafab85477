----------------------------- MODULE LiveRooms ------------------------------
(***************************************************************************)
(* The realtime half of the server: the roster of crates/petros/live.rs     *)
(* and the handlers of server.rs that keep it (recv of Hello and Say,      *)
(* stand, unstand, disconnect).  Each runs whole, under the lock its       *)
(* callers hold, so each is an operator on the server's state s:           *)
(*   conns   who each connection proved to be, by its last accepted Hello  *)
(*   roster  the peer on each connection that is in a room                 *)
(*   woken   the rooms whose snapshot has been offered                     *)
(*   app     the app's machine: what it holds of each open room            *)
(*   disk    the rows of petros_live                                       *)
(*   out     what the server has said and nobody has collected: frames in  *)
(*           no order, since a task delivers them when it gets to it       *)
(*   ok      whether the handler returned without an error                 *)
(* Of a handler's arguments `keeps` says after which of its calls the app  *)
(* asks for the room to be written down, and `failing` which call of the   *)
(* database fails: the "read" when a room is opened, the write when it is  *)
(* to "close", or the one asked for after a "join", a "part" or a "say".   *)
(*                                                                         *)
(* The app's machine is external, a small one of the kind `Live` is for: a *)
(* room holds the last thing said in it and who is there, a newcomer is    *)
(* told the one, and the room is told again when somebody speaks or goes.  *)
(***************************************************************************)
EXTENDS Naturals, FiniteSets

CONSTANTS
    Conns,       \* ConnId: the connections of one run of the server
    Identities,  \* [user, session]: what a token can prove
    Trusting,    \* nobody is asked who they are
    Anyone,      \* the one room of a server that asks nobody
    Values,      \* what can be said in a room
    Null

ASSUME LiveAssumption ==
    /\ Conns \subseteq Nat
    /\ \A i \in Identities : i = [user |-> i.user, session |-> i.session]
    /\ Trusting \in BOOLEAN
    /\ Anyone \notin {i.user : i \in Identities}
    /\ Null \notin Values /\ Null \notin Identities

Rooms == {i.user : i \in Identities} \cup {Anyone}
Proofs == IF Trusting THEN {Null} ELSE Identities

Nobody == [c \in {} |-> Null]
Put(f, x, v) == [y \in DOMAIN f \cup {x} |-> IF y = x THEN v ELSE f[y]]
Drop(f, x) == [y \in DOMAIN f \ {x} |-> f[y]]

\* Peer::of and Peer::anon.
Peer(c, who) ==
    IF who = Null THEN [conn |-> c, room |-> Anyone, who |-> c]
    ELSE [conn |-> c, room |-> who.user, who |-> who.session]

Fresh(disk) ==
    [conns |-> Nobody, roster |-> Nobody, woken |-> {}, app |-> Nobody,
     disk |-> disk, out |-> {}, ok |-> TRUE]

Failed(s) == [s EXCEPT !.ok = FALSE]

----------------------------------------------------------------------------
(* The roster, and what the machine posts *)

\* Mutant: whoever is on the roster, in whatever room.
InAnyRoom(s, room) == DOMAIN s.roster

In(s, room) == {c \in DOMAIN s.roster : s.roster[c].room = room}

\* What is said is the app's; which room it is said in is all that is kept.
Heard(c, room) == [to |-> c, type |-> "Heard", room |-> room]
Denied(c) == [to |-> c, type |-> "Denied", room |-> Null]

Posted(s, cs, room) == [s EXCEPT !.out = @ \cup {Heard(c, room) : c \in cs}]

Tell(s, room) == Posted(s, In(s, room), room)
TellOne(s, p) ==
    Posted(s, {c \in In(s, p.room) : s.roster[c].who = p.who}, p.room)

Empty == [val |-> Null, peers |-> {}]
Room(s, room) == IF room \in DOMAIN s.app THEN s.app[room] ELSE Empty

\* Mutant: an insert that lets the row there is stand.
KeepFirst(s, room, call, failing) ==
    IF call \in failing THEN Failed(s)
    ELSE IF room \in DOMAIN s.disk THEN s
    ELSE [s EXCEPT !.disk = IF Room(s, room).val = Null THEN @
                            ELSE Put(@, room, Room(s, room).val)]

\* keep: one row for a room, none for one not worth keeping.
Keep(s, room, call, failing) ==
    IF call \in failing THEN Failed(s)
    ELSE [s EXCEPT !.disk = IF Room(s, room).val = Null THEN Drop(@, room)
                            ELSE Put(@, room, Room(s, room).val)]

\* The end of posted, with the frames on their way.
Asked(s, room, call, keeps, failing) ==
    IF call \in keeps THEN Keep(s, room, call, failing) ELSE s

----------------------------------------------------------------------------
(* Arriving and departing *)

\* depart_in: the last one out has the room written down, closed, forgotten.
Depart(s, p, keeps, failing) ==
    LET gone == [s EXCEPT !.roster = Drop(@, p.conn)]
        parted == Tell([gone EXCEPT !.app = Put(@, p.room,
                          [Room(s, p.room) EXCEPT !.peers = @ \ {p.conn}])], p.room)
        asked == Asked(parted, p.room, "part", keeps, failing)
        kept == Keep(asked, p.room, "close", failing)
    IN  IF ~asked.ok \/ In(gone, p.room) # {} THEN asked
        ELSE IF ~kept.ok THEN kept
        ELSE [kept EXCEPT !.app = Drop(@, p.room), !.woken = @ \ {p.room}]

\* first_sight and wake: the snapshot is offered before the first join.
Opened(s, room, failing) ==
    LET seen == [s EXCEPT !.woken = @ \cup {room}]
    IN  IF room \in s.woken THEN s
        ELSE IF "read" \in failing THEN Failed(seen)
        ELSE IF room \in DOMAIN s.disk
        THEN [seen EXCEPT !.app = Put(@, room, [Empty EXCEPT !.val = s.disk[room]])]
        ELSE seen

Join(s, p, keeps, failing) ==
    LET there == [s EXCEPT !.roster = Put(@, p.conn, p),
                           !.app = Put(@, p.room,
                              [Room(s, p.room) EXCEPT !.peers = @ \cup {p.conn}])]
    IN  Asked(TellOne(there, p), p.room, "join", keeps, failing)

\* Mutant: a connection that becomes somebody else stays where it was too.
ArriveTwice(s, p, keeps, failing) ==
    LET opened == Opened(s, p.room, failing)
    IN  IF p.conn \in DOMAIN s.roster /\ s.roster[p.conn] = p THEN s
        ELSE IF ~opened.ok THEN opened ELSE Join(opened, p, keeps, failing)

\* arrive_in: the same peer on the same connection has not moved; another
\* leaves the room it was in first.
Arrive(s, p, keeps, failing) ==
    LET was == {s.roster[c] : c \in DOMAIN s.roster \cap {p.conn}}
        left == IF was = {} THEN s ELSE Depart(s, s.roster[p.conn], keeps, failing)
        opened == Opened(left, p.room, failing)
    IN  CASE was = {p} -> s
          [] was # {p} /\ ~left.ok -> left
          [] was # {p} /\ left.ok /\ ~opened.ok -> opened
          [] OTHER -> Join(opened, p, keeps, failing)

----------------------------------------------------------------------------
(* The handlers *)

Deny(s, c) ==
    [s EXCEPT !.conns = Drop(@, c), !.out = @ \cup {Denied(c)}]

\* recv(Hello) with what its token proves, if it proves anything.
Hello(s, c, who, keeps, failing) ==
    Arrive([s EXCEPT !.conns = Put(@, c, who)], Peer(c, who), keeps, failing)

\* recv(Say): from a peer that is in a room.
Say(s, c, val, keeps, failing) ==
    LET room == s.roster[c].room
        told == Tell([s EXCEPT !.app = Put(@, room, [Room(s, room) EXCEPT !.val = val])],
                     room)
    IN  IF c \notin DOMAIN s.roster THEN s ELSE Asked(told, room, "say", keeps, failing)

Stand(s, c, who, keeps, failing) == Arrive(s, Peer(c, who), keeps, failing)

\* Mutant: the socket is forgotten and the roster is not.
DisconnectConn(s, c, keeps, failing) == [s EXCEPT !.conns = Drop(@, c)]

\* disconnect and unstand: an error of the room is swallowed.
Disconnect(s, c, keeps, failing) ==
    LET cut == [s EXCEPT !.conns = Drop(@, c)]
    IN  IF c \notin DOMAIN s.roster THEN cut
        ELSE [Depart(cut, s.roster[c], keeps, failing) EXCEPT !.ok = TRUE]

----------------------------------------------------------------------------
\* What each peer was told when it arrived and left is who is there.
ToldOf(s) ==
    /\ \A room \in DOMAIN s.app : s.app[room].peers = In(s, room)
    /\ \A c \in DOMAIN s.roster : s.roster[c].room \in DOMAIN s.app
=============================================================================
