----------------------------- MODULE Hub_proofs -----------------------------
(***************************************************************************)
(* The rooms, for any number of connections, users and faults.  First what *)
(* each handler of the server makes of a server whose rooms are in order,  *)
(* as operators on its state; then the hub around it, step by step.        *)
(***************************************************************************)
EXTENDS Hub, TLAPS

----------------------------------------------------------------------------
(* The parts of a handler *)

\* Operators of their own, so that a prover need not look into them.
ToldIn(cs, room) == {Heard(c, room) : c \in cs}
Less(s, p) == [Room(s, p.room) EXCEPT !.peers = @ \ {p.conn}]
WrittenDown(s, room) ==
    IF Room(s, room).val = Null THEN Drop(s.disk, room)
    ELSE Put(s.disk, room, Room(s, room).val)
Closed(k, p) == [k EXCEPT !.app = Drop(@, p.room), !.woken = @ \ {p.room}]

\* A room is told: nothing but the outbox changes.
LEMMA PostedKeeps ==
    ASSUME NEW s, NEW cs, NEW room, IsServer(s)
    PROVE  LET t == Posted(s, cs, room)
           IN  /\ IsServer(t)
               /\ t.conns = s.conns /\ t.roster = s.roster /\ t.woken = s.woken
               /\ t.app = s.app /\ t.disk = s.disk /\ t.ok = s.ok
               /\ t.out = s.out \cup ToldIn(cs, room)
BY DEF IsServer, Posted, ToldIn

\* Who is told a room is in it.
LEMMA HeardKept ==
    ASSUME NEW pr, NEW room, NEW cs, NEW fs, OutKept(fs, pr),
           \A c \in cs : c \in Conns /\ room \in pr[c]
    PROVE  OutKept(fs \cup ToldIn(cs, room), pr)
<1>1. \A c \in cs : Heard(c, room).to = c /\ Heard(c, room).room = room
  BY DEF Heard
<1> QED BY <1>1 DEF OutKept, ToldIn

\* A room is written down, or is not: nothing but the disk changes.
LEMMA KeepKeeps ==
    ASSUME NEW s, NEW room, NEW call, NEW failing, NEW t, t = Keep(s, room, call, failing), IsServer(s)
    PROVE  /\ IsServer(t)
           /\ t.conns = s.conns /\ t.roster = s.roster /\ t.woken = s.woken
           /\ t.app = s.app /\ t.out = s.out
BY DEF IsServer, Keep, Failed

LEMMA KeepWrites ==
    ASSUME NEW s, NEW room, NEW call, NEW failing, NEW t, t = Keep(s, room, call, failing), IsServer(s),
           call \notin failing
    PROVE  t.ok = s.ok /\ t.disk = WrittenDown(s, room)
BY DEF IsServer, Keep, WrittenDown

LEMMA KeepFails ==
    ASSUME NEW s, NEW room, NEW call, NEW failing, NEW t, t = Keep(s, room, call, failing), IsServer(s),
           call \in failing
    PROVE  t.ok = FALSE /\ t.disk = s.disk
BY DEF IsServer, Keep, Failed

\* Written down because it was asked for, if it was.
LEMMA AskedKeeps ==
    ASSUME NEW s, NEW room, NEW call, NEW keeps, NEW failing,
           NEW t, t = Asked(s, room, call, keeps, failing), IsServer(s)
    PROVE  /\ IsServer(t)
           /\ t.conns = s.conns /\ t.roster = s.roster /\ t.woken = s.woken
           /\ t.app = s.app /\ t.out = s.out
           /\ call \notin failing => t.ok = s.ok
<1>1. CASE call \notin keeps
  BY <1>1 DEF Asked
<1>2. CASE call \in keeps
  <2>1. t = Keep(s, room, call, failing)
    BY <1>2 DEF Asked
  <2> QED BY <2>1, KeepKeeps, KeepWrites
<1> QED BY <1>1, <1>2

LEMMA AskedRoomsKeep ==
    ASSUME NEW s, NEW pr, NEW t, RoomsKept(s, pr), IsServer(t),
           t.roster = s.roster, t.woken = s.woken, t.app = s.app, t.out = s.out
    PROVE  RoomsKept(t, pr)
BY DEF RoomsKept, RosterKept, OutKept, AppKept, ToldOf, In

\* What a departure tells, before anything is written down.
Parted(s, p) ==
    Tell([s EXCEPT !.roster = Drop(@, p.conn),
                   !.app = Put(@, p.room, Less(s, p))], p.room)

LEMMA PartedFields ==
    ASSUME NEW s, NEW p, NEW x, x = Parted(s, p), IsServer(s)
    PROVE  /\ IsServer(x)
           /\ x.conns = s.conns /\ x.woken = s.woken
           /\ x.disk = s.disk /\ x.ok = s.ok
           /\ x.roster = Drop(s.roster, p.conn)
           /\ x.app = Put(s.app, p.room, Less(s, p))
           /\ x.out = s.out \cup ToldIn(In(x, p.room), p.room)
<1> DEFINE a == Put(s.app, p.room, Less(s, p))
           o == Drop(s.roster, p.conn)
           u == [s EXCEPT !.roster = o, !.app = a]
<1>0. /\ [s EXCEPT !.roster = Drop(@, p.conn),
                   !.app = Put(@, p.room, Less(s, p))] = u
  OBVIOUS
<1> HIDE DEF a, o
<1>1. /\ IsServer(u)
      /\ u.conns = s.conns /\ u.woken = s.woken /\ u.disk = s.disk
      /\ u.ok = s.ok /\ u.out = s.out
      /\ u.roster = o
      /\ u.app = a
  BY DEF IsServer
<1> HIDE DEF u
<1>2. Parted(s, p) = Posted(u, In(u, p.room), p.room)
  BY <1>0 DEF Parted, Tell
<1> DEFINE t == Posted(u, In(u, p.room), p.room)
<1>3. /\ IsServer(t)
      /\ t.conns = u.conns /\ t.roster = u.roster /\ t.woken = u.woken
      /\ t.app = u.app /\ t.disk = u.disk /\ t.ok = u.ok
      /\ t.out = u.out \cup ToldIn(In(u, p.room), p.room)
  BY <1>1, PostedKeeps
<1>4. In(t, p.room) = In(u, p.room)
  BY <1>3 DEF In
<1> HIDE DEF t
<1>5. x = t
  BY <1>2 DEF t
<1> QED BY <1>1, <1>3, <1>4, <1>5 DEF a, o

\* Somebody leaves the room: those who stay are told.
LEMMA PartedKeeps ==
    ASSUME NEW s, NEW pr, NEW c \in DOMAIN s.roster, RoomsKept(s, pr)
    PROVE  RoomsKept(Parted(s, s.roster[c]), pr)
<1> DEFINE p == s.roster[c]
           t == Parted(s, p)
           r == p.room
           room == Less(s, p)
<1>1. /\ p.conn = c /\ c \in Conns /\ r \in pr[c] /\ r \in s.woken
      /\ r \in DOMAIN s.app /\ s.app[r].peers = In(s, r)
      /\ IsServer(s)
  BY DEF RoomsKept, RosterKept, ToldOf
<1>a. t = Parted(s, p)
  OBVIOUS
<1> HIDE DEF t
<1>2. /\ IsServer(t)
      /\ t.conns = s.conns /\ t.woken = s.woken
      /\ t.roster = Drop(s.roster, c)
      /\ t.app = Put(s.app, r, room)
      /\ t.out = s.out \cup ToldIn(In(t, r), r)
  BY <1>1, <1>a, PartedFields
<1>3. Room(s, r) = s.app[r]
  BY <1>1 DEF Room
<1>4. room = [val |-> s.app[r].val, peers |-> In(s, r) \ {c}]
  <2>1. s.app[r] = [val |-> s.app[r].val, peers |-> In(s, r)]
    BY <1>1 DEF RoomsKept, AppKept
  <2>2. room = [Room(s, r) EXCEPT !.peers = @ \ {p.conn}]
    BY DEF Less
  <2> HIDE DEF room, p
  <2> QED BY <1>1, <1>3, <2>1, <2>2
<1> HIDE DEF room
<1>5. /\ DOMAIN t.roster = DOMAIN s.roster \ {c}
      /\ \A d \in DOMAIN t.roster : t.roster[d] = s.roster[d]
      /\ t.roster = [d \in DOMAIN t.roster |-> t.roster[d]]
  BY <1>2 DEF Drop
<1>6. RosterKept(t, pr)
  BY <1>2, <1>5 DEF RoomsKept, RosterKept
<1>7. OutKept(t.out, pr)
  <2>1. \A d \in In(t, r) : d \in Conns /\ r \in pr[d]
    BY <1>6 DEF In, RosterKept
  <2> QED BY <1>2, <2>1, HeardKept DEF RoomsKept
<1>8. /\ DOMAIN t.app = DOMAIN s.app
      /\ \A q \in DOMAIN t.app : t.app[q] = IF q = r THEN room ELSE s.app[q]
      /\ t.app = [q \in DOMAIN t.app |-> t.app[q]]
  BY <1>1, <1>2 DEF Put
<1>9. AppKept(t)
  BY <1>4, <1>8 DEF RoomsKept, AppKept
<1>10. \A q : In(t, q) = In(s, q) \ {c}
  BY <1>5 DEF In
<1>11. \A q : q # r => c \notin In(s, q)
  BY DEF In
<1>12. ToldOf(t)
  <2>1. \A q \in DOMAIN s.app : s.app[q].peers = In(s, q)
    BY DEF RoomsKept, ToldOf
  <2>2. ASSUME NEW q \in DOMAIN t.app PROVE t.app[q].peers = In(t, q)
    <3>1. CASE q = r
      BY <1>4, <1>8, <1>10, <3>1
    <3>2. CASE q # r
      <4>1. In(t, q) = In(s, q)
        BY <1>10, <1>11, <3>2
      <4>2. q \in DOMAIN s.app /\ t.app[q] = s.app[q]
        BY <1>8, <3>2
      <4> QED BY <2>1, <4>1, <4>2
    <3> QED BY <3>1, <3>2
  <2>3. \A d \in DOMAIN t.roster : t.roster[d].room \in DOMAIN t.app
    BY <1>5, <1>8 DEF RoomsKept, ToldOf
  <2> QED BY <2>2, <2>3 DEF ToldOf
<1> QED BY <1>a, <1>2, <1>6, <1>7, <1>9, <1>12 DEF RoomsKept

\* No call fails.
Fine(failing) == \A call : call \notin failing

\* depart_in, in these words.
LEMMA DepartIs ==
    ASSUME NEW s, NEW p, NEW keeps, NEW failing, NEW t, NEW a, NEW k, IsServer(s),
           t = Parted(s, p), a = Asked(t, p.room, "part", keeps, failing),
           k = Keep(a, p.room, "close", failing)
    PROVE  Depart(s, p, keeps, failing) =
              IF ~a.ok \/ In(t, p.room) # {} THEN a
              ELSE IF ~k.ok THEN k
              ELSE Closed(k, p)
<1> DEFINE gone == [s EXCEPT !.roster = Drop(@, p.conn)]
           u == [s EXCEPT !.roster = Drop(@, p.conn), !.app = Put(@, p.room, Less(s, p))]
<1>1. [gone EXCEPT !.app = Put(@, p.room, Less(s, p))] = u
  BY DEF IsServer
<1>2. In(t, p.room) = In(gone, p.room)
  <2>1. t.roster = Drop(s.roster, p.conn)
    BY PartedFields
  <2>2. gone.roster = Drop(s.roster, p.conn)
    BY DEF IsServer
  <2> QED BY <2>1, <2>2 DEF In
<1>3. t = Tell(u, p.room)
  BY DEF Parted
<1> QED BY <1>1, <1>2, <1>3 DEF Depart, Closed, Less

\* The participant of connection c departs.
Departs(s, c, keeps, failing, d) ==
    c \in DOMAIN s.roster /\ d = Depart(s, s.roster[c], keeps, failing)

LEMMA DepartKeeps ==
    ASSUME NEW s, NEW pr, NEW c, NEW keeps, NEW failing, NEW d,
           Departs(s, c, keeps, failing, d), RoomsKept(s, pr)
    PROVE  /\ RoomsKept(d, pr)
           /\ d.conns = s.conns /\ d.roster = Drop(s.roster, c)
           /\ Fine(failing) => d.ok = s.ok
<1> DEFINE p == s.roster[c]
           t == Parted(s, p)
           asked == Asked(t, p.room, "part", keeps, failing)
           k == Keep(asked, p.room, "close", failing)
           e == Closed(k, p)
<1>0. c \in DOMAIN s.roster /\ d = Depart(s, p, keeps, failing)
  BY DEF Departs
<1> USE <1>0
<1>1. IsServer(s) /\ p.conn = c
  BY DEF RoomsKept, RosterKept
<1>2. RoomsKept(t, pr)
  BY PartedKeeps
<1>a. /\ t = Parted(s, p) /\ asked = Asked(t, p.room, "part", keeps, failing)
      /\ k = Keep(asked, p.room, "close", failing)
  OBVIOUS
<1>b. e = Closed(k, p)
  OBVIOUS
<1> HIDE DEF t, asked, k, e
<1>3. /\ IsServer(t) /\ t.conns = s.conns /\ t.ok = s.ok
      /\ t.roster = Drop(s.roster, c)
  BY <1>1, <1>a, PartedFields
<1>d. /\ IsServer(asked)
      /\ asked.conns = t.conns /\ asked.roster = t.roster /\ asked.woken = t.woken
      /\ asked.app = t.app /\ asked.out = t.out
      /\ Fine(failing) => asked.ok = t.ok
  <2> HIDE DEF p
  <2> QED BY <1>3, <1>a, AskedKeeps DEF Fine
<1>5. /\ IsServer(k)
      /\ k.conns = t.conns /\ k.roster = t.roster /\ k.woken = t.woken
      /\ k.app = t.app /\ k.out = t.out
      /\ Fine(failing) => k.ok = t.ok
  <2> HIDE DEF p
  <2>1. /\ IsServer(k)
        /\ k.conns = asked.conns /\ k.roster = asked.roster /\ k.woken = asked.woken
        /\ k.app = asked.app /\ k.out = asked.out
    BY <1>a, <1>d, KeepKeeps
  <2>2. ASSUME Fine(failing) PROVE k.ok = asked.ok
    BY <1>a, <1>d, <2>2, KeepWrites DEF Fine
  <2> QED BY <1>d, <2>1, <2>2
<1>4. Depart(s, p, keeps, failing) =
         IF ~asked.ok \/ In(t, p.room) # {} THEN asked ELSE IF ~k.ok THEN k ELSE e
  BY <1>1, <1>a, <1>b, DepartIs
<1>6. RoomsKept(asked, pr) /\ RoomsKept(k, pr)
  BY <1>2, <1>5, <1>d, AskedRoomsKeep
<1>7. /\ IsServer(e)
      /\ e.conns = k.conns /\ e.roster = k.roster /\ e.out = k.out /\ e.ok = k.ok
      /\ e.woken = k.woken \ {p.room} /\ e.app = Drop(k.app, p.room)
  <2> DEFINE a == Drop(k.app, p.room)
             w == k.woken \ {p.room}
             x == [k EXCEPT !.app = a, !.woken = w]
  <2>1. x = e
    BY <1>b DEF Closed
  <2> HIDE DEF a, w
  <2>2. /\ IsServer(x)
        /\ x.conns = k.conns /\ x.roster = k.roster /\ x.out = k.out /\ x.ok = k.ok
        /\ x.woken = w /\ x.app = a
    BY <1>5 DEF IsServer
  <2> QED BY <2>1, <2>2 DEF a, w
<1>8. ASSUME In(t, p.room) = {} PROVE RoomsKept(e, pr)
  <2>1. \A x \in DOMAIN e.roster : e.roster[x].room # p.room
    BY <1>5, <1>7, <1>8 DEF In
  <2>2. RosterKept(e, pr)
    BY <1>6, <1>7, <2>1 DEF RoomsKept, RosterKept
  <2>3. /\ DOMAIN e.app = DOMAIN k.app \ {p.room}
        /\ \A r \in DOMAIN e.app : e.app[r] = k.app[r]
        /\ e.app = [r \in DOMAIN e.app |-> e.app[r]]
    BY <1>7 DEF Drop
  <2>4. AppKept(e)
    BY <1>6, <2>3 DEF RoomsKept, AppKept
  <2>5. ToldOf(e)
    BY <1>6, <1>7, <2>1, <2>3 DEF RoomsKept, ToldOf, In
  <2> QED BY <1>6, <1>7, <2>2, <2>4, <2>5 DEF RoomsKept
<1> QED BY <1>3, <1>4, <1>5, <1>6, <1>7, <1>8, <1>d

\* A room is offered its snapshot before anybody is in it.
Offered(s, room) == [Empty EXCEPT !.val = s.disk[room]]

LEMMA OpenedAlready ==
    ASSUME NEW s, NEW room, NEW failing, NEW t, t = Opened(s, room, failing),
           room \in s.woken
    PROVE  t = s
BY DEF Opened

\* A room nobody has been in is marked, whatever becomes of it.
Marked(s, t, room) ==
    /\ IsServer(t)
    /\ t.conns = s.conns /\ t.roster = s.roster /\ t.out = s.out
    /\ t.disk = s.disk /\ t.woken = s.woken \cup {room}

LEMMA OpenedUnread ==
    ASSUME NEW s, NEW room, NEW failing, NEW t, t = Opened(s, room, failing), IsServer(s),
           room \notin s.woken, "read" \in failing
    PROVE  Marked(s, t, room) /\ t.ok = FALSE /\ t.app = s.app
BY DEF Opened, Failed, IsServer, Marked

LEMMA OpenedEmpty ==
    ASSUME NEW s, NEW room, NEW failing, NEW t, t = Opened(s, room, failing), IsServer(s),
           room \notin s.woken, "read" \notin failing, room \notin DOMAIN s.disk
    PROVE  Marked(s, t, room) /\ t.ok = s.ok /\ t.app = s.app
BY DEF Opened, IsServer, Marked

LEMMA OpenedRead ==
    ASSUME NEW s, NEW room, NEW failing, NEW t, t = Opened(s, room, failing), IsServer(s),
           room \notin s.woken, "read" \notin failing, room \in DOMAIN s.disk
    PROVE  Marked(s, t, room) /\ t.ok = s.ok /\ t.app = Put(s.app, room, Offered(s, room))
<1> DEFINE seen == [s EXCEPT !.woken = @ \cup {room}]
           a == Put(s.app, room, Offered(s, room))
<1>1. Marked(s, seen, room) /\ seen.app = s.app /\ seen.ok = s.ok
  BY DEF IsServer, Marked
<1>2. t = [seen EXCEPT !.app = Put(@, room, Offered(s, room))]
  BY DEF Opened, Offered
<1> HIDE DEF seen
<1>3. t = [seen EXCEPT !.app = a]
  BY <1>1, <1>2 DEF Marked, IsServer
<1> HIDE DEF a
<1>4. Marked(s, t, room) /\ t.ok = s.ok /\ t.app = a
  BY <1>1, <1>3 DEF Marked, IsServer
<1> QED BY <1>4 DEF a

\* Marking a room that nobody is in, with what is on disk or nothing.
LEMMA MarkedKeeps ==
    ASSUME NEW s, NEW pr, NEW room, NEW t, Marked(s, t, room), RoomsKept(s, pr),
           room \notin s.woken,
           t.app = s.app \/ t.app = Put(s.app, room, Offered(s, room))
    PROVE  RoomsKept(t, pr)
<1>1. RosterKept(t, pr) /\ OutKept(t.out, pr)
  BY DEF RoomsKept, RosterKept, Marked
<1>2. \A q : In(t, q) = In(s, q)
  BY DEF In, Marked
<1>3. In(s, room) = {}
  BY DEF In, RoomsKept, RosterKept
<1>4. CASE t.app = s.app
  <2>1. AppKept(t)
    BY <1>4 DEF RoomsKept, AppKept
  <2>2. \A q \in DOMAIN t.app : t.app[q].peers = In(t, q)
    BY <1>2, <1>4 DEF RoomsKept, ToldOf
  <2>3. \A c \in DOMAIN t.roster : t.roster[c].room \in DOMAIN t.app
    BY <1>4 DEF RoomsKept, ToldOf, Marked
  <2> QED BY <1>1, <2>1, <2>2, <2>3 DEF RoomsKept, ToldOf, Marked
<1>5. CASE t.app = Put(s.app, room, Offered(s, room))
  <2>1. /\ DOMAIN t.app = DOMAIN s.app \cup {room}
        /\ \A q \in DOMAIN t.app : q # room => q \in DOMAIN s.app /\ t.app[q] = s.app[q]
        /\ t.app[room] = Offered(s, room)
        /\ t.app = [q \in DOMAIN t.app |-> t.app[q]]
    BY <1>5 DEF Put
  <2>2. /\ Offered(s, room).peers = {}
        /\ Offered(s, room) = [val |-> Offered(s, room).val,
                               peers |-> Offered(s, room).peers]
    BY DEF Offered, Empty
  <2>3. AppKept(t)
    BY <2>1, <2>2 DEF RoomsKept, AppKept
  <2>4. ASSUME NEW q \in DOMAIN t.app PROVE t.app[q].peers = In(t, q)
    <3>1. CASE q = room
      BY <1>2, <1>3, <2>1, <2>2, <3>1
    <3>2. CASE q # room
      BY <1>2, <2>1, <3>2 DEF RoomsKept, ToldOf
    <3> QED BY <3>1, <3>2
  <2>5. \A c \in DOMAIN t.roster : t.roster[c].room \in DOMAIN t.app
    BY <2>1 DEF RoomsKept, ToldOf, Marked
  <2> QED BY <1>1, <2>3, <2>4, <2>5 DEF RoomsKept, ToldOf, Marked
<1> QED BY <1>4, <1>5

LEMMA OpenedKeeps ==
    ASSUME NEW s, NEW pr, NEW room, NEW failing, NEW t, t = Opened(s, room, failing),
           RoomsKept(s, pr)
    PROVE  /\ RoomsKept(t, pr)
           /\ t.conns = s.conns /\ t.roster = s.roster /\ room \in t.woken
           /\ "read" \notin failing => t.ok = s.ok
<1>1. IsServer(s)
  BY DEF RoomsKept
<1>2. CASE room \in s.woken
  BY <1>2, OpenedAlready
<1>3. CASE room \notin s.woken /\ "read" \in failing
  <2>1. Marked(s, t, room) /\ t.app = s.app
    BY <1>1, <1>3, OpenedUnread
  <2>2. RoomsKept(t, pr)
    BY <1>3, <2>1, MarkedKeeps
  <2> QED BY <1>3, <2>1, <2>2 DEF Marked
<1>4. CASE room \notin s.woken /\ "read" \notin failing
  <2>1. /\ Marked(s, t, room) /\ t.ok = s.ok
        /\ t.app = s.app \/ t.app = Put(s.app, room, Offered(s, room))
    BY <1>1, <1>4, OpenedEmpty, OpenedRead
  <2>2. RoomsKept(t, pr)
    BY <1>4, <2>1, MarkedKeeps
  <2> QED BY <1>4, <2>1, <2>2 DEF Marked
<1> QED BY <1>2, <1>3, <1>4

\* A peer is in the room, and told it.
More(s, p) == [Room(s, p.room) EXCEPT !.peers = @ \cup {p.conn}]
Greeted(t, p) == {c \in In(t, p.room) : t.roster[c].who = p.who}

\* What a newcomer is told, before anything is written down.
Joined(s, p) ==
    TellOne([s EXCEPT !.roster = Put(@, p.conn, p), !.app = Put(@, p.room, More(s, p))], p)

LEMMA JoinedFields ==
    ASSUME NEW s, NEW p, NEW t, t = Joined(s, p), IsServer(s)
    PROVE  /\ IsServer(t)
           /\ t.conns = s.conns /\ t.woken = s.woken /\ t.disk = s.disk /\ t.ok = s.ok
           /\ t.roster = Put(s.roster, p.conn, p)
           /\ t.app = Put(s.app, p.room, More(s, p))
           /\ t.out = s.out \cup ToldIn(Greeted(t, p), p.room)
<1> DEFINE a == Put(s.app, p.room, More(s, p))
           o == Put(s.roster, p.conn, p)
           u == [s EXCEPT !.roster = o, !.app = a]
<1>1. t = Posted(u, Greeted(u, p), p.room)
  BY DEF Joined, TellOne, Greeted
<1> HIDE DEF a, o
<1>2. /\ IsServer(u)
      /\ u.conns = s.conns /\ u.woken = s.woken /\ u.disk = s.disk
      /\ u.ok = s.ok /\ u.out = s.out /\ u.roster = o /\ u.app = a
  BY DEF IsServer
<1> HIDE DEF u
<1> DEFINE x == Posted(u, Greeted(u, p), p.room)
<1>3. /\ IsServer(x)
      /\ x.conns = u.conns /\ x.roster = u.roster /\ x.woken = u.woken
      /\ x.app = u.app /\ x.disk = u.disk /\ x.ok = u.ok
      /\ x.out = u.out \cup ToldIn(Greeted(u, p), p.room)
  BY <1>2, PostedKeeps
<1>4. Greeted(x, p) = Greeted(u, p)
  BY <1>3 DEF Greeted, In
<1>5. x = t
  BY <1>1
<1> HIDE DEF x
<1> QED BY <1>2, <1>3, <1>4, <1>5 DEF a, o

LEMMA JoinedKeeps ==
    ASSUME NEW s, NEW pr, NEW p, NEW t, t = Joined(s, p), RoomsKept(s, pr),
           p.conn \in Conns \ DOMAIN s.roster, p.room \in pr[p.conn] \cap s.woken
    PROVE  RoomsKept(t, pr)
<1> DEFINE r == p.room
           c == p.conn
<1>1. IsServer(s)
  BY DEF RoomsKept
<1>2. /\ IsServer(t)
      /\ t.conns = s.conns /\ t.woken = s.woken /\ t.ok = s.ok
      /\ t.roster = Put(s.roster, c, p)
      /\ t.app = Put(s.app, r, More(s, p))
      /\ t.out = s.out \cup ToldIn(Greeted(t, p), r)
  BY <1>1, JoinedFields
<1>3. /\ DOMAIN t.roster = DOMAIN s.roster \cup {c}
      /\ \A d \in DOMAIN s.roster : t.roster[d] = s.roster[d]
      /\ t.roster[c] = p
      /\ t.roster = [d \in DOMAIN t.roster |-> t.roster[d]]
  BY <1>2 DEF Put
<1>4. RosterKept(t, pr)
  BY <1>2, <1>3 DEF RoomsKept, RosterKept
<1>5. OutKept(t.out, pr)
  <2>1. \A d \in Greeted(t, p) : d \in Conns /\ r \in pr[d]
    BY <1>4 DEF Greeted, In, RosterKept
  <2>2. OutKept(s.out, pr)
    BY DEF RoomsKept
  <2>3. OutKept(s.out \cup ToldIn(Greeted(t, p), r), pr)
    <3> HIDE DEF r
    <3> QED BY <2>1, <2>2, HeardKept
  <2> QED BY <1>2, <2>3
<1>6. /\ In(t, r) = In(s, r) \cup {c}
      /\ \A q : q # r => In(t, q) = In(s, q)
  BY <1>3 DEF In
<1>7. More(s, p) = [val |-> Room(s, r).val, peers |-> In(s, r) \cup {c}]
  <2>1. Room(s, r) = [val |-> Room(s, r).val, peers |-> In(s, r)]
    <3>1. CASE r \in DOMAIN s.app
      BY <3>1 DEF Room, RoomsKept, AppKept, ToldOf
    <3>2. CASE r \notin DOMAIN s.app
      <4>1. In(s, r) = {}
        BY <3>2 DEF In, RoomsKept, ToldOf
      <4> QED BY <3>2, <4>1 DEF Room, Empty
    <3> QED BY <3>1, <3>2
  <2>2. More(s, p) = [Room(s, r) EXCEPT !.peers = @ \cup {c}]
    BY DEF More
  <2> HIDE DEF r, c
  <2> QED BY <2>1, <2>2
<1>8. /\ DOMAIN t.app = DOMAIN s.app \cup {r}
      /\ \A q \in DOMAIN t.app : q # r => q \in DOMAIN s.app /\ t.app[q] = s.app[q]
      /\ t.app[r] = More(s, p)
      /\ t.app = [q \in DOMAIN t.app |-> t.app[q]]
  BY <1>2 DEF Put
<1>9. AppKept(t)
  <2>1. More(s, p) = [val |-> More(s, p).val, peers |-> More(s, p).peers]
    BY <1>7
  <2> QED BY <1>8, <2>1 DEF RoomsKept, AppKept
<1>10. ASSUME NEW q \in DOMAIN t.app PROVE t.app[q].peers = In(t, q)
  <2>1. CASE q = r
    BY <1>6, <1>7, <1>8, <2>1
  <2>2. CASE q # r
    BY <1>6, <1>8, <2>2 DEF RoomsKept, ToldOf
  <2> QED BY <2>1, <2>2
<1>11. \A d \in DOMAIN t.roster : t.roster[d].room \in DOMAIN t.app
  BY <1>3, <1>8 DEF RoomsKept, ToldOf
<1> QED BY <1>2, <1>4, <1>5, <1>9, <1>10, <1>11 DEF RoomsKept, ToldOf

LEMMA JoinIs ==
    ASSUME NEW s, NEW p, NEW keeps, NEW failing
    PROVE  Join(s, p, keeps, failing) = Asked(Joined(s, p), p.room, "join", keeps, failing)
BY DEF Join, Joined, More

LEMMA JoinKeeps ==
    ASSUME NEW s, NEW pr, NEW p, NEW keeps, NEW failing,
           NEW t, t = Join(s, p, keeps, failing), RoomsKept(s, pr),
           p.conn \in Conns \ DOMAIN s.roster, p.room \in pr[p.conn] \cap s.woken
    PROVE  RoomsKept(t, pr) /\ (Fine(failing) => t.ok = s.ok)
<1> DEFINE u == Joined(s, p)
<1>1. u = Joined(s, p) /\ t = Asked(u, p.room, "join", keeps, failing)
  BY JoinIs
<1> HIDE DEF u
<1>2. RoomsKept(u, pr) /\ IsServer(u) /\ u.ok = s.ok
  BY <1>1, JoinedKeeps, JoinedFields DEF RoomsKept
<1>3. /\ IsServer(t)
      /\ t.roster = u.roster /\ t.woken = u.woken
      /\ t.app = u.app /\ t.out = u.out
      /\ Fine(failing) => t.ok = u.ok
  BY <1>1, <1>2, AskedKeeps DEF Fine
<1> QED BY <1>2, <1>3, AskedRoomsKeep

----------------------------------------------------------------------------
(* The handlers *)

LEMMA ArriveKeeps ==
    ASSUME NEW s, NEW pr, NEW p, NEW keeps, NEW failing, NEW t, t = Arrive(s, p, keeps, failing),
           RoomsKept(s, pr), p.conn \in Conns, p.room \in pr[p.conn]
    PROVE  /\ RoomsKept(t, pr)
           /\ Fine(failing) /\ s.ok => t.ok
<1> DEFINE was == {s.roster[c] : c \in DOMAIN s.roster \cap {p.conn}}
           left == IF was = {} THEN s ELSE Depart(s, s.roster[p.conn], keeps, failing)
           opened == Opened(left, p.room, failing)
<1>1. \/ t = s
      \/ ~left.ok /\ t = left
      \/ left.ok /\ ~opened.ok /\ t = opened
      \/ left.ok /\ opened.ok /\ t = Join(opened, p, keeps, failing)
  BY DEF Arrive
<1>2. was = {} <=> p.conn \notin DOMAIN s.roster
  OBVIOUS
<1> HIDE DEF was
<1>3. /\ RoomsKept(left, pr)
      /\ p.conn \notin DOMAIN left.roster
      /\ Fine(failing) /\ s.ok => left.ok
  <2>1. CASE p.conn \notin DOMAIN s.roster
    BY <1>2, <2>1
  <2>2. CASE p.conn \in DOMAIN s.roster
    <3> DEFINE c == p.conn
               d == Depart(s, s.roster[c], keeps, failing)
    <3>1. left = d /\ Departs(s, c, keeps, failing, d)
      BY <1>2, <2>2 DEF Departs
    <3> HIDE DEF d, c, left
    <3>2. /\ RoomsKept(d, pr)
          /\ d.roster = Drop(s.roster, c)
          /\ Fine(failing) => d.ok = s.ok
      BY <3>1, DepartKeeps
    <3> QED BY <3>1, <3>2 DEF Drop, c
  <2> QED BY <2>1, <2>2
<1> HIDE DEF left
<1>4. /\ RoomsKept(opened, pr)
      /\ opened.roster = left.roster /\ p.room \in opened.woken
      /\ Fine(failing) => opened.ok = left.ok
  <2>1. /\ RoomsKept(opened, pr)
        /\ opened.roster = left.roster /\ p.room \in opened.woken
        /\ "read" \notin failing => opened.ok = left.ok
    BY <1>3, OpenedKeeps
  <2> QED BY <2>1 DEF Fine
<1> HIDE DEF opened
<1>5. CASE left.ok /\ opened.ok /\ t = Join(opened, p, keeps, failing)
  <2>1. RoomsKept(t, pr) /\ (Fine(failing) => t.ok = opened.ok)
    BY <1>3, <1>4, <1>5, JoinKeeps
  <2> QED BY <1>5, <2>1
<1> QED BY <1>1, <1>3, <1>4, <1>5

\* The connection is forgotten, or found out: the rooms are as they were.
LEMMA ConnsKeep ==
    ASSUME NEW s, NEW pr, NEW cs, NEW t, t = [s EXCEPT !.conns = cs], RoomsKept(s, pr)
    PROVE  /\ RoomsKept(t, pr) /\ t.ok = s.ok /\ t.roster = s.roster /\ t.app = s.app
           /\ t.woken = s.woken /\ t.disk = s.disk
<1>1. /\ IsServer(t) /\ t.roster = s.roster /\ t.woken = s.woken /\ t.app = s.app
      /\ t.out = s.out /\ t.ok = s.ok /\ t.disk = s.disk
  BY DEF RoomsKept, IsServer
<1> QED BY <1>1 DEF RoomsKept, RosterKept, AppKept, ToldOf, In

LEMMA DisconnectKeeps ==
    ASSUME NEW s, NEW pr, NEW c, NEW keeps, NEW failing, NEW t, t = Disconnect(s, c, keeps, failing),
           RoomsKept(s, pr), s.ok = TRUE
    PROVE  RoomsKept(t, pr) /\ t.ok = TRUE
<1> DEFINE cut == [s EXCEPT !.conns = Drop(@, c)]
<1>0. cut = [s EXCEPT !.conns = Drop(s.conns, c)]
  OBVIOUS
<1>2. t = IF c \notin DOMAIN s.roster THEN cut
          ELSE [Depart(cut, s.roster[c], keeps, failing) EXCEPT !.ok = TRUE]
  BY DEF Disconnect
<1> HIDE DEF cut
<1>1. RoomsKept(cut, pr) /\ cut.roster = s.roster /\ cut.ok = TRUE
  BY <1>0, ConnsKeep
<1>3. CASE c \in DOMAIN s.roster
  <2> DEFINE d == Depart(cut, cut.roster[c], keeps, failing)
  <2>1. RoomsKept(d, pr)
    <3>1. Departs(cut, c, keeps, failing, d)
      BY <1>1, <1>3 DEF Departs
    <3> HIDE DEF d
    <3> QED BY <1>1, <3>1, DepartKeeps
  <2>2. t = [d EXCEPT !.ok = TRUE]
    BY <1>1, <1>2, <1>3
  <2> HIDE DEF d
  <2>3. /\ IsServer(t) /\ t.roster = d.roster /\ t.woken = d.woken /\ t.app = d.app
        /\ t.out = d.out /\ t.ok = TRUE
    BY <2>1, <2>2 DEF RoomsKept, IsServer
  <2> QED BY <2>1, <2>3 DEF RoomsKept, RosterKept, AppKept, ToldOf, In
<1> QED BY <1>1, <1>2, <1>3

\* recv(Say): the word is the room's, and all in it are told.
Spoken(s, c, val) ==
    LET room == s.roster[c].room
    IN  Tell([s EXCEPT !.app = Put(@, room, [Room(s, room) EXCEPT !.val = val])], room)

LEMMA SpokenIs ==
    ASSUME NEW s, NEW c, NEW val, NEW r, r = s.roster[c].room,
           NEW t, t = Spoken(s, c, val), IsServer(s)
    PROVE  /\ IsServer(t)
           /\ t.conns = s.conns /\ t.roster = s.roster /\ t.woken = s.woken
           /\ t.disk = s.disk /\ t.ok = s.ok
           /\ t.app = Put(s.app, r, [Room(s, r) EXCEPT !.val = val])
           /\ t.out = s.out \cup ToldIn(In(s, r), r)
<1> DEFINE a == Put(s.app, r, [Room(s, r) EXCEPT !.val = val])
           u == [s EXCEPT !.app = a]
<1>1. t = Posted(u, In(u, r), r)
  BY DEF Spoken, Tell
<1> HIDE DEF a
<1>2. /\ IsServer(u)
      /\ u.conns = s.conns /\ u.woken = s.woken /\ u.disk = s.disk
      /\ u.ok = s.ok /\ u.out = s.out /\ u.roster = s.roster /\ u.app = a
  BY DEF IsServer
<1> HIDE DEF u
<1>3. In(u, r) = In(s, r)
  BY <1>2 DEF In
<1> DEFINE x == Posted(u, In(u, r), r)
<1>4. /\ IsServer(x)
      /\ x.conns = u.conns /\ x.roster = u.roster /\ x.woken = u.woken
      /\ x.app = u.app /\ x.disk = u.disk /\ x.ok = u.ok
      /\ x.out = u.out \cup ToldIn(In(u, r), r)
  BY <1>2, PostedKeeps
<1>5. x = t
  BY <1>1
<1> HIDE DEF x
<1> QED BY <1>2, <1>3, <1>4, <1>5 DEF a

LEMMA SpokenKeeps ==
    ASSUME NEW s, NEW pr, NEW c \in DOMAIN s.roster, NEW val,
           NEW t, t = Spoken(s, c, val), RoomsKept(s, pr)
    PROVE  RoomsKept(t, pr) /\ t.ok = s.ok
<1> DEFINE r == s.roster[c].room
           room == [Room(s, r) EXCEPT !.val = val]
<1>1. IsServer(s) /\ r \in DOMAIN s.app
  BY DEF RoomsKept, ToldOf
<1>2. /\ IsServer(t)
      /\ t.roster = s.roster /\ t.woken = s.woken /\ t.ok = s.ok
      /\ t.app = Put(s.app, r, room)
      /\ t.out = s.out \cup ToldIn(In(s, r), r)
  BY <1>1, SpokenIs
<1>3. room = [val |-> val, peers |-> In(s, r)]
  <2>1. s.app[r] = [val |-> s.app[r].val, peers |-> In(s, r)]
    BY <1>1 DEF RoomsKept, AppKept, ToldOf
  <2>2. Room(s, r) = s.app[r]
    BY <1>1 DEF Room
  <2> HIDE DEF r
  <2> QED BY <2>1, <2>2
<1> HIDE DEF room
<1>4. RosterKept(t, pr)
  BY <1>2 DEF RoomsKept, RosterKept
<1>5. OutKept(t.out, pr)
  <2>1. \A d \in In(s, r) : d \in Conns /\ r \in pr[d]
    BY DEF In, RoomsKept, RosterKept
  <2>2. OutKept(s.out, pr)
    BY DEF RoomsKept
  <2> HIDE DEF r
  <2>3. OutKept(s.out \cup ToldIn(In(s, r), r), pr)
    BY <2>1, <2>2, HeardKept
  <2> QED BY <1>2, <2>3
<1>6. /\ DOMAIN t.app = DOMAIN s.app
      /\ \A q \in DOMAIN t.app : q # r => t.app[q] = s.app[q]
      /\ t.app[r] = room
      /\ t.app = [q \in DOMAIN t.app |-> t.app[q]]
  BY <1>1, <1>2 DEF Put
<1>7. AppKept(t)
  BY <1>3, <1>6 DEF RoomsKept, AppKept
<1>8. \A q : In(t, q) = In(s, q)
  BY <1>2 DEF In
<1>9. ASSUME NEW q \in DOMAIN t.app PROVE t.app[q].peers = In(t, q)
  <2>1. CASE q = r
    BY <1>3, <1>6, <1>8, <2>1
  <2>2. CASE q # r
    BY <1>6, <1>8, <2>2 DEF RoomsKept, ToldOf
  <2> QED BY <2>1, <2>2
<1>10. \A d \in DOMAIN t.roster : t.roster[d].room \in DOMAIN t.app
  BY <1>2, <1>6 DEF RoomsKept, ToldOf
<1> QED BY <1>2, <1>4, <1>5, <1>7, <1>9, <1>10 DEF RoomsKept, ToldOf

LEMMA SayKeeps ==
    ASSUME NEW s, NEW pr, NEW c, NEW val, NEW keeps, NEW failing,
           NEW t, t = Say(s, c, val, keeps, failing), RoomsKept(s, pr)
    PROVE  RoomsKept(t, pr) /\ (Fine(failing) /\ s.ok => t.ok)
<1>1. CASE c \notin DOMAIN s.roster
  BY <1>1 DEF Say
<1>2. CASE c \in DOMAIN s.roster
  <2> DEFINE r == s.roster[c].room
             u == Spoken(s, c, val)
  <2>1. t = Asked(u, r, "say", keeps, failing)
    BY <1>2 DEF Say, Spoken
  <2>2. RoomsKept(u, pr) /\ u.ok = s.ok
    BY <1>2, SpokenKeeps
  <2> HIDE DEF u, r
  <2>3. /\ IsServer(t)
        /\ t.roster = u.roster /\ t.woken = u.woken
        /\ t.app = u.app /\ t.out = u.out
        /\ Fine(failing) => t.ok = u.ok
    BY <2>1, <2>2, AskedKeeps DEF RoomsKept, Fine
  <2> QED BY <2>2, <2>3, AskedRoomsKeep
<1> QED BY <1>1, <1>2

LEMMA DenyKeeps ==
    ASSUME NEW s, NEW pr, NEW c \in Conns, NEW t, t = Deny(s, c), RoomsKept(s, pr)
    PROVE  RoomsKept(t, pr) /\ t.ok = s.ok /\ Denied(c) \in t.out
<1> DEFINE cs == Drop(s.conns, c)
           o == s.out \cup {Denied(c)}
<1>1. t = [s EXCEPT !.conns = cs, !.out = o]
  BY DEF Deny
<1>2. OutKept(o, pr)
  BY DEF RoomsKept, OutKept, Denied
<1>3. Denied(c) \in o
  OBVIOUS
<1> HIDE DEF cs, o
<1>4. /\ IsServer(t) /\ t.roster = s.roster /\ t.woken = s.woken /\ t.app = s.app
      /\ t.out = o /\ t.ok = s.ok
  BY <1>1 DEF RoomsKept, IsServer
<1> QED BY <1>2, <1>3, <1>4 DEF RoomsKept, RosterKept, AppKept, ToldOf, In

LEMMA HelloKeeps ==
    ASSUME NEW s, NEW pr, NEW c \in Conns, NEW who, NEW keeps, NEW failing,
           NEW t, t = Hello(s, c, who, keeps, failing), RoomsKept(s, pr),
           Peer(c, who).room \in pr[c]
    PROVE  RoomsKept(t, pr) /\ (Fine(failing) /\ s.ok => t.ok)
<1> DEFINE cs == Put(s.conns, c, who)
           u == [s EXCEPT !.conns = cs]
           p == Peer(c, who)
<1>1. t = Arrive(u, p, keeps, failing)
  BY DEF Hello
<1>2. p.conn = c /\ p.room \in pr[c]
  BY DEF Peer
<1> HIDE DEF cs, p
<1>3. RoomsKept(u, pr) /\ u.ok = s.ok
  BY ConnsKeep
<1> HIDE DEF u
<1> QED BY <1>1, <1>2, <1>3, ArriveKeeps

LEMMA StandKeeps ==
    ASSUME NEW s, NEW pr, NEW c \in Conns, NEW who \in Identities, NEW keeps, NEW failing,
           NEW t, t = Stand(s, c, who, keeps, failing), RoomsKept(s, pr), who.user \in pr[c]
    PROVE  RoomsKept(t, pr) /\ (Fine(failing) /\ s.ok => t.ok)
<1> DEFINE p == Peer(c, who)
<1>1. t = Arrive(s, p, keeps, failing)
  BY DEF Stand
<1>2. p.conn = c /\ p.room \in pr[c]
  BY LiveAssumption DEF Peer
<1> HIDE DEF p
<1> QED BY <1>1, <1>2, ArriveKeeps

----------------------------------------------------------------------------
(* The hub *)

\* Proving more takes nothing away.
LEMMA WiderKeeps ==
    ASSUME NEW s, NEW tk, NEW pr, NEW more, RoomsKept(s, pr), TakenKept(tk, pr),
           \A c \in Conns : pr[c] \subseteq more[c]
    PROVE  RoomsKept(s, more) /\ TakenKept(tk, more)
BY DEF RoomsKept, RosterKept, TakenKept, OutKept

LEMMA ProvedMore ==
    ASSUME NEW c \in Conns, NEW room, NEW pr, NEW more,
           pr = [d \in Conns |-> pr[d]], more = [pr EXCEPT ![c] = @ \cup {room}]
    PROVE  /\ \A d \in Conns : pr[d] \subseteq more[d]
           /\ room \in more[c]
           /\ more = [d \in Conns |-> more[d]]
OBVIOUS

LEMMA CollectKeeps ==
    ASSUME NEW pr, NEW s, RoomsKept(s, pr),
           NEW t, t = [s EXCEPT !.out = {}, !.ok = TRUE]
    PROVE  RoomsKept(t, pr) /\ t.ok = TRUE /\ t.out = {}
<1>1. /\ IsServer(t) /\ t.roster = s.roster /\ t.woken = s.woken /\ t.app = s.app
      /\ t.out = {} /\ t.ok = TRUE
  BY DEF RoomsKept, IsServer
<1>2. RoomsKept(t, pr)
  <2>1. RosterKept(t, pr) /\ AppKept(t)
    BY <1>1 DEF RoomsKept, RosterKept, AppKept
  <2>3. \A q : In(t, q) = In(s, q)
    BY <1>1 DEF In
  <2>4. ToldOf(t)
    BY <1>1, <2>3 DEF RoomsKept, ToldOf
  <2>2. OutKept(t.out, pr)
    BY <1>1 DEF OutKept
  <2> QED BY <1>1, <2>1, <2>2, <2>4 DEF RoomsKept
<1> QED BY <1>1, <1>2

LEMMA FailKeeps ==
    ASSUME NEW pr, NEW s, RoomsKept(s, pr), NEW t, t = [s EXCEPT !.ok = TRUE]
    PROVE  RoomsKept(t, pr) /\ t.ok = TRUE
<1>1. /\ IsServer(t) /\ t.roster = s.roster /\ t.woken = s.woken /\ t.app = s.app
      /\ t.out = s.out /\ t.ok = TRUE
  BY DEF RoomsKept, IsServer
<1> QED BY <1>1 DEF RoomsKept, RosterKept, AppKept, ToldOf, In

\* What a handler leaves the rooms in, the hub leaves them in.
LEMMA HandledKeeps ==
    ASSUME NEW c \in Conns, NEW s, NEW next, NEW pr,
           RoomsKept(s, pr), TakenKept(taken, pr),
           Collect(c, s, next) \/ Fail(c, s, next)
    PROVE  RoomsKept(server', pr) /\ server'.ok = TRUE /\ TakenKept(taken', pr)
<1>1. CASE Collect(c, s, next)
  <2> DEFINE t == server'
             took == taken'
  <2>1. t = [s EXCEPT !.out = {}, !.ok = TRUE] /\ took = [taken EXCEPT ![c] = s.out]
    BY <1>1 DEF Collect
  <2> HIDE DEF t, took
  <2>2. RoomsKept(t, pr) /\ t.ok = TRUE
    BY <2>1, CollectKeeps
  <2>3. TakenKept(took, pr)
    BY <2>1 DEF TakenKept, RoomsKept
  <2> QED BY <2>2, <2>3 DEF t, took
<1>2. CASE Fail(c, s, next)
  <2> DEFINE t == [s EXCEPT !.ok = TRUE]
  <2>1. RoomsKept(t, pr) /\ t.ok = TRUE
    BY FailKeeps
  <2>2. server' = t /\ taken' = taken
    BY <1>2 DEF Fail
  <2> HIDE DEF t
  <2> QED BY <2>1, <2>2
<1> QED BY <1>1, <1>2

\* The rooms are in order when a handler has run with what it proved.
LEMMA HandlingKeeps ==
    ASSUME HubInv, NEW c \in Conns, NEW s, NEW next,
           RoomsKept(s, proved'), Collect(c, s, next) \/ Fail(c, s, next),
           \/ UNCHANGED proved
           \/ \E room : proved' = [proved EXCEPT ![c] = @ \cup {room}]
    PROVE  HubInv'
<1>1. TakenKept(taken, proved') /\ proved' = [d \in Conns |-> proved'[d]]
  <2>1. CASE UNCHANGED proved
    BY <2>1 DEF HubInv
  <2>2. ASSUME NEW room, proved' = [proved EXCEPT ![c] = @ \cup {room}]
        PROVE  TakenKept(taken, proved') /\ proved' = [d \in Conns |-> proved'[d]]
    <3> DEFINE more == proved'
    <3>1. proved = [d \in Conns |-> proved[d]] /\ TakenKept(taken, proved)
      BY DEF HubInv
    <3>2. more = [proved EXCEPT ![c] = @ \cup {room}]
      BY <2>2
    <3> HIDE DEF more
    <3>3. /\ \A d \in Conns : proved[d] \subseteq more[d]
          /\ more = [d \in Conns |-> more[d]]
      BY <3>1, <3>2, ProvedMore
    <3>4. TakenKept(taken, more)
      BY <3>1, <3>3 DEF TakenKept, OutKept
    <3> QED BY <3>3, <3>4 DEF more
  <2> QED BY <2>1, <2>2
<1> DEFINE more == proved'
<1>2. RoomsKept(s, more) /\ TakenKept(taken, more)
  BY <1>1
<1> HIDE DEF more
<1>3. RoomsKept(server', more) /\ server'.ok = TRUE /\ TakenKept(taken', more)
  BY <1>2, HandledKeeps
<1> QED BY <1>1, <1>3 DEF HubInv, more

LEMMA HubHello ==
    ASSUME HubInv, NEW c \in Conns, HandleHello(c)
    PROVE  HubInv'
<1>1. PICK who \in Proofs, keeps \in SUBSET {"part", "join"},
          failing \in OneOf({"part", "close", "read", "join"}) :
         /\ Route(c, Hello(server, c, who, keeps, failing))
         /\ proved' = [proved EXCEPT ![c] = @ \cup {Peer(c, who).room}]
  BY DEF HandleHello
<1> DEFINE t == Hello(server, c, who, keeps, failing)
           more == proved'
           room == Peer(c, who).room
<1>2. proved = [d \in Conns |-> proved[d]] /\ more = [proved EXCEPT ![c] = @ \cup {room}]
  BY <1>1 DEF HubInv
<1> HIDE DEF more
<1>3. (\A d \in Conns : proved[d] \subseteq more[d]) /\ room \in more[c]
  <2> HIDE DEF room
  <2> QED BY <1>2, ProvedMore
<1>4. RoomsKept(server, more)
  BY <1>3, WiderKeeps DEF HubInv
<1>5. RoomsKept(t, more)
  BY <1>3, <1>4, HelloKeeps
<1>6. \E next : Collect(c, t, next) \/ Fail(c, t, next)
  BY <1>1 DEF Route
<1> HIDE DEF t, room
<1> QED BY <1>2, <1>5, <1>6, HandlingKeeps DEF more

LEMMA HubStand ==
    ASSUME HubInv, NEW c \in Conns, StandIn(c)
    PROVE  HubInv'
<1>1. PICK who \in Identities, keeps \in SUBSET {"join"}, failing \in OneOf({"read", "join"}) :
         LET s == Stand(server, c, who, keeps, failing)
         IN  /\ IF s.ok THEN Collect(c, s, "delivering") ELSE Fail(c, s, "done")
             /\ proved' = [proved EXCEPT ![c] = @ \cup {who.user}]
  BY DEF StandIn
<1> DEFINE t == Stand(server, c, who, keeps, failing)
           more == proved'
           room == who.user
<1>2. proved = [d \in Conns |-> proved[d]] /\ more = [proved EXCEPT ![c] = @ \cup {room}]
  BY <1>1 DEF HubInv
<1> HIDE DEF more
<1>3. (\A d \in Conns : proved[d] \subseteq more[d]) /\ room \in more[c]
  <2> HIDE DEF room
  <2> QED BY <1>2, ProvedMore
<1>4. RoomsKept(server, more)
  BY <1>3, WiderKeeps DEF HubInv
<1>5. RoomsKept(t, more)
  BY <1>3, <1>4, StandKeeps
<1>6. \E next : Collect(c, t, next) \/ Fail(c, t, next)
  BY <1>1
<1> HIDE DEF t, room
<1> QED BY <1>2, <1>5, <1>6, HandlingKeeps DEF more

LEMMA HubDeny ==
    ASSUME HubInv, NEW c \in Conns, DenyHello(c)
    PROVE  HubInv'
<1> DEFINE t == Deny(server, c)
<1>1. UNCHANGED proved /\ \E next : Collect(c, t, next) \/ Fail(c, t, next)
  BY DEF DenyHello, Route, history
<1>2. RoomsKept(t, proved)
  BY DenyKeeps DEF HubInv
<1> HIDE DEF t
<1>3. RoomsKept(t, proved')
  BY <1>1, <1>2
<1> QED BY <1>1, <1>3, HandlingKeeps

LEMMA HubSay ==
    ASSUME HubInv, NEW c \in Conns, HandleSay(c)
    PROVE  HubInv'
<1>1. PICK val \in Values \cup {Null}, keeps \in SUBSET {"say"}, failing \in OneOf({"say"}) :
         Route(c, Say(server, c, val, keeps, failing))
  BY DEF HandleSay
<1> DEFINE t == Say(server, c, val, keeps, failing)
<1>2. UNCHANGED proved /\ \E next : Collect(c, t, next) \/ Fail(c, t, next)
  BY <1>1 DEF HandleSay, Route
<1>3. RoomsKept(t, proved)
  BY SayKeeps DEF HubInv
<1> HIDE DEF t
<1>4. RoomsKept(t, proved')
  BY <1>2, <1>3
<1> QED BY <1>2, <1>4, HandlingKeeps

LEMMA HubPart ==
    ASSUME HubInv, NEW c \in Conns, Part(c) \/ PartQuietly(c)
    PROVE  HubInv'
<1>1. PICK keeps \in SUBSET {"part"}, failing \in OneOf({"part", "close"}) :
         \/ Collect(c, Disconnect(server, c, keeps, failing), "parting")
         \/ Fail(c, Disconnect(server, c, keeps, failing), "parting")
  BY DEF Part, PartQuietly
<1> DEFINE t == Disconnect(server, c, keeps, failing)
<1>2. UNCHANGED proved /\ (Collect(c, t, "parting") \/ Fail(c, t, "parting"))
  BY <1>1 DEF Part, PartQuietly, history
<1>3. RoomsKept(t, proved)
  BY DisconnectKeeps DEF HubInv
<1> HIDE DEF t
<1>4. RoomsKept(t, proved')
  BY <1>2, <1>3
<1> QED BY <1>2, <1>4, HandlingKeeps

\* Nobody is anywhere in a server that has just started.
LEMMA FreshKept ==
    ASSUME NEW disk, NEW pr, NEW t, t = Fresh(disk)
    PROVE  RoomsKept(t, pr) /\ t.ok = TRUE /\ t.out = {}
<1>1. /\ IsServer(t) /\ t.roster = Nobody /\ t.woken = {} /\ t.app = Nobody
      /\ t.out = {} /\ t.ok = TRUE
  BY DEF Fresh, IsServer
<1>2. DOMAIN Nobody = {} /\ Nobody = [c \in DOMAIN Nobody |-> Nobody[c]]
  BY DEF Nobody
<1>3. RosterKept(t, pr) /\ OutKept(t.out, pr) /\ AppKept(t)
  BY <1>1, <1>2 DEF RosterKept, OutKept, AppKept
<1>4. ToldOf(t)
  BY <1>1, <1>2 DEF ToldOf
<1> QED BY <1>1, <1>3, <1>4 DEF RoomsKept

LEMMA HubStarts ==
    ASSUME Init
    PROVE  HubInv
<1>1. RoomsKept(server, proved) /\ server.ok = TRUE
  BY FreshKept DEF Init
<1>2. TakenKept(taken, proved) /\ proved = [c \in Conns |-> proved[c]]
  BY DEF Init, TakenKept, OutKept
<1> QED BY <1>1, <1>2 DEF HubInv

LEMMA HubCrash ==
    ASSUME HubInv, Crash
    PROVE  HubInv'
<1> DEFINE t == server'
           took == taken'
<1>1. t = Fresh(server.disk) /\ took = [c \in Conns |-> {}] /\ UNCHANGED proved
  BY DEF Crash
<1> HIDE DEF t, took
<1>2. RoomsKept(t, proved) /\ t.ok = TRUE
  BY <1>1, FreshKept
<1>3. TakenKept(took, proved)
  BY <1>1 DEF TakenKept, OutKept
<1> QED BY <1>1, <1>2, <1>3 DEF HubInv, t, took

LEMMA HubDeliver ==
    ASSUME HubInv, NEW c \in Conns, Deliver(c)
    PROVE  HubInv'
<1>1. UNCHANGED <<server, proved>> /\ taken' = [taken EXCEPT ![c] = {}]
  BY DEF Deliver, history
<1>2. TakenKept(taken', proved)
  BY <1>1 DEF HubInv, TakenKept, OutKept
<1> QED BY <1>1, <1>2 DEF HubInv

\* The rest is the sockets' and the tasks', which the rooms do not see.
LEMMA HubRest ==
    ASSUME HubInv, UNCHANGED <<server, taken, proved>>
    PROVE  HubInv'
BY DEF HubInv

LEMMA Unseen ==
    ASSUME NEW c \in Conns,
           \/ Accept(c) \/ HangUp(c) \/ EndOfStream(c) \/ FallAsleep(c)
           \/ Beat(c) \/ Leave(c)
    PROVE  UNCHANGED <<server, taken, proved, refused, transport>>
BY DEF Accept, HangUp, EndOfStream, FallAsleep, Beat, Leave, history

LEMMA HubSteps ==
    ASSUME HubInv, [Next]_vars
    PROVE  HubInv'
<1>1. CASE UNCHANGED vars
  BY <1>1, HubRest DEF vars
<1>2. CASE Crash
  BY <1>2, HubCrash
<1>3. ASSUME NEW c \in Conns,
             \/ Accept(c) \/ HangUp(c) \/ EndOfStream(c) \/ FallAsleep(c)
             \/ Beat(c) \/ Leave(c)
      PROVE  HubInv'
  BY <1>3, Unseen, HubRest
<1>4. ASSUME NEW c \in Conns, StandIn(c) PROVE HubInv'
  BY <1>4, HubStand
<1>5. ASSUME NEW c \in Conns, HandleHello(c) PROVE HubInv'
  BY <1>5, HubHello
<1>6. ASSUME NEW c \in Conns, DenyHello(c) PROVE HubInv'
  BY <1>6, HubDeny
<1>7. ASSUME NEW c \in Conns, HandleSay(c) PROVE HubInv'
  BY <1>7, HubSay
<1>8. ASSUME NEW c \in Conns, Deliver(c) PROVE HubInv'
  BY <1>8, HubDeliver
<1>9. ASSUME NEW c \in Conns, Part(c) \/ PartQuietly(c) PROVE HubInv'
  BY <1>9, HubPart
<1> QED
  BY <1>1, <1>2, <1>3, <1>4, <1>5, <1>6, <1>7, <1>8, <1>9 DEF Next

\* Rooms, their machine and the frames that wait agree, always.
THEOREM RoomsInOrder == Spec => []HubInv
<1>1. Init => HubInv
  BY HubStarts
<1>2. HubInv /\ [Next]_vars => HubInv'
  BY HubSteps
<1> QED BY <1>1, <1>2, PTL DEF Spec

\* The machine knows who is in each room (Live::join, Live::part).
THEOREM EverybodyIsKnown == Spec => []ToldOfEverybody
<1>1. HubInv => ToldOfEverybody
  BY DEF HubInv, RoomsKept, ToldOfEverybody
<1> QED BY <1>1, RoomsInOrder, PTL

\* A frame is on its way to nobody who did not prove it belongs in that room.
THEOREM NothingIsOverheard == Spec => []NothingCrosses
<1>1. HubInv => NothingCrosses
  <2>1. ASSUME HubInv PROVE OutKept(server.out, proved)
    BY <2>1 DEF HubInv, RoomsKept
  <2>2. ASSUME HubInv, NEW c \in Conns PROVE OutKept(taken[c], proved)
    BY <2>2 DEF HubInv, TakenKept
  <2>3. \A f \in Frames : f \in server.out \/ \E c \in Conns : f \in taken[c]
    <3> DEFINE all == {taken[c] : c \in Conns}
    <3>1. \A x \in all : \E c \in Conns : x = taken[c]
      OBVIOUS
    <3>2. Frames = server.out \cup UNION all
      BY DEF Frames
    <3> HIDE DEF all
    <3>3. ASSUME NEW f \in UNION all PROVE \E x \in all : f \in x
      OBVIOUS
    <3>4. ASSUME NEW f \in UNION all PROVE \E c \in Conns : f \in taken[c]
      <4>1. PICK x \in all : f \in x
        BY <3>3
      <4>2. PICK c \in Conns : x = taken[c]
        BY <3>1
      <4> QED BY <4>1, <4>2
    <3>5. \A f \in Frames : f \in server.out \/ f \in UNION all
      BY <3>2
    <3> QED BY <3>4, <3>5
  <2> QED BY <2>1, <2>2, <2>3 DEF OutKept, NothingCrosses
<1> QED BY <1>1, RoomsInOrder, PTL

----------------------------------------------------------------------------
(* The tasks *)

LEMMA Shaped ==
    ASSUME TaskShape, [Next]_vars
    PROVE  TaskShape'
<1>1. CASE UNCHANGED vars
  BY <1>1 DEF vars, TaskShape
<1>2. CASE Crash
  BY <1>2 DEF Crash, TaskShape
<1>3. ASSUME NEW c \in Conns, Accept(c) \/ StandIn(c)
      PROVE  TaskShape'
  BY <1>3 DEF Accept, StandIn, New, Collect, Fail, history, TaskShape
<1>4. ASSUME NEW c \in Conns, HandleHello(c) \/ DenyHello(c) \/ HandleSay(c)
      PROVE  TaskShape'
  BY <1>4 DEF HandleHello, DenyHello, HandleSay, Hears, Route, Collect, Fail, history, TaskShape
<1>5. ASSUME NEW c \in Conns, Deliver(c) PROVE TaskShape'
  BY <1>5 DEF Deliver, history, TaskShape
<1>6. ASSUME NEW c \in Conns, Part(c) \/ PartQuietly(c) PROVE TaskShape'
  BY <1>6 DEF Part, PartQuietly, Collect, Fail, history, TaskShape
<1>7. ASSUME NEW c \in Conns, EndOfStream(c) PROVE TaskShape'
  BY <1>7 DEF EndOfStream, history, TaskShape
<1>8. ASSUME NEW c \in Conns, HangUp(c) \/ FallAsleep(c) \/ Beat(c) \/ Leave(c)
      PROVE  TaskShape'
  BY <1>8 DEF HangUp, FallAsleep, Beat, Leave, history, TaskShape
<1> QED
  BY <1>1, <1>2, <1>3, <1>4, <1>5, <1>6, <1>7, <1>8 DEF Next

LEMMA ShapedFirst ==
    ASSUME Init PROVE TaskShape
BY HubAssumption DEF Init, TaskShape

\* A handler on a server in order fails only if a call of it fails.
LEMMA HelloEnds ==
    ASSUME HubInv, NEW c \in Conns, NEW who, NEW keeps, NEW failing
    PROVE  IsServer(Hello(server, c, who, keeps, failing)) /\ (Fine(failing) => Hello(server, c, who, keeps, failing).ok)
<1> DEFINE room == Peer(c, who).room
           pr == [d \in Conns |-> proved[d] \cup {room}]
           t == Hello(server, c, who, keeps, failing)
<1>1. (\A d \in Conns : proved[d] \subseteq pr[d]) /\ room \in pr[c]
  OBVIOUS
<1> HIDE DEF pr
<1>2. RoomsKept(server, pr) /\ server.ok
  BY <1>1, WiderKeeps DEF HubInv
<1>3. t = Hello(server, c, who, keeps, failing)
  OBVIOUS
<1> HIDE DEF t
<1>4. IsServer(t) /\ (Fine(failing) => t.ok)
  BY <1>1, <1>2, <1>3, HelloKeeps DEF RoomsKept
<1> QED BY <1>4 DEF t

LEMMA StandEnds ==
    ASSUME HubInv, NEW c \in Conns, NEW who \in Identities, NEW keeps, NEW failing
    PROVE  IsServer(Stand(server, c, who, keeps, failing)) /\ (Fine(failing) => Stand(server, c, who, keeps, failing).ok)
<1> DEFINE room == who.user
           pr == [d \in Conns |-> proved[d] \cup {room}]
           t == Stand(server, c, who, keeps, failing)
<1>1. (\A d \in Conns : proved[d] \subseteq pr[d]) /\ room \in pr[c]
  OBVIOUS
<1> HIDE DEF pr
<1>2. RoomsKept(server, pr) /\ server.ok
  BY <1>1, WiderKeeps DEF HubInv
<1>3. t = Stand(server, c, who, keeps, failing)
  OBVIOUS
<1> HIDE DEF t
<1>4. IsServer(t) /\ (Fine(failing) => t.ok)
  BY <1>1, <1>2, <1>3, StandKeeps DEF RoomsKept
<1> QED BY <1>4 DEF t

LEMMA SayEnds ==
    ASSUME HubInv, NEW c \in Conns, NEW val, NEW keeps, NEW failing
    PROVE  IsServer(Say(server, c, val, keeps, failing)) /\ (Fine(failing) => Say(server, c, val, keeps, failing).ok)
<1> DEFINE t == Say(server, c, val, keeps, failing)
<1>1. t = Say(server, c, val, keeps, failing) /\ RoomsKept(server, proved) /\ server.ok
  BY DEF HubInv
<1> HIDE DEF t
<1>2. IsServer(t) /\ (Fine(failing) => t.ok)
  BY <1>1, SayKeeps DEF RoomsKept
<1> QED BY <1>2 DEF t

LEMMA DenyEnds ==
    ASSUME HubInv, NEW c \in Conns
    PROVE  /\ Deny(server, c).ok /\ IsServer(Deny(server, c))
           /\ Denied(c) \in Deny(server, c).out
<1> DEFINE t == Deny(server, c)
<1>1. t = Deny(server, c) /\ RoomsKept(server, proved) /\ server.ok
  BY DEF HubInv
<1> HIDE DEF t
<1>2. t.ok /\ IsServer(t) /\ Denied(c) \in t.out
  BY <1>1, DenyKeeps DEF RoomsKept
<1> QED BY <1>2 DEF t

\* A handler whose answer is collected, or whose task leaves when it failed.
LEMMA RouteCollects ==
    ASSUME TaskShape, NEW c \in Conns, NEW s, Route(c, s), IsServer(s),
           s.ok \/ kind[c] = "socket"
    PROVE  transport = "ws" \/ server'.out = {} \/ task'[c] = "leaving"
<1>1. CASE s.ok
  BY <1>1 DEF Route, Collect, IsServer
<1>2. CASE ~s.ok /\ kind[c] = "socket"
  BY <1>2 DEF Route, Fail, Watched, TaskShape
<1> QED BY <1>1, <1>2

LEMMA HandlersCollect ==
    ASSUME HubInv, TaskShape, "another" \notin Faults, NEW c \in Conns,
           HandleHello(c) \/ DenyHello(c) \/ HandleSay(c)
    PROVE  transport = "ws" \/ server'.out = {} \/ task'[c] = "leaving"
<1>1. CASE HandleHello(c)
  <2>1. PICK who \in Proofs, keeps \in SUBSET {"part", "join"},
          failing \in OneOf({"part", "close", "read", "join"}) :
           Failing(c, failing) /\ Route(c, Hello(server, c, who, keeps, failing))
    BY <1>1 DEF HandleHello
  <2>2. Fine(failing) \/ kind[c] = "socket"
    BY <2>1 DEF Failing, Fine
  <2> QED BY <2>1, <2>2, HelloEnds, RouteCollects
<1>2. CASE DenyHello(c)
  BY <1>2, DenyEnds, RouteCollects DEF DenyHello
<1>3. CASE HandleSay(c)
  <2>1. PICK val \in Values \cup {Null}, keeps \in SUBSET {"say"}, failing \in OneOf({"say"}) :
           Failing(c, failing) /\ Route(c, Say(server, c, val, keeps, failing))
    BY <1>3 DEF HandleSay
  <2>2. Fine(failing) \/ kind[c] = "socket"
    BY <2>1 DEF Failing, Fine
  <2> QED BY <2>1, <2>2, SayEnds, RouteCollects
<1> QED BY <1>1, <1>2, <1>3

LEMMA StandCollects ==
    ASSUME HubInv, TaskShape, "another" \notin Faults, NEW c \in Conns, StandIn(c)
    PROVE  server'.out = {}
<1>1. PICK who \in Identities, keeps \in SUBSET {"join"}, failing \in OneOf({"read", "join"}) :
         LET s == Stand(server, c, who, keeps, failing)
         IN  Failing(c, failing) /\ (s.ok => Collect(c, s, "delivering"))
  BY DEF StandIn
<1>2. Fine(failing)
  BY <1>1, HubAssumption DEF Failing, Fine, TaskShape, StandIn, New
<1> DEFINE s == Stand(server, c, who, keeps, failing)
<1>3. IsServer(s) /\ s.ok
  BY <1>2, StandEnds
<1>4. Collect(c, s, "delivering")
  BY <1>1, <1>3
<1> HIDE DEF s
<1> QED BY <1>3, <1>4 DEF Collect, IsServer

LEMMA PartCollects ==
    ASSUME HubInv, NEW c \in Conns, Part(c)
    PROVE  server'.out = {}
<1>1. PICK keeps \in SUBSET {"part"}, failing \in OneOf({"part", "close"}) :
         Collect(c, Disconnect(server, c, keeps, failing), "parting")
  BY DEF Part
<1> DEFINE s == Disconnect(server, c, keeps, failing)
<1>2. s = Disconnect(server, c, keeps, failing) /\ RoomsKept(server, proved) /\ server.ok = TRUE
  BY DEF HubInv
<1> HIDE DEF s
<1>3. IsServer(s)
  BY <1>2, DisconnectKeeps DEF RoomsKept
<1> QED BY <1>1, <1>3 DEF Collect, IsServer, s

\* A task that is leaving goes on leaving, until it collects.
LEMMA LeavingStays ==
    ASSUME TaskShape, NEW c \in Conns, NEW d \in Conns, task[d] = "leaving",
           \/ Accept(c) \/ HangUp(c) \/ EndOfStream(c) \/ FallAsleep(c)
           \/ Beat(c) \/ Leave(c) \/ Deliver(c)
    PROVE  task'[d] = "leaving"
BY DEF Accept, New, HangUp, EndOfStream, FallAsleep, Beat, Leave, Deliver, history, TaskShape

LEMMA StillWaiting ==
    ASSUME HubInv, TaskShape, "another" \notin Faults, OutboxCollected, [Next]_vars
    PROVE  OutboxCollected'
<1>1. CASE UNCHANGED vars
  BY <1>1 DEF vars, OutboxCollected
<1>2. CASE Crash
  BY <1>2, FreshKept DEF Crash, OutboxCollected
<1>3. ASSUME NEW c \in Conns,
             HandleHello(c) \/ DenyHello(c) \/ HandleSay(c)
      PROVE  OutboxCollected'
  <2>1. UNCHANGED transport
    BY <1>3 DEF HandleHello, DenyHello, HandleSay
  <2> QED BY <1>3, <2>1, HandlersCollect DEF OutboxCollected
<1>4. ASSUME NEW c \in Conns, StandIn(c) PROVE OutboxCollected'
  BY <1>4, StandCollects DEF OutboxCollected
<1>5. ASSUME NEW c \in Conns, Part(c) PROVE OutboxCollected'
  BY <1>5, PartCollects DEF OutboxCollected
<1>6. ASSUME NEW c \in Conns, PartQuietly(c) PROVE OutboxCollected'
  BY <1>6 DEF PartQuietly, history, OutboxCollected
<1>7. ASSUME NEW c \in Conns,
             \/ Accept(c) \/ HangUp(c) \/ EndOfStream(c) \/ FallAsleep(c)
             \/ Beat(c) \/ Leave(c) \/ Deliver(c)
      PROVE  OutboxCollected'
  <2>1. UNCHANGED <<server, transport>>
    BY <1>7, Unseen DEF Deliver, history
  <2> QED BY <1>7, <2>1, LeavingStays DEF OutboxCollected
<1> QED BY <1>1, <1>2, <1>3, <1>4, <1>5, <1>6, <1>7 DEF Next

\* What the server said is collected, if no call fails for a peer whose
\* errors nobody looks at: a standing peer's, or another's without a socket.
THEOREM NothingIsLeftUnsaid ==
    ASSUME "another" \notin Faults
    PROVE  Spec => []OutboxCollected
<1>1. Init => TaskShape /\ HubInv /\ OutboxCollected
  BY ShapedFirst, HubStarts, FreshKept DEF Init, OutboxCollected
<1>2. TaskShape /\ HubInv /\ OutboxCollected /\ [Next]_vars => TaskShape' /\ HubInv' /\ OutboxCollected'
  BY Shaped, StillWaiting, HubSteps
<1> QED BY <1>1, <1>2, PTL DEF Spec

----------------------------------------------------------------------------
(* Rooms continue *)

LEMMA SameWords ==
    ASSUME NEW s, NEW sd, NEW new, NEW t, Continues(s, sd, new),
           t.woken = s.woken, t.app = s.app, t.disk = s.disk
    PROVE  Continues(t, sd, new)
BY DEF Continues, Word

\* Writing an open room down changes no room that is not open.
LEMMA WrittenElsewhere ==
    ASSUME NEW s, NEW room, NEW q, q # room
    PROVE  /\ q \in DOMAIN WrittenDown(s, room) <=> q \in DOMAIN s.disk
           /\ q \in DOMAIN s.disk => WrittenDown(s, room)[q] = s.disk[q]
BY DEF WrittenDown, Put, Drop

LEMMA KeepContinues ==
    ASSUME NEW s, NEW sd, NEW room, NEW call, NEW failing, NEW t, t = Keep(s, room, call, failing),
           IsServer(s), room \in DOMAIN s.app, Continues(s, sd, {})
    PROVE  Continues(t, sd, {})
<1>1. t.woken = s.woken /\ t.app = s.app
  BY KeepKeeps
<1>2. CASE call \in failing
  <2>1. t.disk = s.disk
    BY <1>2 DEF IsServer, Keep, Failed
  <2> QED BY <1>1, <2>1, SameWords
<1>3. CASE call \notin failing
  <2>1. t.disk = WrittenDown(s, room)
    BY <1>3, KeepWrites
  <2>2. ASSUME NEW r \in Rooms PROVE Word(t, r) = Word(s, r)
    BY <1>1, <2>1, WrittenElsewhere DEF Word
  <2> QED BY <1>1, <2>2 DEF Continues
<1> QED BY <1>2, <1>3

LEMMA AskedContinues ==
    ASSUME NEW s, NEW sd, NEW room, NEW call, NEW keeps, NEW failing,
           NEW t, t = Asked(s, room, call, keeps, failing),
           IsServer(s), room \in DOMAIN s.app, Continues(s, sd, {})
    PROVE  Continues(t, sd, {})
<1>1. CASE call \notin keeps
  BY <1>1 DEF Asked
<1>2. CASE call \in keeps
  <2>1. t = Keep(s, room, call, failing)
    BY <1>2 DEF Asked
  <2> QED BY <2>1, KeepContinues
<1> QED BY <1>1, <1>2

\* A room that is written down may be closed.
LEMMA ClosedContinues ==
    ASSUME NEW s, NEW sd, NEW room, NEW t, room \in DOMAIN s.app, Continues(s, sd, {}),
           t.woken = s.woken \ {room}, t.app = Drop(s.app, room),
           t.disk = WrittenDown(s, room)
    PROVE  Continues(t, sd, {})
<1>1. /\ DOMAIN t.app = DOMAIN s.app \ {room}
      /\ \A q \in DOMAIN t.app : t.app[q] = s.app[q]
  BY DEF Drop
<1>2. ASSUME NEW r \in Rooms PROVE Word(t, r) = Word(s, r)
  <2>1. CASE r = room
    <3>1. Room(s, room) = s.app[room]
      BY DEF Room
    <3>2. CASE s.app[room].val = Null
      <4>1. room \notin DOMAIN t.disk
        BY <3>1, <3>2 DEF WrittenDown, Drop
      <4> QED BY <1>1, <2>1, <3>2, <4>1 DEF Word
    <3>3. CASE s.app[room].val # Null
      <4>1. room \in DOMAIN t.disk /\ t.disk[room] = s.app[room].val
        BY <3>1, <3>3 DEF WrittenDown, Put
      <4> QED BY <1>1, <2>1, <4>1 DEF Word
    <3> QED BY <3>2, <3>3
  <2>2. CASE r # room
    BY <1>1, <2>2, WrittenElsewhere DEF Word
  <2> QED BY <2>1, <2>2
<1> QED BY <1>1, <1>2 DEF Continues

\* An open room in which the same was said.
LEMMA SaidContinues ==
    ASSUME NEW s, NEW sd, NEW room, NEW val, NEW of, NEW t,
           Continues(s, of, {}), room \in DOMAIN s.app,
           t.woken = s.woken, t.disk = s.disk, t.app = Put(s.app, room, val),
           \A r \in Rooms : sd[r] = IF r = room THEN val.val ELSE of[r]
    PROVE  Continues(t, sd, {})
<1>1. /\ DOMAIN t.app = DOMAIN s.app /\ t.app[room] = val
      /\ \A q \in DOMAIN t.app : q # room => t.app[q] = s.app[q]
  BY DEF Put
<1>2. ASSUME NEW r \in Rooms PROVE sd[r] = Word(t, r)
  <2>1. CASE r = room
    BY <1>1, <2>1 DEF Word
  <2>2. CASE r # room
    BY <1>1, <2>2 DEF Word, Continues
  <2> QED BY <2>1, <2>2
<1> QED BY <1>1, <1>2 DEF Continues

LEMMA PartedContinues ==
    ASSUME NEW s, NEW pr, NEW sd, NEW c \in DOMAIN s.roster, RoomsKept(s, pr),
           Continues(s, sd, {}), NEW t, t = Parted(s, s.roster[c])
    PROVE  Continues(t, sd, {}) /\ s.roster[c].room \in DOMAIN t.app
<1> DEFINE p == s.roster[c]
           room == p.room
           less == Less(s, p)
<1>1. IsServer(s) /\ room \in DOMAIN s.app
  BY DEF RoomsKept, ToldOf
<1>2. t.woken = s.woken /\ t.disk = s.disk /\ t.app = Put(s.app, room, less)
  BY <1>1, PartedFields
<1>3. less.val = s.app[room].val
  <2>1. s.app[room] = [val |-> s.app[room].val, peers |-> s.app[room].peers]
    BY <1>1 DEF RoomsKept, AppKept
  <2>2. less = [s.app[room] EXCEPT !.peers = @ \ {p.conn}]
    BY <1>1 DEF Less, Room
  <2> HIDE DEF room, p, less
  <2> QED BY <2>1, <2>2
<1>4. \A r \in Rooms : sd[r] = IF r = room THEN less.val ELSE sd[r]
  BY <1>1, <1>3 DEF Continues, Word
<1>5. room \in DOMAIN t.app
  BY <1>2 DEF Put
<1> HIDE DEF less, room
<1>6. Continues(t, sd, {})
  BY <1>1, <1>2, <1>4, SaidContinues
<1> QED BY <1>5, <1>6 DEF room

LEMMA DepartContinues ==
    ASSUME NEW s, NEW pr, NEW sd, NEW c, NEW keeps, NEW failing, NEW d,
           Departs(s, c, keeps, failing, d),
           RoomsKept(s, pr), s.ok = TRUE, Continues(s, sd, {})
    PROVE  Continues(d, sd, {})
<1> DEFINE p == s.roster[c]
           t == Parted(s, p)
           a == Asked(t, p.room, "part", keeps, failing)
           k == Keep(a, p.room, "close", failing)
           e == Closed(k, p)
<1>0. c \in DOMAIN s.roster /\ d = Depart(s, p, keeps, failing)
  BY DEF Departs
<1> USE <1>0
<1>1. IsServer(s) /\ p.conn = c
  BY DEF RoomsKept, RosterKept
<1>2. /\ t = Parted(s, p) /\ a = Asked(t, p.room, "part", keeps, failing)
      /\ k = Keep(a, p.room, "close", failing)
      /\ e = Closed(k, p)
  OBVIOUS
<1>3. Continues(t, sd, {}) /\ p.room \in DOMAIN t.app
  BY PartedContinues
<1> HIDE DEF t, a, k, e
<1>4. IsServer(t)
  BY <1>1, <1>2, PartedFields
<1>5. d = IF ~a.ok \/ In(t, p.room) # {} THEN a ELSE IF ~k.ok THEN k ELSE e
  BY <1>1, <1>2, DepartIs
<1> DEFINE room == p.room
<1>a. Continues(a, sd, {}) /\ IsServer(a) /\ room \in DOMAIN a.app
  <2>1. a = Asked(t, room, "part", keeps, failing) /\ room \in DOMAIN t.app
    BY <1>2, <1>3
  <2> HIDE DEF room
  <2> QED BY <1>3, <1>4, <2>1, AskedKeeps, AskedContinues
<1>6. Continues(k, sd, {})
  <2>1. k = Keep(a, room, "close", failing)
    BY <1>2
  <2> HIDE DEF room
  <2> QED BY <1>a, <2>1, KeepContinues
<1>7. ASSUME k.ok PROVE Continues(e, sd, {})
  <2>1. k = Keep(a, room, "close", failing)
    BY <1>2
  <2>2. e = [k EXCEPT !.app = Drop(k.app, room), !.woken = k.woken \ {room}]
    BY <1>2 DEF Closed
  <2> HIDE DEF room
  <2>3. "close" \notin failing
    BY <1>a, <1>7, <2>1, KeepFails
  <2>4. IsServer(k) /\ k.woken = a.woken /\ k.app = a.app
    BY <1>a, <2>1, KeepKeeps
  <2>5. k.disk = WrittenDown(a, room)
    BY <1>a, <2>1, <2>3, KeepWrites
  <2>6. e.woken = a.woken \ {room} /\ e.app = Drop(a.app, room) /\ e.disk = k.disk
    BY <2>2, <2>4 DEF IsServer
  <2> QED BY <1>a, <2>5, <2>6, ClosedContinues
<1> QED BY <1>a, <1>5, <1>6, <1>7

\* A room that was never open has been offered what was written down.
LEMMA OpenedContinues ==
    ASSUME NEW s, NEW sd, NEW room, NEW failing, NEW t, t = Opened(s, room, failing),
           IsServer(s), Continues(s, sd, {}), "read" \notin failing
    PROVE  Continues(t, sd, {room})
<1>1. CASE room \in s.woken
  BY <1>1, OpenedAlready DEF Continues
<1>2. CASE room \notin s.woken /\ room \notin DOMAIN s.disk
  <2>1. Marked(s, t, room) /\ t.app = s.app
    BY <1>2, OpenedEmpty
  <2> QED BY <1>2, <2>1 DEF Marked, Continues, Word
<1>3. CASE room \notin s.woken /\ room \in DOMAIN s.disk
  <2>1. Marked(s, t, room) /\ t.app = Put(s.app, room, Offered(s, room))
    BY <1>3, OpenedRead
  <2>2. /\ DOMAIN t.app = DOMAIN s.app \cup {room}
        /\ t.app[room] = Offered(s, room)
        /\ \A q \in DOMAIN t.app : q # room => t.app[q] = s.app[q]
    BY <2>1 DEF Put
  <2>3. Offered(s, room).val = s.disk[room]
    BY DEF Offered, Empty
  <2>4. room \notin DOMAIN s.app
    BY <1>3 DEF Continues
  <2>5. ASSUME NEW r \in Rooms PROVE Word(t, r) = Word(s, r)
    <3>1. CASE r = room
      BY <1>3, <2>2, <2>3, <2>4, <3>1 DEF Word
    <3>2. CASE r # room
      BY <2>1, <2>2, <3>2 DEF Word, Marked
    <3> QED BY <3>1, <3>2
  <2> QED BY <2>1, <2>2, <2>5 DEF Marked, Continues
<1> QED BY <1>1, <1>2, <1>3

\* Whoever joins hears what was said, and nothing is said by joining.
LEMMA JoinedContinues ==
    ASSUME NEW s, NEW pr, NEW sd, NEW p, NEW t, t = Joined(s, p), RoomsKept(s, pr),
           p.room \in s.woken, Continues(s, sd, {p.room})
    PROVE  Continues(t, sd, {}) /\ p.room \in DOMAIN t.app
<1> DEFINE room == p.room
           more == More(s, p)
<1>1. t.woken = s.woken /\ t.disk = s.disk /\ t.app = Put(s.app, room, more)
  BY JoinedFields DEF RoomsKept
<1>2. more.val = Room(s, room).val
  <2>1. Room(s, room) = [val |-> Room(s, room).val, peers |-> Room(s, room).peers]
    BY DEF Room, Empty, RoomsKept, AppKept
  <2>2. more = [Room(s, room) EXCEPT !.peers = @ \cup {p.conn}]
    BY DEF More
  <2> HIDE DEF more, room
  <2> QED BY <2>1, <2>2
<1> HIDE DEF more
<1>3. /\ DOMAIN t.app = DOMAIN s.app \cup {room}
      /\ t.app[room] = more
      /\ \A q \in DOMAIN t.app : q # room => t.app[q] = s.app[q]
  BY <1>1 DEF Put
<1>4. ASSUME NEW r \in Rooms PROVE Word(t, r) = Word(s, r)
  <2>1. CASE r = room /\ room \in DOMAIN s.app
    BY <1>2, <1>3, <2>1 DEF Word, Room
  <2>2. CASE r = room /\ room \notin DOMAIN s.app
    <3>1. room \notin DOMAIN s.disk
      BY <2>2 DEF Continues
    <3>2. more.val = Null
      BY <1>2, <2>2 DEF Room, Empty
    <3> QED BY <1>3, <2>2, <3>1, <3>2 DEF Word
  <2>3. CASE r # room
    BY <1>1, <1>3, <2>3 DEF Word
  <2> QED BY <2>1, <2>2, <2>3
<1> QED BY <1>1, <1>3, <1>4 DEF Continues

LEMMA JoinContinues ==
    ASSUME NEW s, NEW pr, NEW sd, NEW p, NEW keeps, NEW failing,
           NEW t, t = Join(s, p, keeps, failing), RoomsKept(s, pr),
           p.room \in s.woken, Continues(s, sd, {p.room})
    PROVE  Continues(t, sd, {})
<1> DEFINE u == Joined(s, p)
           room == p.room
<1>1. u = Joined(s, p) /\ t = Asked(u, room, "join", keeps, failing)
  BY JoinIs
<1> HIDE DEF u
<1>2. Continues(u, sd, {}) /\ room \in DOMAIN u.app /\ IsServer(u)
  BY <1>1, JoinedContinues, JoinedFields DEF RoomsKept
<1> HIDE DEF room
<1> QED BY <1>1, <1>2, AskedContinues

LEMMA ArriveContinues ==
    ASSUME NEW s, NEW pr, NEW sd, NEW p, NEW keeps, NEW failing, NEW t, t = Arrive(s, p, keeps, failing),
           RoomsKept(s, pr), s.ok = TRUE, Continues(s, sd, {}), "read" \notin failing
    PROVE  Continues(t, sd, {})
<1> DEFINE was == {s.roster[c] : c \in DOMAIN s.roster \cap {p.conn}}
           left == IF was = {} THEN s ELSE Depart(s, s.roster[p.conn], keeps, failing)
           opened == Opened(left, p.room, failing)
<1>1. \/ t = s
      \/ ~left.ok /\ t = left
      \/ left.ok /\ ~opened.ok /\ t = opened
      \/ left.ok /\ opened.ok /\ t = Join(opened, p, keeps, failing)
  BY DEF Arrive
<1>2. was = {} <=> p.conn \notin DOMAIN s.roster
  OBVIOUS
<1> HIDE DEF was
<1>3. RoomsKept(left, pr) /\ Continues(left, sd, {})
  <2>1. CASE p.conn \notin DOMAIN s.roster
    BY <1>2, <2>1
  <2>2. CASE p.conn \in DOMAIN s.roster
    <3> DEFINE c == p.conn
               d == Depart(s, s.roster[c], keeps, failing)
    <3>1. left = d /\ Departs(s, c, keeps, failing, d)
      BY <1>2, <2>2 DEF Departs
    <3> HIDE DEF d, c, left
    <3>2. RoomsKept(d, pr)
      BY <3>1, DepartKeeps
    <3>3. Continues(d, sd, {})
      BY <3>1, DepartContinues
    <3> QED BY <3>1, <3>2, <3>3
  <2> QED BY <2>1, <2>2
<1> HIDE DEF left
<1>4. /\ RoomsKept(opened, pr)
      /\ p.room \in opened.woken /\ opened.ok = left.ok
  BY <1>3, OpenedKeeps
<1>5. Continues(opened, sd, {p.room})
  BY <1>3, OpenedContinues DEF RoomsKept
<1> HIDE DEF opened
<1>6. CASE t = Join(opened, p, keeps, failing)
  BY <1>4, <1>5, <1>6, JoinContinues
<1> QED BY <1>1, <1>3, <1>4, <1>6

LEMMA HelloContinues ==
    ASSUME NEW s, NEW pr, NEW sd, NEW c \in Conns, NEW who, NEW keeps, NEW failing,
           NEW t, t = Hello(s, c, who, keeps, failing), RoomsKept(s, pr), s.ok = TRUE,
           Continues(s, sd, {}), "read" \notin failing
    PROVE  Continues(t, sd, {})
<1> DEFINE cs == Put(s.conns, c, who)
           u == [s EXCEPT !.conns = cs]
           p == Peer(c, who)
<1>1. t = Arrive(u, p, keeps, failing)
  BY DEF Hello
<1> HIDE DEF cs, p
<1>2. /\ RoomsKept(u, pr) /\ u.ok = s.ok
      /\ u.woken = s.woken /\ u.app = s.app /\ u.disk = s.disk
  BY ConnsKeep
<1> HIDE DEF u
<1>3. Continues(u, sd, {})
  BY <1>2, SameWords
<1> QED BY <1>1, <1>2, <1>3, ArriveContinues

LEMMA StandContinues ==
    ASSUME NEW s, NEW pr, NEW sd, NEW c \in Conns, NEW who, NEW keeps, NEW failing,
           NEW t, t = Stand(s, c, who, keeps, failing), RoomsKept(s, pr), s.ok = TRUE,
           Continues(s, sd, {}), "read" \notin failing
    PROVE  Continues(t, sd, {})
<1> DEFINE p == Peer(c, who)
<1>1. t = Arrive(s, p, keeps, failing)
  BY DEF Stand
<1> HIDE DEF p
<1> QED BY <1>1, ArriveContinues

\* What is said is the room's from then on, written down at once or not.
LEMMA SayContinues ==
    ASSUME NEW s, NEW pr, NEW sd, NEW of, NEW c \in DOMAIN s.roster, NEW val, NEW keeps,
           NEW failing, NEW t, t = Say(s, c, val, keeps, failing), RoomsKept(s, pr),
           Continues(s, of, {}),
           \A r \in Rooms : sd[r] = IF r = s.roster[c].room THEN val ELSE of[r]
    PROVE  Continues(t, sd, {})
<1> DEFINE room == s.roster[c].room
           u == Spoken(s, c, val)
           said_in == [Room(s, room) EXCEPT !.val = val]
<1>1. t = Asked(u, room, "say", keeps, failing)
  BY DEF Say, Spoken
<1>2. RoomsKept(u, pr)
  BY SpokenKeeps
<1>3. IsServer(s) /\ room \in DOMAIN s.app
  BY DEF RoomsKept, ToldOf
<1>4. said_in.val = val
  <2>1. Room(s, room) = [val |-> s.app[room].val, peers |-> s.app[room].peers]
    BY <1>3 DEF Room, RoomsKept, AppKept
  <2> HIDE DEF room
  <2> QED BY <2>1
<1>5. u = Spoken(s, c, val) /\ room = s.roster[c].room
  OBVIOUS
<1> HIDE DEF u
<1>6. u.woken = s.woken /\ u.disk = s.disk /\ u.app = Put(s.app, room, said_in)
  BY <1>3, <1>5, SpokenIs
<1>7. \A r \in Rooms : sd[r] = IF r = room THEN said_in.val ELSE of[r]
  BY <1>4
<1> HIDE DEF said_in
<1> HIDE DEF room
<1>9. Continues(u, sd, {})
  BY <1>3, <1>6, <1>7, SaidContinues
<1>10. room \in DOMAIN u.app
  BY <1>6 DEF Put
<1> QED BY <1>1, <1>2, <1>9, <1>10, AskedContinues DEF RoomsKept

LEMMA DisconnectContinues ==
    ASSUME NEW s, NEW pr, NEW sd, NEW c, NEW keeps, NEW failing, NEW t,
           t = Disconnect(s, c, keeps, failing), RoomsKept(s, pr), s.ok = TRUE,
           Continues(s, sd, {})
    PROVE  Continues(t, sd, {})
<1> DEFINE cut == [s EXCEPT !.conns = Drop(@, c)]
<1>0. cut = [s EXCEPT !.conns = Drop(s.conns, c)]
  OBVIOUS
<1>2. t = IF c \notin DOMAIN s.roster THEN cut
          ELSE [Depart(cut, s.roster[c], keeps, failing) EXCEPT !.ok = TRUE]
  BY DEF Disconnect
<1> HIDE DEF cut
<1>1. /\ RoomsKept(cut, pr) /\ cut.roster = s.roster /\ cut.ok = TRUE
      /\ cut.woken = s.woken /\ cut.app = s.app /\ cut.disk = s.disk
  BY <1>0, ConnsKeep
<1>4. Continues(cut, sd, {})
  BY <1>1, SameWords
<1>3. CASE c \in DOMAIN s.roster
  <2> DEFINE d == Depart(cut, cut.roster[c], keeps, failing)
  <2>1. Departs(cut, c, keeps, failing, d)
    BY <1>1, <1>3 DEF Departs
  <2>2. t = [d EXCEPT !.ok = TRUE]
    BY <1>1, <1>2, <1>3
  <2> HIDE DEF d
  <2>3. RoomsKept(d, pr) /\ Continues(d, sd, {})
    BY <1>1, <1>4, <2>1, DepartKeeps, DepartContinues
  <2>4. t.woken = d.woken /\ t.app = d.app /\ t.disk = d.disk
    BY <2>2, <2>3 DEF RoomsKept, IsServer
  <2> QED BY <2>3, <2>4, SameWords
<1> QED BY <1>2, <1>3, <1>4

\* What was said is what the server knows was said.
WordsKept == Continues(server, said, {}) /\ said = [r \in Rooms |-> said[r]]

LEMMA HandledContinues ==
    ASSUME NEW c, NEW s, NEW sd, IsServer(s), Continues(s, sd, {}),
           \E next : Collect(c, s, next) \/ Fail(c, s, next)
    PROVE  Continues(server', sd, {})
<1> DEFINE t == server'
<1>1. t = [s EXCEPT !.out = {}, !.ok = TRUE] \/ t = [s EXCEPT !.ok = TRUE]
  BY DEF Collect, Fail
<1> HIDE DEF t
<1>2. t.woken = s.woken /\ t.app = s.app /\ t.disk = s.disk
  BY <1>1 DEF IsServer
<1>3. Continues(t, sd, {})
  BY <1>2, SameWords
<1> QED BY <1>3 DEF t

LEMMA WordsHello ==
    ASSUME HubInv, WordsKept, "read" \notin Faults, NEW c \in Conns, HandleHello(c)
    PROVE  WordsKept'
<1>1. PICK who \in Proofs, keeps \in SUBSET {"part", "join"},
          failing \in OneOf({"part", "close", "read", "join"}) :
         Failing(c, failing) /\ Route(c, Hello(server, c, who, keeps, failing))
  BY DEF HandleHello
<1>2. "read" \notin failing
  BY <1>1 DEF Failing, Fault, OneOf
<1> DEFINE t == Hello(server, c, who, keeps, failing)
<1>3. IsServer(t) /\ Continues(t, said, {})
  <2>1. t = Hello(server, c, who, keeps, failing)
    OBVIOUS
  <2>2. RoomsKept(server, proved) /\ server.ok = TRUE /\ Continues(server, said, {})
    BY DEF HubInv, WordsKept
  <2>3. IsServer(t)
    BY HelloEnds
  <2> HIDE DEF t
  <2> QED BY <1>2, <2>1, <2>2, <2>3, HelloContinues
<1>4. \E next : Collect(c, t, next) \/ Fail(c, t, next)
  BY <1>1 DEF Route
<1> HIDE DEF t
<1>5. Continues(server', said, {})
  BY <1>3, <1>4, HandledContinues
<1>6. UNCHANGED said
  BY DEF HandleHello
<1> QED BY <1>5, <1>6 DEF WordsKept

LEMMA WordsStand ==
    ASSUME HubInv, WordsKept, "read" \notin Faults, NEW c \in Conns, StandIn(c)
    PROVE  WordsKept'
<1>1. PICK who \in Identities, keeps \in SUBSET {"join"}, failing \in OneOf({"read", "join"}) :
         LET s == Stand(server, c, who, keeps, failing)
         IN  /\ Failing(c, failing)
             /\ IF s.ok THEN Collect(c, s, "delivering") ELSE Fail(c, s, "done")
  BY DEF StandIn
<1>2. "read" \notin failing
  BY <1>1 DEF Failing, Fault, OneOf
<1> DEFINE t == Stand(server, c, who, keeps, failing)
<1>3. IsServer(t) /\ Continues(t, said, {})
  <2>1. t = Stand(server, c, who, keeps, failing)
    OBVIOUS
  <2>2. RoomsKept(server, proved) /\ server.ok = TRUE /\ Continues(server, said, {})
    BY DEF HubInv, WordsKept
  <2>3. IsServer(t)
    BY StandEnds
  <2> HIDE DEF t
  <2> QED BY <1>2, <2>1, <2>2, <2>3, StandContinues
<1>4. \E next : Collect(c, t, next) \/ Fail(c, t, next)
  BY <1>1
<1> HIDE DEF t
<1>5. Continues(server', said, {})
  BY <1>3, <1>4, HandledContinues
<1>6. UNCHANGED said
  BY DEF StandIn
<1> QED BY <1>5, <1>6 DEF WordsKept

LEMMA WordsSay ==
    ASSUME HubInv, WordsKept, NEW c \in Conns, HandleSay(c)
    PROVE  WordsKept'
<1>1. PICK val \in Values \cup {Null}, keeps \in SUBSET {"say"}, failing \in OneOf({"say"}) :
         /\ Route(c, Say(server, c, val, keeps, failing))
         /\ said' = IF c \notin DOMAIN server.roster THEN said
                    ELSE [said EXCEPT ![server.roster[c].room] = val]
  BY DEF HandleSay
<1> DEFINE t == Say(server, c, val, keeps, failing)
           sd == said'
<1>2. /\ t = Say(server, c, val, keeps, failing)
      /\ RoomsKept(server, proved) /\ Continues(server, said, {})
  BY DEF HubInv, WordsKept
<1>3. IsServer(t)
  BY SayEnds
<1>4. \E next : Collect(c, t, next) \/ Fail(c, t, next)
  BY <1>1 DEF Route
<1>5. Continues(t, sd, {}) /\ sd = [r \in Rooms |-> sd[r]]
  <2>1. CASE c \notin DOMAIN server.roster
    BY <1>1, <2>1 DEF Say, WordsKept
  <2>2. CASE c \in DOMAIN server.roster
    <3> DEFINE room == server.roster[c].room
    <3>1. sd = [said EXCEPT ![room] = val] /\ said = [r \in Rooms |-> said[r]]
      BY <1>1, <2>2 DEF WordsKept
    <3> HIDE DEF sd, t
    <3>2. \A r \in Rooms : sd[r] = IF r = room THEN val ELSE said[r]
      BY <3>1
    <3>3. sd = [r \in Rooms |-> sd[r]]
      BY <3>1
    <3>4. Continues(t, sd, {})
      BY <1>2, <2>2, <3>2, SayContinues
    <3> QED BY <3>3, <3>4
  <2> QED BY <2>1, <2>2
<1> HIDE DEF t, sd
<1>6. Continues(server', sd, {})
  BY <1>3, <1>4, <1>5, HandledContinues
<1> QED BY <1>5, <1>6 DEF WordsKept, sd

LEMMA WordsDeny ==
    ASSUME HubInv, WordsKept, NEW c \in Conns, DenyHello(c)
    PROVE  WordsKept'
<1> DEFINE t == Deny(server, c)
<1>1. IsServer(t) /\ t.woken = server.woken /\ t.app = server.app /\ t.disk = server.disk
  BY DEF Deny, HubInv, RoomsKept, IsServer
<1>2. UNCHANGED said /\ \E next : Collect(c, t, next) \/ Fail(c, t, next)
  BY DEF DenyHello, Route, history
<1> HIDE DEF t
<1>3. Continues(t, said, {})
  BY <1>1, SameWords DEF WordsKept
<1>4. Continues(server', said, {})
  BY <1>1, <1>2, <1>3, HandledContinues
<1> QED BY <1>2, <1>4 DEF WordsKept

LEMMA WordsPart ==
    ASSUME HubInv, WordsKept, NEW c \in Conns, Part(c) \/ PartQuietly(c)
    PROVE  WordsKept'
<1>1. PICK keeps \in SUBSET {"part"}, failing \in OneOf({"part", "close"}) :
         \/ Collect(c, Disconnect(server, c, keeps, failing), "parting")
         \/ Fail(c, Disconnect(server, c, keeps, failing), "parting")
  BY DEF Part, PartQuietly
<1> DEFINE t == Disconnect(server, c, keeps, failing)
<1>2. UNCHANGED said /\ \E next : Collect(c, t, next) \/ Fail(c, t, next)
  BY <1>1 DEF Part, PartQuietly, history
<1>3. /\ t = Disconnect(server, c, keeps, failing)
      /\ RoomsKept(server, proved) /\ server.ok = TRUE /\ Continues(server, said, {})
  BY DEF HubInv, WordsKept
<1> HIDE DEF t
<1>4. IsServer(t) /\ Continues(t, said, {})
  BY <1>3, DisconnectKeeps, DisconnectContinues DEF RoomsKept
<1>5. Continues(server', said, {})
  BY <1>2, <1>4, HandledContinues
<1> QED BY <1>2, <1>5 DEF WordsKept

\* What is on disk when a process ends is what the next one starts from.
LEMMA WordsCrash ==
    ASSUME WordsKept, Crash
    PROVE  WordsKept'
<1> DEFINE t == server'
           sd == said'
           disk == server.disk
<1>1. /\ t = Fresh(disk)
      /\ sd = [r \in Rooms |-> IF r \in DOMAIN disk THEN disk[r] ELSE Null]
  BY DEF Crash
<1> HIDE DEF t, sd, disk
<1>2. t.woken = {} /\ t.app = Nobody /\ t.disk = disk /\ DOMAIN Nobody = {}
  BY <1>1 DEF Fresh, Nobody
<1>3. \A r \in Rooms : sd[r] = Word(t, r)
  BY <1>1, <1>2 DEF Word
<1>4. Continues(t, sd, {})
  BY <1>2, <1>3 DEF Continues
<1> QED BY <1>1, <1>4 DEF WordsKept, t, sd

LEMMA WordsStart ==
    ASSUME Init
    PROVE  WordsKept
<1> DEFINE t == server
<1>1. t = Fresh(Nobody) /\ said = [r \in Rooms |-> Null]
  BY DEF Init
<1> HIDE DEF t
<1>2. t.woken = {} /\ t.app = Nobody /\ t.disk = Nobody /\ DOMAIN Nobody = {}
  BY <1>1 DEF Fresh, Nobody
<1>3. \A r \in Rooms : said[r] = Word(t, r)
  BY <1>1, <1>2 DEF Word
<1>4. Continues(t, said, {})
  BY <1>2, <1>3 DEF Continues
<1> QED BY <1>1, <1>4 DEF WordsKept, t

LEMMA WordsStep ==
    ASSUME HubInv, WordsKept, "read" \notin Faults, [Next]_vars
    PROVE  WordsKept'
<1>1. CASE UNCHANGED vars
  BY <1>1 DEF vars, WordsKept, Continues, Word
<1>2. CASE Crash
  BY <1>2, WordsCrash
<1>3. ASSUME NEW c \in Conns,
             \/ Accept(c) \/ HangUp(c) \/ EndOfStream(c) \/ FallAsleep(c)
             \/ Beat(c) \/ Leave(c) \/ Deliver(c)
      PROVE  WordsKept'
  <2>1. UNCHANGED <<server, said>>
    BY <1>3 DEF Accept, HangUp, EndOfStream, FallAsleep, Beat, Leave, Deliver, history
  <2> QED BY <2>1 DEF WordsKept, Continues, Word
<1>4. ASSUME NEW c \in Conns, StandIn(c) PROVE WordsKept'
  BY <1>4, WordsStand
<1>5. ASSUME NEW c \in Conns, HandleHello(c) PROVE WordsKept'
  BY <1>5, WordsHello
<1>6. ASSUME NEW c \in Conns, DenyHello(c) PROVE WordsKept'
  BY <1>6, WordsDeny
<1>7. ASSUME NEW c \in Conns, HandleSay(c) PROVE WordsKept'
  BY <1>7, WordsSay
<1>8. ASSUME NEW c \in Conns, Part(c) \/ PartQuietly(c) PROVE WordsKept'
  BY <1>8, WordsPart
<1> QED
  BY <1>1, <1>2, <1>3, <1>4, <1>5, <1>6, <1>7, <1>8 DEF Next

\* A room is its last word, however often everybody goes, whatever writes
\* fail and whenever the process ends, if its snapshot can be read.
THEOREM RoomsContinue ==
    ASSUME "read" \notin Faults
    PROVE  Spec => []RoomContinues
<1>1. Init => HubInv /\ WordsKept
  BY HubStarts, WordsStart
<1>2. HubInv /\ WordsKept /\ [Next]_vars => HubInv' /\ WordsKept'
  BY HubSteps, WordsStep
<1>3. WordsKept => RoomContinues
  BY DEF WordsKept, Continues, RoomContinues
<1> QED BY <1>1, <1>2, <1>3, PTL DEF Spec
=============================================================================
