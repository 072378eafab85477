------------------------------ MODULE Sessions ------------------------------
(***************************************************************************)
(* Who a peer is: crates/petros-auth.  A device opens a login URL, a       *)
(* person signs in, the server issues a session and a code for it, and the *)
(* device exchanges the code for the token it shows in every Hello.  The   *)
(* engine asks the store what a token proves and whose a session was, and  *)
(* entries keep the session they were authored under.                      *)
(*                                                                         *)
(* A token, a state and a code are what the server drew at random, so each *)
(* is the number of its drawing.  The provider is external: it sends back  *)
(* whoever signed in, under the state and the nonce it was asked with.     *)
(***************************************************************************)
EXTENDS Integers, FiniteSets

CONSTANTS
    Devices, Users,
    Modes,       \* "oidc": through a provider; "dev": as whoever one says
    CodeTtl,     \* CODE_TTL_MS
    PendingTtl,  \* PENDING_TTL_MS
    SessionTtl,  \* ttl_ms of the store
    Last,        \* the last moment of the clock
    MaxLogins,   \* how many logins are begun
    Faults,      \* what goes wrong: "restart", "lost", "provider", "store", "owns"
    MaxFaults,
    Null

ASSUME SessionsAssumption ==
    /\ Modes \subseteq {"oidc", "dev"}
    /\ {CodeTtl, PendingTtl} \subseteq Nat \ {0}
    /\ {SessionTtl, Last, MaxLogins, MaxFaults} \subseteq Nat
    /\ Null \notin Users

VARIABLES
    mode,      \* how people sign in at this server
    now,       \* now_ms
    drawn,     \* how many logins were begun: the next state
    pending,   \* logins begun: state -> when
    handling,  \* callbacks under way: [state, user], and who the provider says
    sessions,  \* petros_sessions: [user, expires, revoked] by id
    codes,     \* logins to collect: code -> [session, issued]
    attempt,   \* what each device is in the middle of
    held,      \* the login each device keeps: a session, or none
    conn,      \* what each device's connection proved at its Hello
    queue,     \* the entries each device has not pushed: [user, session, n]
    log,       \* the entries the server took
    faults,
    owner,     \* history: who signed in under each state
    handed,    \* history: how often each session's token was handed out
    refused    \* history: the entries refused, and whether the store answered

device == <<attempt, held, conn, queue>>
history == <<mode, owner, handed, refused>>
vars == <<now, drawn, pending, handling, sessions, codes, device, log, faults, history>>

Fault(f) == f \in Faults /\ faults < MaxFaults /\ faults' = faults + 1

Nothing == [x \in {} |-> Null]
Put(f, x, v) == [y \in DOMAIN f \cup {x} |-> IF y = x THEN v ELSE f[y]]
Only(f, S) == [y \in DOMAIN f \cap S |-> f[y]]

Ids == 1..MaxLogins

\* lookup: the session a token is for, if it is live.
Live(s) ==
    s \in DOMAIN sessions /\ ~sessions[s].revoked /\ sessions[s].expires > now

\* owned_by: live, expired or revoked.
OwnedBy(user, s) == s \in DOMAIN sessions /\ sessions[s].user = user

----------------------------------------------------------------------------
(* Signing in *)

Begin(d) ==
    /\ attempt[d].step = "none"
    /\ drawn < MaxLogins
    /\ drawn' = drawn + 1

\* login with a provider: what is too old is dropped, the new one kept.
Login(d) ==
    /\ mode = "oidc"
    /\ Begin(d)
    /\ pending' = Put(Only(pending, {p \in DOMAIN pending : now - pending[p] < PendingTtl}),
                      drawn', now)
    /\ attempt' = [attempt EXCEPT ![d] = [step |-> "asked", id |-> drawn']]
    /\ UNCHANGED <<now, handling, sessions, codes, held, conn, queue, log, faults, history>>

\* The person signs in at the provider, which sends the browser to the callback.
SignIn(d, user) ==
    /\ attempt[d].step = "asked"
    /\ attempt' = [attempt EXCEPT ![d].step = "signed"]
    /\ owner' = Put(owner, attempt[d].id, user)
    /\ UNCHANGED <<now, drawn, pending, handling, sessions, codes, held, conn, queue,
                   log, faults, mode, handed, refused>>

None == [step |-> "none", id |-> 0]
GiveUp(d) == attempt' = [attempt EXCEPT ![d] = None]

\* Mutant: the callback takes whichever login is pending.
CallbackAny(d) ==
    /\ attempt[d].step = "signed"
    /\ \E state \in DOMAIN pending :
          /\ pending' = Only(pending, DOMAIN pending \ {state})
          /\ now - pending[state] < PendingTtl
          /\ handling' = handling \cup {[state |-> state, user |-> owner[attempt[d].id]]}
          /\ attempt' = [attempt EXCEPT ![d].step = "called"]
    /\ UNCHANGED <<now, drawn, sessions, codes, held, conn, queue, log, faults, history>>

\* callback: the pending login is taken out, for good, and must not be too old.
Callback(d) ==
    LET state == attempt[d].id
    IN  /\ attempt[d].step = "signed"
        /\ pending' = Only(pending, DOMAIN pending \ {state})
        /\ IF state \in DOMAIN pending /\ now - pending[state] < PendingTtl
           THEN /\ handling' = handling \cup {[state |-> state, user |-> owner[state]]}
                /\ attempt' = [attempt EXCEPT ![d].step = "called"]
           ELSE GiveUp(d) /\ UNCHANGED handling
        /\ UNCHANGED <<now, drawn, sessions, codes, held, conn, queue, log, faults, history>>

Session(user) == [user |-> user, expires |-> now + SessionTtl, revoked |-> FALSE]

\* Mutant: codes stay until they are redeemed.
FinishKeeping(id, user) ==
    /\ sessions' = Put(sessions, id, Session(user))
    /\ codes' = Put(codes, id, [session |-> id, issued |-> now])

\* finish: a session, and a code for it; what is too old is dropped.
Finish(id, user) ==
    /\ sessions' = Put(sessions, id, Session(user))
    /\ codes' = Put(Only(codes, {c \in DOMAIN codes : now - codes[c].issued < CodeTtl}),
                    id, [session |-> id, issued |-> now])

\* Where the answer to a callback goes: to whom the login was begun for, if it
\* is still waiting.
Answered(state, next) ==
    attempt' = [d \in Devices |-> IF attempt[d].id = state THEN next ELSE attempt[d]]

\* The two round trips are made and the checks of the ID token hold.
Called(h) ==
    /\ handling' = handling \ {h}
    /\ Finish(h.state, h.user)
    /\ Answered(h.state, [step |-> "code", id |-> h.state])
    /\ UNCHANGED <<now, drawn, pending, held, conn, queue, log, faults, history>>

\* The provider, or the write of the session, fails.
CalledFails(h) ==
    /\ \E f \in {"provider", "store"} : Fault(f)
    /\ handling' = handling \ {h}
    /\ Answered(h.state, None)
    /\ UNCHANGED <<now, drawn, pending, sessions, codes, held, conn, queue, log, history>>

\* login in dev mode: begun and finished at once, as whoever it says.
LoginDev(d, user) ==
    /\ mode = "dev"
    /\ Begin(d)
    /\ Finish(drawn', user)
    /\ owner' = Put(owner, drawn', user)
    /\ attempt' = [attempt EXCEPT ![d] = [step |-> "code", id |-> drawn']]
    /\ UNCHANGED <<now, pending, handling, held, conn, queue, log, faults, mode, handed, refused>>

\* The person closes the page, or the browser never comes back.
Abandon(d) ==
    /\ attempt[d].step # "none"
    /\ GiveUp(d)
    /\ UNCHANGED <<now, drawn, pending, handling, sessions, codes, held, conn, queue, log,
                   faults, history>>

\* Mutant: a code is good for as long as it is fresh.
RedeemAgain(d) ==
    LET code == attempt[d].id
    IN  /\ attempt[d].step = "code"
        /\ code \in DOMAIN codes
        /\ now - codes[code].issued < CodeTtl
        /\ handed' = [handed EXCEPT ![codes[code].session] = @ + 1]
        /\ UNCHANGED <<now, drawn, pending, handling, sessions, codes, queue, log,
                       mode, owner, refused>>

\* exchange and redeem: the code is used up, whether or not it is too old.
Redeem(d) ==
    LET code == attempt[d].id
    IN  /\ attempt[d].step = "code"
        /\ code \in DOMAIN codes
        /\ now - codes[code].issued < CodeTtl
        /\ handed' = [handed EXCEPT ![codes[code].session] = @ + 1]
        /\ codes' = Only(codes, DOMAIN codes \ {code})
        /\ UNCHANGED <<now, drawn, pending, handling, sessions, queue, log, mode, owner, refused>>

\* The answer arrives, and the device keeps the login; its connections are new.
Exchange(d) ==
    /\ Redeem(d)
    /\ held' = [held EXCEPT ![d] = codes[attempt[d].id].session]
    /\ conn' = [conn EXCEPT ![d] = 0]
    /\ GiveUp(d)
    /\ UNCHANGED faults

\* The answer is lost, and the request is sent again.
ExchangeLost(d) ==
    /\ Redeem(d)
    /\ Fault("lost")
    /\ UNCHANGED <<attempt, held, conn>>

\* That code has been used, or has expired.
ExchangeRefused(d) ==
    LET code == attempt[d].id
    IN  /\ attempt[d].step = "code"
        /\ code \in DOMAIN codes => now - codes[code].issued >= CodeTtl
        /\ codes' = Only(codes, DOMAIN codes \ {code})
        /\ GiveUp(d)
        /\ UNCHANGED <<now, drawn, pending, handling, sessions, held, conn, queue, log, faults,
                       history>>

\* logout: the token proves nothing from here, and the device forgets it.
Logout(d) ==
    /\ held[d] # 0
    /\ sessions' = [sessions EXCEPT ![held[d]].revoked = TRUE]
    /\ held' = [held EXCEPT ![d] = 0]
    /\ UNCHANGED <<now, drawn, pending, handling, codes, attempt, conn, queue, log, faults,
                   history>>

----------------------------------------------------------------------------
(* What the engine asks *)

\* authenticate, at a Hello: turned away if the token is not live.
Hello(d) ==
    /\ held[d] # 0
    /\ conn' = [conn EXCEPT ![d] = IF Live(held[d]) THEN held[d] ELSE 0]
    /\ UNCHANGED <<now, drawn, pending, handling, sessions, codes, attempt, held, queue, log,
                   faults, history>>

\* A store that fails to answer answers no.
HelloUnanswered(d) ==
    /\ held[d] # 0
    /\ Fault("store")
    /\ conn' = [conn EXCEPT ![d] = 0]
    /\ UNCHANGED <<now, drawn, pending, handling, sessions, codes, attempt, held, queue, log,
                   history>>

\* A mutation, offline or not, under whichever login the device has.
Author(d) ==
    /\ held[d] # 0
    /\ LET e == [user |-> sessions[held[d]].user, session |-> held[d]]
       IN  e \notin queue[d] \cup log /\ queue' = [queue EXCEPT ![d] = @ \cup {e}]
    /\ UNCHANGED <<now, drawn, pending, handling, sessions, codes, attempt, held, conn, log,
                   faults, history>>

\* Mutant: only the login the connection has proved.
PermittedNow(who, e) == e.user = sessions[who].user /\ e.session = who

\* permitted: the connection's user, under any login of theirs.
Permitted(who, e) ==
    /\ e.user = sessions[who].user
    /\ e.session = who \/ OwnedBy(e.user, e.session)

Answer(e, answered) == [entry |-> e, answered |-> answered]

\* A device opens the database of the user it is signed in as, and pushes what
\* is queued there.
Push(d) ==
    /\ conn[d] # 0
    /\ \E e \in queue[d] :
          /\ e.user = sessions[conn[d]].user
          /\ queue' = [queue EXCEPT ![d] = @ \ {e}]
          /\ IF Permitted(conn[d], e)
             THEN log' = log \cup {e} /\ UNCHANGED refused
             ELSE refused' = refused \cup {Answer(e, TRUE)} /\ UNCHANGED log
    /\ UNCHANGED <<now, drawn, pending, handling, sessions, codes, attempt, held, conn, faults,
                   mode, owner, handed>>

\* The store fails under `owns`: the answer is no, and the entry is refused.
PushUnanswered(d) ==
    /\ conn[d] # 0
    /\ Fault("owns")
    /\ \E e \in queue[d] :
          /\ e.user = sessions[conn[d]].user /\ e.session # conn[d]
          /\ queue' = [queue EXCEPT ![d] = @ \ {e}]
          /\ refused' = refused \cup {Answer(e, FALSE)}
    /\ UNCHANGED <<now, drawn, pending, handling, sessions, codes, attempt, held, conn, log,
                   mode, owner, handed>>

----------------------------------------------------------------------------
\* A minute passes.
Tick ==
    /\ now < Last
    /\ now' = now + 1
    /\ UNCHANGED <<drawn, pending, handling, sessions, codes, device, log, faults, history>>

\* The process ends and starts again: what is not in the store is gone.
Restart ==
    /\ Fault("restart")
    /\ pending' = Nothing
    /\ codes' = Nothing
    /\ handling' = {}
    /\ conn' = [d \in Devices |-> 0]
    /\ attempt' = [d \in Devices |->
          IF attempt[d].step = "called" THEN None ELSE attempt[d]]
    /\ UNCHANGED <<now, drawn, sessions, held, queue, log, history>>

Init ==
    /\ mode \in Modes
    /\ now = 0
    /\ drawn = 0
    /\ pending = Nothing
    /\ handling = {}
    /\ sessions = Nothing
    /\ codes = Nothing
    /\ attempt = [d \in Devices |-> None]
    /\ held = [d \in Devices |-> 0]
    /\ conn = [d \in Devices |-> 0]
    /\ queue = [d \in Devices |-> {}]
    /\ log = {}
    /\ faults = 0
    /\ owner = Nothing
    /\ handed = [i \in Ids |-> 0]
    /\ refused = {}

Next ==
    \/ \E d \in Devices :
          \/ Login(d) \/ Callback(d) \/ Abandon(d)
          \/ Exchange(d) \/ ExchangeLost(d) \/ ExchangeRefused(d) \/ Logout(d)
          \/ Hello(d) \/ HelloUnanswered(d) \/ Author(d) \/ Push(d) \/ PushUnanswered(d)
          \/ \E u \in Users : SignIn(d, u) \/ LoginDev(d, u)
    \/ \E h \in handling : Called(h) \/ CalledFails(h)
    \/ Tick
    \/ Restart

Spec == Init /\ [][Next]_vars

----------------------------------------------------------------------------
(* Properties *)

\* A token is handed out once, however often its code is sent, and to no more
\* than one device (the header of petros-auth: C is single-use).
HandedOnce ==
    /\ \A i \in Ids : handed[i] <= 1
    /\ \A c, d \in Devices : c # d /\ held[c] # 0 => held[c] # held[d]

\* The login of a session, and what is authored under it, is the person's who
\* signed in for it, whatever other logins were under way (Challenge).
SessionIsOwn ==
    /\ \A s \in DOMAIN sessions : s \in DOMAIN owner /\ sessions[s].user = owner[s]
    /\ \A e \in log : e.user = owner[e.session]

\* What is unfinished and uncollected is bounded by what was begun within one
\* lifetime: no two logins kept are further apart than that.
KeptIsRecent ==
    /\ \A p, q \in DOMAIN pending : pending[p] - pending[q] < PendingTtl
    /\ \A c, d \in DOMAIN codes : codes[c].issued - codes[d].issued < CodeTtl

\* An entry is its author's under every login of theirs, live, expired or
\* revoked: a device that signs in again has none of its entries refused by a
\* store that answers (Authenticate::owns).
AuthorsKept == \A r \in refused : ~r.answered

----------------------------------------------------------------------------
(* Why they hold *)

Entry == [user : Users, session : Ids]
AttemptState == [step : {"none", "asked", "signed", "called", "code"}, id : Nat]

LoginsTyped ==
    /\ now \in Nat /\ drawn \in 0..MaxLogins
    /\ pending \in [DOMAIN pending -> Nat]
    /\ handling \subseteq [state : Ids, user : Users]
    /\ sessions \in [DOMAIN sessions -> [user : Users, expires : Nat, revoked : BOOLEAN]]
    /\ codes \in [DOMAIN codes -> [session : Ids, issued : Nat]]
    /\ attempt \in [Devices -> AttemptState]
    /\ held \in [Devices -> Nat] /\ conn \in [Devices -> Nat]
    /\ queue \in [Devices -> SUBSET Entry] /\ log \subseteq Entry
    /\ owner \in [DOMAIN owner -> Users]
    /\ handed \in [Ids -> Nat]

\* What was drawn is drawn for one device, and nobody has signed in for it before
\* the provider has been asked.
AttemptsApart ==
    /\ \A d \in Devices :
          /\ attempt[d].id <= drawn
          /\ attempt[d].step = "none" <=> attempt[d].id = 0
          /\ attempt[d].step = "asked" => attempt[d].id \notin DOMAIN owner
          /\ attempt[d].step = "signed" => attempt[d].id \in DOMAIN owner
    /\ \A c, d \in Devices :
          c # d /\ attempt[c].id = attempt[d].id => attempt[c].id = 0

\* A login is pending, or its callback is under way, or it has its session, and no
\* two of the three; the session is then for good whoever signed in.
FinishedOnce ==
    /\ DOMAIN pending \cup DOMAIN sessions \cup DOMAIN owner \subseteq 1..drawn
    /\ DOMAIN pending \cap DOMAIN sessions = {}
    /\ \A h \in handling :
          /\ h.state \notin DOMAIN pending \cup DOMAIN sessions
          /\ h.state \in DOMAIN owner /\ h.user = owner[h.state]
    /\ \A s \in DOMAIN sessions : s \in DOMAIN owner /\ sessions[s].user = owner[s]

\* A token that can still be collected was handed to nobody, and one that a device
\* keeps was handed out once, and not twice.
CollectedOnce ==
    /\ \A c \in DOMAIN codes :
          codes[c].session = c /\ c \in DOMAIN sessions /\ handed[c] = 0
    /\ \A i \in Ids : handed[i] <= 1 /\ (handed[i] # 0 => i \in DOMAIN sessions)
    /\ \A d \in Devices :
          held[d] # 0 => held[d] \in DOMAIN sessions /\ handed[held[d]] = 1

\* Who is connected has a session, and every entry was authored under one of its
\* author's.
AuthorsKnown ==
    /\ \A d \in Devices : conn[d] = 0 \/ conn[d] \in DOMAIN sessions
    /\ \A e \in log \cup UNION {queue[d] : d \in Devices} :
          e.session \in DOMAIN sessions /\ sessions[e.session].user = e.user

StampsPast ==
    /\ \A p \in DOMAIN pending : pending[p] <= now
    /\ \A c \in DOMAIN codes : codes[c].issued <= now

LoginInv ==
    /\ LoginsTyped /\ AttemptsApart /\ FinishedOnce /\ CollectedOnce
    /\ AuthorsKnown /\ StampsPast
    /\ HandedOnce /\ KeptIsRecent /\ AuthorsKept
=============================================================================
