--------------------------- MODULE Sessions_proofs ---------------------------
(***************************************************************************)
(* Proofs about Sessions, for any devices, users, lifetimes and faults and *)
(* any number of logins.                                                   *)
(***************************************************************************)
EXTENDS Sessions, TLAPS

LEMMA NoneIs == None \in AttemptState /\ None.step = "none" /\ None.id = 0
  BY DEF None, AttemptState

----------------------------------------------------------------------------
(* What is made, and what is collected *)

\* A session is made for whoever a callback or a dev login says.
Finishes(id, user) ==
    /\ Finish(id, user)
    /\ \/ \E h \in handling :
             /\ id = h.state /\ user = h.user /\ handling' = handling \ {h}
             /\ UNCHANGED <<drawn, owner>>
       \/ \E d \in Devices :
             /\ drawn < MaxLogins /\ drawn' = drawn + 1
             /\ id = drawn' /\ user \in Users
             /\ owner' = Put(owner, id, user) /\ UNCHANGED handling
    /\ UNCHANGED <<now, pending, held, conn, queue, log, refused, handed>>

LEMMA LoginDevFinishes ==
    ASSUME NEW d \in Devices, NEW u \in Users, LoginDev(d, u) PROVE Finishes(drawn', u)
  BY DEF LoginDev, Finishes, Begin

LEMMA CalledFinishes ==
    ASSUME NEW h \in handling, Called(h) PROVE Finishes(h.state, h.user)
  BY DEF Called, Finishes, history

\* The session that is made is new, and whose it should be.
LEMMA FinishesNew ==
    ASSUME SessionsAssumption, LoginInv, NEW id, NEW user, Finishes(id, user)
    PROVE  /\ id \in Ids /\ id \in 1..drawn' /\ user \in Users
           /\ id \notin DOMAIN sessions /\ id \notin DOMAIN pending
           /\ id \in DOMAIN owner' /\ owner'[id] = user
           /\ DOMAIN owner' \subseteq DOMAIN owner \cup {id}
           /\ \A s \in DOMAIN owner : s \in DOMAIN owner' /\ owner'[s] = owner[s]
           /\ \A h \in handling' : h \in handling /\ h.state # id
           /\ DOMAIN sessions' = DOMAIN sessions \cup {id}
           /\ sessions'[id].user = user
           /\ \A s \in DOMAIN sessions : sessions'[s] = sessions[s]
<1>1. /\ DOMAIN sessions' = DOMAIN sessions \cup {id}
      /\ sessions'[id] = Session(user)
      /\ \A s \in DOMAIN sessions : s # id => sessions'[s] = sessions[s]
  <2>1. sessions' = Put(sessions, id, Session(user))
        BY DEF Finishes, Finish
  <2> QED BY <2>1 DEF Put
<1>2. Session(user).user = user
      BY DEF Session
<1>3. CASE \E h \in handling :
             /\ id = h.state /\ user = h.user /\ handling' = handling \ {h}
             /\ UNCHANGED <<drawn, owner>>
  <2>1. PICK h \in handling :
             /\ id = h.state /\ user = h.user /\ handling' = handling \ {h}
             /\ UNCHANGED <<drawn, owner>>
        BY <1>3
  <2>2. \A g \in handling : g.state = h.state => g = h
    <3>1. \A g \in handling : g = [state |-> g.state, user |-> g.user]
          BY DEF LoginInv, LoginsTyped
    <3>2. \A g \in handling : g.user = owner[g.state]
          BY DEF LoginInv, FinishedOnce
    <3> QED BY <3>1, <3>2
  <2>3. /\ id \in Ids /\ user \in Users /\ id \in DOMAIN owner /\ owner[id] = user
        /\ id \notin DOMAIN sessions /\ id \notin DOMAIN pending /\ id \in 1..drawn
        BY <2>1 DEF LoginInv, LoginsTyped, FinishedOnce
  <2> QED BY <1>1, <1>2, <2>1, <2>2, <2>3
<1>4. CASE /\ drawn < MaxLogins /\ drawn' = drawn + 1
           /\ id = drawn' /\ user \in Users
           /\ owner' = Put(owner, id, user) /\ UNCHANGED handling
  <2>1. id \in 1..drawn' /\ id \notin 1..drawn /\ id \in Ids
        BY <1>4 DEF SessionsAssumption, Ids, LoginInv, LoginsTyped
  <2>2. /\ DOMAIN owner' = DOMAIN owner \cup {id} /\ owner'[id] = user
        /\ \A s \in DOMAIN owner : s # id => owner'[s] = owner[s]
    <3>1. owner' = Put(owner, id, user)
          BY <1>4
    <3> QED BY <3>1 DEF Put
  <2>3. /\ id \notin DOMAIN owner /\ id \notin DOMAIN sessions /\ id \notin DOMAIN pending
        /\ \A h \in handling : h.state # id
        BY <2>1 DEF LoginInv, FinishedOnce
  <2> QED BY <1>1, <1>2, <1>4, <2>1, <2>2, <2>3
<1> QED BY <1>3, <1>4 DEF Finishes

LEMMA FinishesCodes ==
    ASSUME SessionsAssumption, LoginInv, NEW id, NEW user, Finishes(id, user)
    PROVE  /\ codes' \in [DOMAIN codes' -> [session : Ids, issued : Nat]]
           /\ codes'[id].session = id /\ codes'[id].issued = now
           /\ \A c \in DOMAIN codes' : c # id =>
                 c \in DOMAIN codes /\ codes'[c] = codes[c] /\ now - codes[c].issued < CodeTtl
<1> DEFINE fresh == Only(codes, {c \in DOMAIN codes : now - codes[c].issued < CodeTtl})
           made == [session |-> id, issued |-> now]
<1>1. codes' = Put(fresh, id, made)
      BY DEF Finishes, Finish
<1>2. made \in [session : Ids, issued : Nat]
      BY FinishesNew DEF LoginInv, LoginsTyped
<1>3. codes \in [DOMAIN codes -> [session : Ids, issued : Nat]]
      BY DEF LoginInv, LoginsTyped
<1>4. /\ \A c \in DOMAIN fresh : /\ c \in DOMAIN codes /\ fresh[c] = codes[c]
                                 /\ now - codes[c].issued < CodeTtl
      BY DEF Only
<1>5. made.session = id /\ made.issued = now
      OBVIOUS
<1> HIDE DEF fresh, made
<1> QED BY <1>1, <1>2, <1>3, <1>4, <1>5 DEF Put

LEMMA FinishesKeeps ==
    ASSUME SessionsAssumption, LoginInv, NEW id, NEW user, Finishes(id, user)
    PROVE  /\ FinishedOnce' /\ CollectedOnce' /\ AuthorsKnown' /\ StampsPast'
           /\ HandedOnce' /\ KeptIsRecent' /\ AuthorsKept'
           /\ sessions' \in [DOMAIN sessions' -> [user : Users, expires : Nat,
                                                   revoked : BOOLEAN]]
<1>1. /\ UNCHANGED <<now, pending, held, conn, queue, log, refused, handed>>
      /\ \/ drawn' = drawn \/ drawn' = drawn + 1
      BY DEF Finishes
<1>a. /\ id \in Ids /\ id \in 1..drawn' /\ user \in Users
      /\ id \notin DOMAIN sessions /\ id \notin DOMAIN pending
      /\ id \in DOMAIN owner' /\ owner'[id] = user
      /\ DOMAIN owner' \subseteq DOMAIN owner \cup {id}
      /\ \A s \in DOMAIN owner : s \in DOMAIN owner' /\ owner'[s] = owner[s]
      /\ \A h \in handling' : h \in handling /\ h.state # id
      /\ DOMAIN sessions' = DOMAIN sessions \cup {id} /\ sessions'[id].user = user
      /\ \A s \in DOMAIN sessions : sessions'[s] = sessions[s]
      BY FinishesNew
<1>b. /\ codes'[id].session = id /\ codes'[id].issued = now
      /\ \A c \in DOMAIN codes' : c # id =>
            c \in DOMAIN codes /\ codes'[c] = codes[c] /\ now - codes[c].issued < CodeTtl
      BY FinishesCodes
<1>2. FinishedOnce'
      BY <1>1, <1>a DEF LoginInv, LoginsTyped, FinishedOnce
<1>3. CollectedOnce'
      BY <1>1, <1>a, <1>b DEF LoginInv, LoginsTyped, CollectedOnce
<1>4. AuthorsKnown'
      BY <1>1, <1>a DEF LoginInv, AuthorsKnown
<1>5. StampsPast'
      BY <1>1, <1>b DEF LoginInv, LoginsTyped, StampsPast
<1>6. HandedOnce' /\ AuthorsKept'
      BY <1>1 DEF LoginInv, HandedOnce, AuthorsKept
<1>7. KeptIsRecent'
  <2>1. \A c \in DOMAIN codes' : codes'[c].issued \in Nat /\ codes'[c].issued <= now
                                 /\ now - codes'[c].issued < CodeTtl
        BY <1>b DEF LoginInv, LoginsTyped, StampsPast, SessionsAssumption
  <2> QED BY <1>1, <2>1 DEF LoginInv, LoginsTyped, KeptIsRecent, SessionsAssumption
<1>8. sessions' \in [DOMAIN sessions' -> [user : Users, expires : Nat, revoked : BOOLEAN]]
  <2>1. Session(user) \in [user : Users, expires : Nat, revoked : BOOLEAN]
        BY <1>a DEF Session, LoginInv, LoginsTyped, SessionsAssumption
  <2>2. sessions' = Put(sessions, id, Session(user))
        BY DEF Finishes, Finish
  <2> QED BY <2>1, <2>2 DEF Put, LoginInv, LoginsTyped
<1> QED BY <1>2, <1>3, <1>4, <1>5, <1>6, <1>7, <1>8

\* A code that is redeemed is of a session whose token nobody has.
LEMMA RedeemIs ==
    ASSUME SessionsAssumption, LoginInv, NEW d \in Devices, Redeem(d)
    PROVE  /\ attempt[d].id \in DOMAIN codes /\ codes[attempt[d].id].session = attempt[d].id
           /\ attempt[d].id \in Ids /\ attempt[d].id \in DOMAIN sessions
           /\ \A c \in Devices : held[c] # attempt[d].id
           /\ handed' = [handed EXCEPT ![attempt[d].id] = 1]
           /\ codes' = Only(codes, DOMAIN codes \ {attempt[d].id})
           /\ UNCHANGED <<now, drawn, pending, handling, sessions, queue, log, owner, refused>>
<1>1. /\ attempt[d].id \in DOMAIN codes /\ codes[attempt[d].id].session = attempt[d].id
      /\ attempt[d].id \in DOMAIN sessions /\ handed[attempt[d].id] = 0
      BY DEF Redeem, LoginInv, CollectedOnce
<1>2. attempt[d].id \in Ids
      BY <1>1 DEF LoginInv, LoginsTyped, FinishedOnce, Ids, SessionsAssumption
<1>3. \A c \in Devices : held[c] # attempt[d].id
      BY <1>1, <1>2 DEF LoginInv, CollectedOnce, Ids
<1>4. handed' = [handed EXCEPT ![attempt[d].id] = 1]
      BY <1>1, <1>2 DEF Redeem, LoginInv, LoginsTyped
<1> QED BY <1>1, <1>2, <1>3, <1>4 DEF Redeem

\* What it leaves, whether or not the answer arrives.
LEMMA RedeemKeeps ==
    ASSUME SessionsAssumption, LoginInv, NEW d \in Devices, Redeem(d)
    PROVE  /\ codes' \in [DOMAIN codes' -> [session : Ids, issued : Nat]]
           /\ handed' \in [Ids -> Nat]
           /\ \A c \in DOMAIN codes' : /\ c \in DOMAIN codes /\ codes'[c] = codes[c]
                                       /\ handed'[c] = 0 /\ c \in DOMAIN sessions
                                       /\ codes'[c].session = c
           /\ \A i \in Ids : handed'[i] <= 1 /\ (handed'[i] # 0 => i \in DOMAIN sessions)
           /\ \A c \in Devices : held[c] # 0 => held[c] \in DOMAIN sessions /\ handed'[held[c]] = 1
<1> DEFINE code == attempt[d].id
<1>a. /\ code \in Ids /\ code \in DOMAIN sessions
      /\ \A c \in Devices : held[c] # code
      /\ handed' = [handed EXCEPT ![code] = 1]
      /\ codes' = Only(codes, DOMAIN codes \ {code})
      /\ UNCHANGED sessions
      BY RedeemIs
<1> HIDE DEF code
<1>1. codes' \in [DOMAIN codes' -> [session : Ids, issued : Nat]]
      BY <1>a DEF Only, LoginInv, LoginsTyped
<1>2. \A c \in DOMAIN codes' : c \in DOMAIN codes /\ codes'[c] = codes[c] /\ c # code
      BY <1>a DEF Only
<1>3. /\ handed' \in [Ids -> Nat] /\ handed'[code] = 1
      /\ \A i \in Ids : i # code => handed'[i] = handed[i]
      BY <1>a DEF LoginInv, LoginsTyped
<1>4. \A c \in DOMAIN codes : c \in Ids
      BY DEF LoginInv, LoginsTyped, CollectedOnce, FinishedOnce, Ids, SessionsAssumption
<1>5. \A c \in Devices : held[c] # 0 => held[c] \in Ids
      BY DEF LoginInv, LoginsTyped, CollectedOnce, FinishedOnce, Ids, SessionsAssumption
<1>6. \A c \in DOMAIN codes' :
         handed'[c] = 0 /\ c \in DOMAIN sessions /\ codes'[c].session = c
      BY <1>2, <1>3, <1>4 DEF LoginInv, CollectedOnce
<1>7. \A i \in Ids : handed'[i] <= 1 /\ (handed'[i] # 0 => i \in DOMAIN sessions)
      BY <1>a, <1>3 DEF LoginInv, CollectedOnce
<1>8. \A c \in Devices : held[c] # 0 => held[c] \in DOMAIN sessions /\ handed'[held[c]] = 1
      BY <1>a, <1>3, <1>5 DEF LoginInv, CollectedOnce
<1> QED BY <1>1, <1>2, <1>3, <1>6, <1>7, <1>8

----------------------------------------------------------------------------
(* The steps *)

\* A login with a provider is kept with those that are not too old.
LEMMA LoginKeeps ==
    ASSUME SessionsAssumption, LoginInv, NEW d \in Devices, Login(d) PROVE LoginInv'
<1>1. drawn < MaxLogins /\ drawn' = drawn + 1 /\ drawn' \in Ids /\ drawn' \notin 1..drawn
      BY DEF Login, Begin, LoginInv, LoginsTyped, SessionsAssumption, Ids
<1>2. /\ attempt' = [attempt EXCEPT ![d] = [step |-> "asked", id |-> drawn']]
      /\ UNCHANGED <<now, handling, sessions, codes, held, conn, queue, log, owner, handed,
                     refused>>
      BY DEF Login, history
<1>3. /\ pending' \in [DOMAIN pending' -> Nat] /\ pending'[drawn'] = now
      /\ \A p \in DOMAIN pending' : p # drawn' =>
            p \in DOMAIN pending /\ pending'[p] = pending[p] /\ now - pending[p] < PendingTtl
      BY DEF Login, Put, Only, LoginInv, LoginsTyped
<1>4. LoginsTyped'
  <2>1. [step |-> "asked", id |-> drawn'] \in AttemptState
        BY <1>1 DEF Ids, AttemptState
  <2>2. attempt' \in [Devices -> AttemptState]
        BY <1>2, <2>1 DEF LoginInv, LoginsTyped
  <2>3. drawn' \in 0..MaxLogins
        BY <1>1 DEF LoginInv, LoginsTyped, SessionsAssumption
  <2> QED BY <1>2, <1>3, <2>2, <2>3 DEF LoginInv, LoginsTyped
<1>5. AttemptsApart'
      BY <1>1, <1>2 DEF LoginInv, LoginsTyped, AttemptState, AttemptsApart, FinishedOnce
<1>6. FinishedOnce'
      BY <1>1, <1>2, <1>3 DEF LoginInv, LoginsTyped, FinishedOnce
<1>7. KeptIsRecent' /\ StampsPast'
  <2>1. \A p \in DOMAIN pending' : /\ pending'[p] \in Nat /\ pending'[p] <= now
                                   /\ now - pending'[p] < PendingTtl
        BY <1>3 DEF LoginInv, LoginsTyped, StampsPast, SessionsAssumption
  <2> QED BY <1>2, <2>1 DEF LoginInv, LoginsTyped, KeptIsRecent, StampsPast, SessionsAssumption
<1>8. CollectedOnce' /\ AuthorsKnown' /\ HandedOnce' /\ AuthorsKept'
      BY <1>2 DEF LoginInv, CollectedOnce, AuthorsKnown, HandedOnce, AuthorsKept
<1> QED BY <1>4, <1>5, <1>6, <1>7, <1>8 DEF LoginInv

\* A callback takes its login out, and goes on under its own state.
LEMMA CallbackKeeps ==
    ASSUME SessionsAssumption, LoginInv, NEW d \in Devices, Callback(d) PROVE LoginInv'
<1> DEFINE state == attempt[d].id
           h == [state |-> state, user |-> owner[state]]
<1>1. /\ attempt[d].step = "signed" /\ state \in DOMAIN owner /\ state \in Ids
      /\ owner[state] \in Users
      BY DEF Callback, LoginInv, LoginsTyped, AttemptState, AttemptsApart, FinishedOnce, Ids,
             SessionsAssumption
<1>2. /\ pending' \in [DOMAIN pending' -> Nat]
      /\ DOMAIN pending' = DOMAIN pending \ {state}
      /\ \A p \in DOMAIN pending' : pending'[p] = pending[p]
      BY DEF Callback, Only, LoginInv, LoginsTyped
<1>3. UNCHANGED <<now, drawn, sessions, codes, held, conn, queue, log, owner, handed, refused>>
      BY DEF Callback, history
<1>4. \/ handling' = handling
      \/ handling' = handling \cup {h} /\ state \in DOMAIN pending
      BY DEF Callback
<1>5. \/ attempt' = [attempt EXCEPT ![d].step = "called"]
      \/ attempt' = [attempt EXCEPT ![d] = None]
      BY DEF Callback, GiveUp
<1>6. h \in [state : Ids, user : Users] /\ h.state = state /\ h.user = owner[state]
      BY <1>1
<1> HIDE DEF state, h
<1>7. handling' \subseteq [state : Ids, user : Users]
      BY <1>4, <1>6 DEF LoginInv, LoginsTyped
<1>7a. attempt' \in [Devices -> AttemptState]
      BY <1>5, NoneIs DEF LoginInv, LoginsTyped, AttemptState
<1>8. LoginsTyped'
      BY <1>2, <1>3, <1>7, <1>7a DEF LoginInv, LoginsTyped
<1>9. AttemptsApart'
      BY <1>1, <1>3, <1>5 DEF LoginInv, LoginsTyped, AttemptState, AttemptsApart, None
<1>10. FinishedOnce'
      BY <1>1, <1>2, <1>3, <1>4, <1>6 DEF LoginInv, LoginsTyped, FinishedOnce
<1>11. KeptIsRecent' /\ StampsPast'
      BY <1>2, <1>3 DEF LoginInv, KeptIsRecent, StampsPast
<1>12. CollectedOnce' /\ AuthorsKnown' /\ HandedOnce' /\ AuthorsKept'
      BY <1>3 DEF LoginInv, CollectedOnce, AuthorsKnown, HandedOnce, AuthorsKept
<1> QED BY <1>8, <1>9, <1>10, <1>11, <1>12 DEF LoginInv

LEMMA AbandonKeeps ==
    ASSUME SessionsAssumption, LoginInv, NEW d \in Devices, Abandon(d) PROVE LoginInv'
<1>1. LoginsTyped'
      BY DEF Abandon, LoginInv, LoginsTyped, AttemptState, GiveUp, None,
             history
<1>2. AttemptsApart'
      BY DEF Abandon, LoginInv, LoginsTyped, AttemptsApart, GiveUp, None,
             history
<1>3. FinishedOnce' /\ StampsPast' /\ KeptIsRecent'
      BY DEF Abandon, LoginInv, LoginsTyped, FinishedOnce, StampsPast,
             KeptIsRecent, GiveUp, None, history
<1>4. CollectedOnce' /\ AuthorsKnown' /\ HandedOnce' /\ AuthorsKept'
      BY DEF Abandon, LoginInv, LoginsTyped, CollectedOnce, AuthorsKnown,
             HandedOnce, AuthorsKept, GiveUp, None, history
<1> QED BY <1>1, <1>2, <1>3, <1>4 DEF LoginInv

\* The token is the device's, and was nobody's.
LEMMA ExchangeKeeps ==
    ASSUME SessionsAssumption, LoginInv, NEW d \in Devices, Exchange(d) PROVE LoginInv'
<1> DEFINE code == attempt[d].id
<1>1. Redeem(d)
      BY DEF Exchange
<1>2. /\ codes[code].session = code /\ code \in Ids /\ code \in DOMAIN sessions
      /\ \A c \in Devices : held[c] # code
      /\ handed' = [handed EXCEPT ![code] = 1]
      /\ UNCHANGED <<now, drawn, pending, handling, sessions, queue, log, owner, refused>>
      BY <1>1, RedeemIs
<1>3. /\ held' = [held EXCEPT ![d] = code] /\ conn' = [conn EXCEPT ![d] = 0]
      /\ attempt' = [attempt EXCEPT ![d] = None]
      BY <1>2 DEF Exchange, GiveUp
<1> HIDE DEF code
<1>4. /\ codes' \in [DOMAIN codes' -> [session : Ids, issued : Nat]]
      /\ handed' \in [Ids -> Nat]
      /\ \A c \in DOMAIN codes' : /\ c \in DOMAIN codes /\ codes'[c] = codes[c]
                                  /\ handed'[c] = 0 /\ c \in DOMAIN sessions
                                  /\ codes'[c].session = c
      /\ \A i \in Ids : handed'[i] <= 1 /\ (handed'[i] # 0 => i \in DOMAIN sessions)
      /\ \A c \in Devices : held[c] # 0 => held[c] \in DOMAIN sessions /\ handed'[held[c]] = 1
      BY <1>1, RedeemKeeps
<1>5. LoginsTyped'
  <2>1. attempt' \in [Devices -> AttemptState]
        BY <1>3, NoneIs DEF LoginInv, LoginsTyped
  <2>2. held' \in [Devices -> Nat] /\ conn' \in [Devices -> Nat]
        BY <1>2, <1>3 DEF LoginInv, LoginsTyped, Ids
  <2> QED BY <1>2, <1>4, <2>1, <2>2 DEF LoginInv, LoginsTyped
<1>6. AttemptsApart'
      BY <1>2, <1>3 DEF LoginInv, LoginsTyped, AttemptState, AttemptsApart, None
<1>7. CollectedOnce'
  <2>1. handed'[code] = 1
        BY <1>2 DEF LoginInv, LoginsTyped
  <2> QED BY <1>2, <1>3, <1>4, <2>1 DEF LoginInv, LoginsTyped, CollectedOnce
<1>8. HandedOnce'
      BY <1>2, <1>3, <1>4 DEF LoginInv, LoginsTyped, HandedOnce
<1>9. FinishedOnce' /\ AuthorsKnown' /\ AuthorsKept'
      BY <1>2, <1>3 DEF LoginInv, LoginsTyped, FinishedOnce, AuthorsKnown, AuthorsKept
<1>10. StampsPast' /\ KeptIsRecent'
      BY <1>2, <1>4 DEF LoginInv, StampsPast, KeptIsRecent
<1> QED BY <1>5, <1>6, <1>7, <1>8, <1>9, <1>10 DEF LoginInv

\* A token whose answer is lost is nobody's for good.
LEMMA ExchangeLostKeeps ==
    ASSUME SessionsAssumption, LoginInv, NEW d \in Devices, ExchangeLost(d) PROVE LoginInv'
<1>1. Redeem(d) /\ UNCHANGED <<attempt, held, conn>>
      BY DEF ExchangeLost
<1>2. UNCHANGED <<now, drawn, pending, handling, sessions, queue, log, owner, refused>>
      BY <1>1, RedeemIs
<1>3. /\ codes' \in [DOMAIN codes' -> [session : Ids, issued : Nat]]
      /\ handed' \in [Ids -> Nat]
      /\ \A c \in DOMAIN codes' : /\ c \in DOMAIN codes /\ codes'[c] = codes[c]
                                  /\ handed'[c] = 0 /\ c \in DOMAIN sessions
                                  /\ codes'[c].session = c
      /\ \A i \in Ids : handed'[i] <= 1 /\ (handed'[i] # 0 => i \in DOMAIN sessions)
      /\ \A c \in Devices : held[c] # 0 => held[c] \in DOMAIN sessions /\ handed'[held[c]] = 1
      BY <1>1, RedeemKeeps
<1>4. LoginsTyped'
      BY <1>1, <1>2, <1>3 DEF LoginInv, LoginsTyped
<1>5. CollectedOnce' /\ HandedOnce'
      BY <1>1, <1>2, <1>3 DEF LoginInv, CollectedOnce, HandedOnce
<1>6. AttemptsApart' /\ FinishedOnce' /\ AuthorsKnown' /\ AuthorsKept'
      BY <1>1, <1>2 DEF LoginInv, AttemptsApart, FinishedOnce, AuthorsKnown, AuthorsKept
<1>7. StampsPast' /\ KeptIsRecent'
      BY <1>2, <1>3 DEF LoginInv, StampsPast, KeptIsRecent
<1> QED BY <1>4, <1>5, <1>6, <1>7 DEF LoginInv

LEMMA ExchangeRefusedKeeps ==
    ASSUME SessionsAssumption, LoginInv, NEW d \in Devices, ExchangeRefused(d) PROVE LoginInv'
<1>1. LoginsTyped'
      BY DEF ExchangeRefused, LoginInv, LoginsTyped, AttemptState, GiveUp,
             None, Only, history
<1>2. AttemptsApart'
      BY DEF ExchangeRefused, LoginInv, LoginsTyped, AttemptsApart, GiveUp,
             None, Only, history
<1>3. CollectedOnce' /\ StampsPast' /\ KeptIsRecent'
      BY DEF ExchangeRefused, LoginInv, LoginsTyped, CollectedOnce,
             StampsPast, KeptIsRecent, GiveUp, None, Only, history
<1>4. FinishedOnce' /\ AuthorsKnown' /\ HandedOnce' /\ AuthorsKept'
      BY DEF ExchangeRefused, LoginInv, LoginsTyped, FinishedOnce,
             AuthorsKnown, HandedOnce, AuthorsKept, GiveUp, None, Only,
             history
<1> QED BY <1>1, <1>2, <1>3, <1>4 DEF LoginInv

\* Logging out leaves a session to whom it was.
LEMMA LogoutKeeps ==
    ASSUME SessionsAssumption, LoginInv, NEW d \in Devices, Logout(d) PROVE LoginInv'
<1>1. /\ held[d] \in DOMAIN sessions /\ sessions' = [sessions EXCEPT ![held[d]].revoked = TRUE]
      /\ held' = [held EXCEPT ![d] = 0]
      /\ UNCHANGED <<now, drawn, pending, handling, codes, attempt, conn, queue, log, owner,
                     handed, refused>>
      BY DEF Logout, history, LoginInv, CollectedOnce
<1>2. /\ sessions' \in [DOMAIN sessions -> [user : Users, expires : Nat, revoked : BOOLEAN]]
      /\ \A s \in DOMAIN sessions : sessions'[s].user = sessions[s].user
      BY <1>1 DEF LoginInv, LoginsTyped
<1>3. LoginsTyped'
      BY <1>1, <1>2 DEF LoginInv, LoginsTyped
<1>4. FinishedOnce' /\ AuthorsKnown'
      BY <1>1, <1>2 DEF LoginInv, FinishedOnce, AuthorsKnown
<1>5. CollectedOnce' /\ HandedOnce'
      BY <1>1, <1>2 DEF LoginInv, LoginsTyped, CollectedOnce, HandedOnce
<1>6. AttemptsApart' /\ StampsPast' /\ KeptIsRecent' /\ AuthorsKept'
      BY <1>1 DEF LoginInv, AttemptsApart, StampsPast, KeptIsRecent, AuthorsKept
<1> QED BY <1>3, <1>4, <1>5, <1>6 DEF LoginInv

LEMMA HelloKeeps ==
    ASSUME SessionsAssumption, LoginInv, NEW d \in Devices, Hello(d) PROVE LoginInv'
<1>1. LoginsTyped'
      BY DEF Hello, LoginInv, LoginsTyped, AttemptState, Live, history
<1>2. AuthorsKnown'
      BY DEF Hello, LoginInv, LoginsTyped, AuthorsKnown, Live, history
<1>3. AttemptsApart' /\ FinishedOnce' /\ CollectedOnce' /\ HandedOnce'
      BY DEF Hello, LoginInv, LoginsTyped, AttemptsApart, FinishedOnce,
             CollectedOnce, HandedOnce, Live, history
<1>4. StampsPast' /\ KeptIsRecent' /\ AuthorsKept'
      BY DEF Hello, LoginInv, LoginsTyped, StampsPast, KeptIsRecent,
             AuthorsKept, Live, history
<1> QED BY <1>1, <1>2, <1>3, <1>4 DEF LoginInv

LEMMA HelloUnansweredKeeps ==
    ASSUME SessionsAssumption, LoginInv, NEW d \in Devices, HelloUnanswered(d) PROVE LoginInv'
<1>1. LoginsTyped'
      BY DEF HelloUnanswered, LoginInv, LoginsTyped, AttemptState, history
<1>2. AuthorsKnown'
      BY DEF HelloUnanswered, LoginInv, LoginsTyped, AuthorsKnown, history
<1>3. AttemptsApart' /\ FinishedOnce' /\ CollectedOnce' /\ HandedOnce'
      BY DEF HelloUnanswered, LoginInv, LoginsTyped, AttemptsApart,
             FinishedOnce, CollectedOnce, HandedOnce, history
<1>4. StampsPast' /\ KeptIsRecent' /\ AuthorsKept'
      BY DEF HelloUnanswered, LoginInv, LoginsTyped, StampsPast, KeptIsRecent,
             AuthorsKept, history
<1> QED BY <1>1, <1>2, <1>3, <1>4 DEF LoginInv

\* An entry is its author's under the login the device keeps.
LEMMA AuthorKeeps ==
    ASSUME SessionsAssumption, LoginInv, NEW d \in Devices, Author(d) PROVE LoginInv'
<1> DEFINE e == [user |-> sessions[held[d]].user, session |-> held[d]]
<1>1. /\ held[d] \in DOMAIN sessions /\ held[d] \in Ids
      /\ queue' = [queue EXCEPT ![d] = queue[d] \cup {e}]
      /\ UNCHANGED <<now, drawn, pending, handling, sessions, codes, attempt, held, conn, log,
                     owner, handed, refused>>
      BY DEF Author, history, LoginInv, CollectedOnce, FinishedOnce, LoginsTyped, Ids,
             SessionsAssumption
<1>2. e \in Entry /\ e.session = held[d] /\ e.user = sessions[held[d]].user
      BY <1>1 DEF Entry, LoginInv, LoginsTyped
<1> HIDE DEF e
<1>3. LoginsTyped'
      BY <1>1, <1>2 DEF LoginInv, LoginsTyped
<1>4. AuthorsKnown'
  <2>1. \A f \in UNION {queue'[c] : c \in Devices} :
           f = e \/ f \in UNION {queue[c] : c \in Devices}
        BY <1>1 DEF LoginInv, LoginsTyped
  <2> QED BY <1>1, <1>2, <2>1 DEF LoginInv, AuthorsKnown
<1>5. AttemptsApart' /\ FinishedOnce' /\ CollectedOnce' /\ HandedOnce'
      BY <1>1 DEF LoginInv, AttemptsApart, FinishedOnce, CollectedOnce, HandedOnce
<1>6. StampsPast' /\ KeptIsRecent' /\ AuthorsKept'
      BY <1>1 DEF LoginInv, StampsPast, KeptIsRecent, AuthorsKept
<1> QED BY <1>3, <1>4, <1>5, <1>6 DEF LoginInv

\* Whoever pushes what its author queued is permitted to.
LEMMA PushKeeps ==
    ASSUME SessionsAssumption, LoginInv, NEW d \in Devices, Push(d) PROVE LoginInv'
<1>1. PICK e \in queue[d] :
         /\ e.user = sessions[conn[d]].user
         /\ queue' = [queue EXCEPT ![d] = queue[d] \ {e}]
         /\ IF Permitted(conn[d], e)
            THEN log' = log \cup {e} /\ UNCHANGED refused
            ELSE refused' = refused \cup {Answer(e, TRUE)} /\ UNCHANGED log
      BY DEF Push
<1>2. UNCHANGED <<now, drawn, pending, handling, sessions, codes, attempt, held, conn, owner,
                  handed>>
      BY DEF Push
<1>3. /\ e \in Entry /\ e \in UNION {queue[c] : c \in Devices}
      /\ e.session \in DOMAIN sessions /\ sessions[e.session].user = e.user
      BY <1>1 DEF LoginInv, LoginsTyped, AuthorsKnown
<1>4. log' = log \cup {e} /\ UNCHANGED refused
      BY <1>1, <1>3 DEF Permitted, OwnedBy
<1>5. LoginsTyped'
      BY <1>1, <1>2, <1>3, <1>4 DEF LoginInv, LoginsTyped
<1>6. AuthorsKnown'
  <2>1. \A f \in UNION {queue'[c] : c \in Devices} : f \in UNION {queue[c] : c \in Devices}
        BY <1>1 DEF LoginInv, LoginsTyped
  <2> QED BY <1>2, <1>3, <1>4, <2>1 DEF LoginInv, AuthorsKnown
<1>7. AttemptsApart' /\ FinishedOnce' /\ CollectedOnce' /\ HandedOnce'
      BY <1>2 DEF LoginInv, AttemptsApart, FinishedOnce, CollectedOnce, HandedOnce
<1>8. StampsPast' /\ KeptIsRecent' /\ AuthorsKept'
      BY <1>2, <1>4 DEF LoginInv, StampsPast, KeptIsRecent, AuthorsKept
<1> QED BY <1>5, <1>6, <1>7, <1>8 DEF LoginInv

LEMMA PushUnansweredKeeps ==
    ASSUME SessionsAssumption, LoginInv, NEW d \in Devices, PushUnanswered(d) PROVE LoginInv'
<1>1. PICK e \in queue[d] :
         /\ queue' = [queue EXCEPT ![d] = queue[d] \ {e}]
         /\ refused' = refused \cup {Answer(e, FALSE)}
      BY DEF PushUnanswered
<1>2. UNCHANGED <<now, drawn, pending, handling, sessions, codes, attempt, held, conn, log,
                  owner, handed>>
      BY DEF PushUnanswered
<1>3. LoginsTyped'
      BY <1>1, <1>2 DEF LoginInv, LoginsTyped
<1>4. AuthorsKnown'
  <2>1. \A f \in UNION {queue'[c] : c \in Devices} : f \in UNION {queue[c] : c \in Devices}
        BY <1>1 DEF LoginInv, LoginsTyped
  <2> QED BY <1>2, <2>1 DEF LoginInv, AuthorsKnown
<1>5. AttemptsApart' /\ FinishedOnce' /\ CollectedOnce' /\ HandedOnce'
      BY <1>2 DEF LoginInv, AttemptsApart, FinishedOnce, CollectedOnce, HandedOnce
<1>6. StampsPast' /\ KeptIsRecent' /\ AuthorsKept'
      BY <1>1, <1>2 DEF LoginInv, StampsPast, KeptIsRecent, AuthorsKept, Answer
<1> QED BY <1>3, <1>4, <1>5, <1>6 DEF LoginInv

\* Somebody signs in for what nobody has signed in for.
LEMMA SignInKeeps ==
    ASSUME SessionsAssumption, LoginInv, NEW d \in Devices, NEW u \in Users, SignIn(d, u) PROVE LoginInv'
<1> DEFINE id == attempt[d].id
<1>1. /\ attempt[d].step = "asked" /\ attempt' = [attempt EXCEPT ![d].step = "signed"]
      /\ UNCHANGED <<now, drawn, pending, handling, sessions, codes, held, conn, queue, log,
                     handed, refused>>
      BY DEF SignIn
<1>2. /\ DOMAIN owner' = DOMAIN owner \cup {id} /\ owner' \in [DOMAIN owner' -> Users]
      /\ \A i \in DOMAIN owner : i # id => owner'[i] = owner[i]
      BY DEF SignIn, Put, LoginInv, LoginsTyped
<1>3. id \notin DOMAIN owner /\ id \in 1..drawn
      BY <1>1 DEF LoginInv, LoginsTyped, AttemptState, AttemptsApart
<1>4. LoginsTyped'
      BY <1>1, <1>2 DEF LoginInv, LoginsTyped, AttemptState
<1>5. AttemptsApart'
      BY <1>1, <1>2, <1>3 DEF LoginInv, LoginsTyped, AttemptState, AttemptsApart
<1> HIDE DEF id
<1>6. FinishedOnce'
      BY <1>1, <1>2, <1>3 DEF LoginInv, FinishedOnce
<1>7. CollectedOnce' /\ AuthorsKnown' /\ HandedOnce'
      BY <1>1 DEF LoginInv, CollectedOnce, AuthorsKnown, HandedOnce
<1>8. StampsPast' /\ KeptIsRecent' /\ AuthorsKept'
      BY <1>1 DEF LoginInv, StampsPast, KeptIsRecent, AuthorsKept
<1> QED BY <1>4, <1>5, <1>6, <1>7, <1>8 DEF LoginInv

\* A dev login has its session and its code at once.
LEMMA LoginDevKeeps ==
    ASSUME SessionsAssumption, LoginInv, NEW d \in Devices, NEW u \in Users, LoginDev(d, u) PROVE LoginInv'
<1>1. /\ FinishedOnce' /\ CollectedOnce' /\ AuthorsKnown' /\ StampsPast'
      /\ HandedOnce' /\ KeptIsRecent' /\ AuthorsKept'
      /\ sessions' \in [DOMAIN sessions' -> [user : Users, expires : Nat, revoked : BOOLEAN]]
      BY LoginDevFinishes, FinishesKeeps
<1>2. codes' \in [DOMAIN codes' -> [session : Ids, issued : Nat]]
      BY LoginDevFinishes, FinishesCodes
<1>3. drawn' = drawn + 1 /\ drawn' \in 0..MaxLogins
      BY DEF LoginDev, Begin, LoginInv, LoginsTyped, SessionsAssumption
<1>4. /\ attempt' = [attempt EXCEPT ![d] = [step |-> "code", id |-> drawn']]
      /\ owner' = Put(owner, drawn', u)
      /\ UNCHANGED <<now, pending, handling, held, conn, queue, log, handed>>
      BY DEF LoginDev
<1>5. /\ owner' \in [DOMAIN owner' -> Users] /\ DOMAIN owner' = DOMAIN owner \cup {drawn'}
      BY <1>4 DEF Put, LoginInv, LoginsTyped
<1>6. LoginsTyped'
  <2>1. [step |-> "code", id |-> drawn'] \in AttemptState
        BY <1>3 DEF AttemptState
  <2> QED BY <1>1, <1>2, <1>3, <1>4, <1>5, <2>1 DEF LoginInv, LoginsTyped
<1>7. AttemptsApart'
      BY <1>3, <1>4, <1>5 DEF LoginInv, LoginsTyped, AttemptState, AttemptsApart
<1> QED BY <1>1, <1>6, <1>7 DEF LoginInv

\* A callback that goes through makes the session of its state.
LEMMA CalledKeeps ==
    ASSUME SessionsAssumption, LoginInv, NEW h \in handling, Called(h) PROVE LoginInv'
<1>1. /\ FinishedOnce' /\ CollectedOnce' /\ AuthorsKnown' /\ StampsPast'
      /\ HandedOnce' /\ KeptIsRecent' /\ AuthorsKept'
      /\ sessions' \in [DOMAIN sessions' -> [user : Users, expires : Nat, revoked : BOOLEAN]]
      BY CalledFinishes, FinishesKeeps
<1>2. codes' \in [DOMAIN codes' -> [session : Ids, issued : Nat]]
      BY CalledFinishes, FinishesCodes
<1>3. /\ handling' = handling \ {h}
      /\ UNCHANGED <<now, drawn, pending, held, conn, queue, log, owner, handed>>
      BY DEF Called, history
<1>4. h.state \in Ids /\ h.state \in DOMAIN owner
      BY DEF LoginInv, LoginsTyped, FinishedOnce
<1>5. attempt' = [c \in Devices |-> IF attempt[c].id = h.state
                                    THEN [step |-> "code", id |-> h.state] ELSE attempt[c]]
      BY DEF Called, Answered
<1>6. attempt' \in [Devices -> AttemptState]
  <2>1. [step |-> "code", id |-> h.state] \in AttemptState
        BY <1>4 DEF Ids, AttemptState
  <2> QED BY <1>5, <2>1 DEF LoginInv, LoginsTyped
<1>7. LoginsTyped'
      BY <1>1, <1>2, <1>3, <1>6 DEF LoginInv, LoginsTyped
<1>8. AttemptsApart'
  <2>1. \A c \in Devices : attempt'[c].id = attempt[c].id
        BY <1>5
  <2>2. \A c \in Devices : attempt'[c].step = IF attempt[c].id = h.state THEN "code"
                                              ELSE attempt[c].step
        BY <1>5
  <2>3. h.state # 0
        BY <1>4 DEF Ids
  <2> QED BY <1>3, <2>1, <2>2, <2>3 DEF LoginInv, AttemptsApart
<1> QED BY <1>1, <1>7, <1>8 DEF LoginInv

LEMMA CalledFailsKeeps ==
    ASSUME SessionsAssumption, LoginInv, NEW h \in handling, CalledFails(h) PROVE LoginInv'
<1>1. /\ handling' = handling \ {h}
      /\ UNCHANGED <<now, drawn, pending, sessions, codes, held, conn, queue, log, owner,
                     handed, refused>>
      BY DEF CalledFails, history
<1>2. attempt' = [c \in Devices |-> IF attempt[c].id = h.state THEN None ELSE attempt[c]]
      BY DEF CalledFails, Answered
<1>3. None \in AttemptState /\ None.step = "none" /\ None.id = 0
      BY NoneIs
<1>4. LoginsTyped'
      BY <1>1, <1>2, <1>3 DEF LoginInv, LoginsTyped
<1>5. AttemptsApart'
  <2>1. \A c \in Devices : attempt'[c] = None \/ attempt'[c] = attempt[c]
        BY <1>2
  <2>2. \A c \in Devices : attempt[c].id \in Nat
        BY DEF LoginInv, LoginsTyped, AttemptState
  <2> QED BY <1>1, <1>3, <2>1, <2>2 DEF LoginInv, LoginsTyped, AttemptState, AttemptsApart
<1>6. FinishedOnce' /\ CollectedOnce' /\ AuthorsKnown' /\ HandedOnce'
      BY <1>1 DEF LoginInv, FinishedOnce, CollectedOnce, AuthorsKnown, HandedOnce
<1>7. StampsPast' /\ KeptIsRecent' /\ AuthorsKept'
      BY <1>1 DEF LoginInv, StampsPast, KeptIsRecent, AuthorsKept
<1> QED BY <1>4, <1>5, <1>6, <1>7 DEF LoginInv

LEMMA TickKeeps ==
    ASSUME SessionsAssumption, LoginInv, Tick PROVE LoginInv'
<1>1. LoginsTyped' /\ StampsPast'
      BY DEF Tick, LoginInv, LoginsTyped, AttemptState, StampsPast, device,
             history
<1>2. AttemptsApart' /\ FinishedOnce' /\ CollectedOnce' /\ AuthorsKnown'
      BY DEF Tick, LoginInv, LoginsTyped, AttemptsApart, FinishedOnce,
             CollectedOnce, AuthorsKnown, device, history
<1>3. HandedOnce' /\ KeptIsRecent' /\ AuthorsKept'
      BY DEF Tick, LoginInv, HandedOnce, LoginsTyped, KeptIsRecent,
             StampsPast, AuthorsKept, device, history
<1> QED BY <1>1, <1>2, <1>3 DEF LoginInv

\* What is in memory is gone, the rest is as it was.
LEMMA RestartKeeps ==
    ASSUME SessionsAssumption, LoginInv, Restart PROVE LoginInv'
<1>1. LoginsTyped'
      BY DEF Restart, LoginInv, LoginsTyped, AttemptState, Nothing, None,
             history
<1>2. AttemptsApart'
      BY DEF Restart, LoginInv, LoginsTyped, AttemptsApart, Nothing, None,
             history
<1>3. FinishedOnce' /\ CollectedOnce'
      BY DEF Restart, LoginInv, LoginsTyped, FinishedOnce, CollectedOnce,
             Nothing, None, history
<1>4. AuthorsKnown'
      BY DEF Restart, LoginInv, LoginsTyped, AuthorsKnown, Nothing, None,
             history
<1>5. HandedOnce' /\ StampsPast' /\ KeptIsRecent' /\ AuthorsKept'
      BY DEF Restart, LoginInv, HandedOnce, LoginsTyped, StampsPast,
             KeptIsRecent, AuthorsKept, Nothing, None, history
<1> QED BY <1>1, <1>2, <1>3, <1>4, <1>5 DEF LoginInv

LEMMA InitInv == ASSUME SessionsAssumption, Init PROVE LoginInv
<1>1. LoginsTyped
      BY DEF Init, LoginsTyped, SessionsAssumption, Nothing, None, Ids, AttemptState
<1>2. AttemptsApart
      BY DEF Init, AttemptsApart, None, Nothing
<1>3. FinishedOnce /\ CollectedOnce /\ AuthorsKnown /\ StampsPast
      BY DEF Init, FinishedOnce, CollectedOnce, AuthorsKnown, StampsPast, Nothing
<1>4. HandedOnce /\ KeptIsRecent /\ AuthorsKept
      BY DEF Init, HandedOnce, KeptIsRecent, AuthorsKept, Nothing
<1> QED BY <1>1, <1>2, <1>3, <1>4 DEF LoginInv

LEMMA StepKeeps == ASSUME SessionsAssumption, LoginInv, [Next]_vars PROVE LoginInv'
<1>1. CASE UNCHANGED vars
  <2>1. LoginsTyped' /\ AttemptsApart' /\ FinishedOnce' /\ CollectedOnce'
        BY <1>1 DEF vars, device, history, LoginInv, LoginsTyped, AttemptState, AttemptsApart, FinishedOnce,
                    CollectedOnce
  <2>2. AuthorsKnown' /\ StampsPast' /\ HandedOnce' /\ KeptIsRecent' /\ AuthorsKept'
        BY <1>1 DEF vars, device, history, LoginInv, AuthorsKnown, StampsPast, HandedOnce,
                    KeptIsRecent, AuthorsKept
  <2> QED BY <2>1, <2>2 DEF LoginInv
<1>2. CASE Next
      BY <1>2, LoginKeeps, CallbackKeeps, AbandonKeeps, ExchangeKeeps, ExchangeLostKeeps,
         ExchangeRefusedKeeps, LogoutKeeps, HelloKeeps, HelloUnansweredKeeps, AuthorKeeps,
         PushKeeps, PushUnansweredKeeps, SignInKeeps, LoginDevKeeps, CalledKeeps,
         CalledFailsKeeps, TickKeeps, RestartKeeps DEF Next
<1> QED BY <1>1, <1>2

----------------------------------------------------------------------------
(* The theorems *)

\* What was drawn at random is one device's, one person's and, once collected, one
\* holder's: every reachable state satisfies LoginInv.
THEOREM LoginsHold == Spec => []LoginInv
<1>1. Init => LoginInv
      BY InitInv, SessionsAssumption
<1>2. LoginInv /\ [Next]_vars => LoginInv'
      BY StepKeeps, SessionsAssumption
<1> QED BY <1>1, <1>2, PTL DEF Spec

\* A token is handed out once and kept by at most one device, however often a code
\* is sent, lost or late, and across restarts.
THEOREM TokensAreHandedOnce == Spec => []HandedOnce
<1>1. LoginInv => HandedOnce
      BY DEF LoginInv
<1> QED BY <1>1, LoginsHold, PTL

\* However many people sign in at once, a session and what is authored under it is
\* of the person who signed in for it.
THEOREM SessionsAreOwn == Spec => []SessionIsOwn
<1>1. LoginInv => SessionIsOwn
      BY DEF LoginInv, SessionIsOwn, FinishedOnce, AuthorsKnown
<1> QED BY <1>1, LoginsHold, PTL

\* What is begun and not finished, or finished and not collected, is never further
\* apart than one lifetime.
THEOREM MemoryIsRecent == Spec => []KeptIsRecent
<1>1. LoginInv => KeptIsRecent
      BY DEF LoginInv
<1> QED BY <1>1, LoginsHold, PTL

\* A store that answers refuses no entry for the login it was authored under.
THEOREM AuthorsAreKept == Spec => []AuthorsKept
<1>1. LoginInv => AuthorsKept
      BY DEF LoginInv
<1> QED BY <1>1, LoginsHold, PTL
=============================================================================
