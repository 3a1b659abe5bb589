---------------------------- MODULE SignOn_proofs ----------------------------
(***************************************************************************)
(* Proofs about SignOn, for any number of requests, flows and identities:  *)
(* every variable keeps its type, there is always a way in, sessions,      *)
(* flows, tickets and reset links end with what they were issued for, and  *)
(* a flow that was begun before a stop of single sign-on has no effect.    *)
(*                                                                         *)
(* None of these is inductive.  A session is only a text; what keeps it    *)
(* honest is said of every session there is or will be, also of those that *)
(* a request or a ticket still holds.  The same goes for the fingerprint   *)
(* of a flow, which wanders from its state to a request to its ticket.     *)
(***************************************************************************)
EXTENDS SignOn, TLAPS

\* The steps at which a request holds a flow, and at which it holds a session to be.
InFlow == Steps \ {"idle", "sign"}
WithSession == {"sign", "refresh", "merge", "claim", "ticket"}

\* What a request holds has the parts that its step needs.
HeldInv ==
  \A w \in Workers :
    /\ work[w].pc \in InFlow => work[w].id \in 1..MaxFlows /\ work[w].hash \in Fingerprint
    /\ work[w].pc \in WithSession => work[w].session \in SessionText

\* Every session there is or will be: in a browser, under a ticket, or in a request.
AllSessions ==
  sessions \cup {t.session : t \in tickets}
           \cup {work[w].session : w \in {v \in Workers : work[v].pc \in WithSession}}

\* None is ahead of the account, and one that is not behind it was begun with the password in
\* force, after the account was last disabled.  An account to be made has none.
Sound(s) ==
  /\ user.status # "absent"
  /\ s[1] <= user.cv
  /\ s[1] = user.cv => s[2] \in {0, user.pw} /\ s[3] = given.off

SessionInv == \A s \in AllSessions : Sound(s)

\* Every flow there is: fingerprint, and how often sign-on had been stopped when it began.
AllFlows ==
  {<<st.hash, st.born>> : st \in states} \cup {<<t.hash, t.born>> : t \in tickets}
  \cup {<<work[w].hash, work[w].born>> : w \in {v \in Workers : work[v].pc \in InFlow}}

\* As long as no bare file was imported the setup is closed, and there is a way in.
Way(c) == c.configured /\ (c.local \/ OidcAvailable(c))
WayInv == given.bare = 0 => Way(cfg)

\* As long as nothing was imported the epoch counts the stops, and each flow carries its own.
EpochInv ==
  given.restored = 0 => /\ cfg.epoch = given.stops
                        /\ \A f \in AllFlows : f[1][1] = f[2]

\* A flow is in its state, unanswered; or with one request or under one ticket, answered once.
OnceInv ==
  /\ given.resets <= given.acts
  /\ \A i \in 1..MaxFlows : spent.flow[i] = 0 => spent.ticket[i] = 0
  /\ \A i \in 1..MaxFlows : i > given.flows => spent.flow[i] = 0
  /\ \A i \in 1..MaxActs : i > given.resets => spent.reset[i] = 0

StatesInv ==
  /\ \A st \in states : st.id <= given.flows /\ spent.flow[st.id] = 0
  /\ \A st, u \in states : st.id = u.id => st = u

TicketsInv ==
  /\ \A w \in Workers : work[w].pc \in InFlow =>
       spent.flow[work[w].id] # 0 /\ spent.ticket[work[w].id] = 0
  /\ \A w, v \in Workers : w # v /\ work[w].pc \in InFlow /\ work[v].pc \in InFlow =>
       work[w].id # work[v].id
  /\ \A t \in tickets : spent.flow[t.id] # 0 /\ spent.ticket[t.id] = 0
  /\ \A t \in tickets, w \in Workers : work[w].pc \in InFlow => work[w].id # t.id
  /\ \A t, u \in tickets : t.id = u.id => t = u

ResetsInv == \A t \in resets : t <= given.resets /\ spent.reset[t] = 0

IInv ==
  /\ TypeOK /\ WayInv
  /\ HeldInv /\ SessionInv /\ EpochInv
  /\ OnceInv /\ StatesInv /\ TicketsInv /\ ResetsInv /\ UsedOnce

-----------------------------------------------------------------------------
\* The bounds are numbers, and the provider's identities are not 0.
LEMMA Bounds == MaxActs \in Nat /\ MaxFlows \in Nat /\ Subjects \subseteq Nat \ {0}
BY SignOnAssumption

\* What an act does to the counters.
LEMMA Counting ==
  ASSUME TypeOK, given.resets <= given.acts,
         NEW C \in SUBSET {"pw", "saves", "stops", "resets", "off", "restored", "bare"}, Act(C)
  PROVE  /\ given' \in Counters /\ given'.resets <= given'.acts
         /\ given'.flows = given.flows
         /\ given'.pw \in Nat
         /\ given'.stops = IF "stops" \in C THEN given.stops + 1 ELSE given.stops
         /\ given'.resets = IF "resets" \in C THEN given.resets + 1 ELSE given.resets
         /\ given'.off = IF "off" \in C THEN given.off + 1 ELSE given.off
         /\ given'.restored = IF "restored" \in C THEN given.restored + 1 ELSE given.restored
         /\ given'.bare = IF "bare" \in C THEN given.bare + 1 ELSE given.bare
<1>1. given \in Counters
  BY DEF TypeOK
<1>2. DOMAIN given = {"pw", "saves", "stops", "flows", "resets", "off", "restored", "bare", "acts"}
  BY <1>1 DEF Counters
<1>3. /\ given.acts < MaxActs
      /\ given' = [f \in DOMAIN given |-> IF f \in C \cup {"acts"} THEN given[f] + 1 ELSE given[f]]
  BY DEF Act
<1>4. /\ given'.acts = given.acts + 1 /\ given'.flows = given.flows
      /\ given'.pw = (IF "pw" \in C THEN given.pw + 1 ELSE given.pw)
      /\ given'.saves = (IF "saves" \in C THEN given.saves + 1 ELSE given.saves)
      /\ given'.stops = (IF "stops" \in C THEN given.stops + 1 ELSE given.stops)
      /\ given'.resets = (IF "resets" \in C THEN given.resets + 1 ELSE given.resets)
      /\ given'.off = (IF "off" \in C THEN given.off + 1 ELSE given.off)
      /\ given'.restored = (IF "restored" \in C THEN given.restored + 1 ELSE given.restored)
      /\ given'.bare = (IF "bare" \in C THEN given.bare + 1 ELSE given.bare)
  BY <1>2, <1>3
<1>5. given' = [pw |-> given'.pw, saves |-> given'.saves, stops |-> given'.stops,
                flows |-> given'.flows, resets |-> given'.resets, off |-> given'.off,
                restored |-> given'.restored, bare |-> given'.bare, acts |-> given'.acts]
  BY <1>2, <1>3
<1>6. /\ given.acts \in 0..MaxActs /\ given.resets \in 0..MaxActs /\ given.flows \in 0..MaxFlows
      /\ given.pw \in Nat /\ given.saves \in Nat /\ given.stops \in Nat /\ given.off \in Nat
      /\ given.restored \in Nat /\ given.bare \in Nat
  BY <1>1 DEF Counters
<1>7. /\ given'.acts \in 0..MaxActs /\ given'.resets \in 0..MaxActs /\ given'.flows \in 0..MaxFlows
      /\ given'.pw \in Nat /\ given'.saves \in Nat /\ given'.stops \in Nat /\ given'.off \in Nat
      /\ given'.restored \in Nat /\ given'.bare \in Nat /\ given'.resets <= given'.acts
  BY <1>3, <1>4, <1>6, Bounds
<1>8. given' \in Counters
  BY <1>5, <1>7 DEF Counters
<1> QED
  BY <1>4, <1>7, <1>8

-----------------------------------------------------------------------------
\* A request goes on with r in its hands.
Turn(w, r) == r \in Holding /\ work' = [work EXCEPT ![w] = r]

\* r holds the flow that was held, or none; and a session that was held, a sound new one, or none.
Carries(w, r) ==
  /\ r.pc \in InFlow => /\ work[w].pc \in InFlow
                       /\ r.id = work[w].id /\ r.hash = work[w].hash /\ r.born = work[w].born
  /\ r.pc \in WithSession => r.session \in SessionText

KeepsSession(w, r) ==
  r.pc \in WithSession => work[w].pc \in WithSession /\ r.session = work[w].session

\* The other requests hold what they held.
LEMMA Hands ==
  ASSUME TypeOK, NEW w \in Workers, NEW r, Turn(w, r)
  PROVE  /\ work' \in [Workers -> Holding] /\ work'[w] = r
         /\ \A v \in Workers : v # w => work'[v] = work[v]
BY DEF TypeOK, Turn

LEMMA HeldKept ==
  ASSUME TypeOK, HeldInv, NEW w \in Workers, NEW r, Turn(w, r), Carries(w, r)
  PROVE  HeldInv'
<1>1. /\ work'[w] = r /\ \A v \in Workers : v # w => work'[v] = work[v]
  BY Hands
<1> QED
  BY <1>1 DEF HeldInv, Carries

\* Sessions and flows there are after a request went on.
LEMMA HandSessions ==
  ASSUME TypeOK, NEW w \in Workers, NEW r, Turn(w, r), tickets' = tickets, sessions' = sessions
  PROVE  \A s \in AllSessions' : s \in AllSessions \/ (r.pc \in WithSession /\ s = r.session)
<1>1. /\ work'[w] = r /\ \A v \in Workers : v # w => work'[v] = work[v]
  BY Hands
<1> QED
  BY <1>1 DEF AllSessions

LEMMA HandFlows ==
  ASSUME TypeOK, NEW w \in Workers, NEW r, Turn(w, r), Carries(w, r), tickets' = tickets,
         states' = states
  PROVE  AllFlows' \subseteq AllFlows
<1>1. /\ work'[w] = r /\ \A v \in Workers : v # w => work'[v] = work[v]
  BY Hands
<1> QED
  BY <1>1 DEF AllFlows, Carries

-----------------------------------------------------------------------------
\* Steps of the account alone

\* What they leave: the sessions that were sound are sound, for the version goes up with
\* the password, the address and the switching off.
AccountStep ==
  \/ UpdatePassword \/ UpdateEmail \/ ResetPasswordDirect \/ Disable \/ Enable \/ ClearOidcBinding

Ages ==
  /\ user' \in AccountRow
  /\ user'.status = "absent" => user.status = "absent"
  /\ \/ user'.cv > user.cv
     \/ user'.cv = user.cv /\ user'.pw = user.pw /\ given'.off = given.off

\* Sessions stay sound as the account ages.
LEMMA StaySound ==
  ASSUME TypeOK, Ages, NEW s \in SessionText, Sound(s), user.status # "absent"
  PROVE  Sound(s)'
<1>1. user \in AccountRow /\ user' \in AccountRow
  BY DEF TypeOK, Ages
<1>2. s[1] \in Nat /\ user.cv \in Nat /\ user'.cv \in Nat
  BY <1>1 DEF SessionText, AccountRow
<1>3. s[1] <= user.cv /\ (s[1] = user.cv => s[2] \in {0, user.pw} /\ s[3] = given.off)
  BY DEF Sound
<1>4. user'.status # "absent"
  BY DEF Ages
<1>5. CASE user'.cv > user.cv
  BY <1>2, <1>3, <1>4, <1>5 DEF Sound
<1>6. CASE user'.cv = user.cv /\ user'.pw = user.pw /\ given'.off = given.off
  BY <1>3, <1>4, <1>6 DEF Sound
<1> QED
  BY <1>5, <1>6 DEF Ages

\* All sessions are session texts.
LEMMA SessionsTyped ==
  ASSUME TypeOK, HeldInv, NEW s \in AllSessions
  PROVE  s \in SessionText
BY DEF AllSessions, TypeOK, HeldInv, TicketRow

\* No new session, and an account that ages.
LEMMA SessionsAge ==
  ASSUME TypeOK, HeldInv, SessionInv, Ages, AllSessions' \subseteq AllSessions
  PROVE  SessionInv'
<1> SUFFICES ASSUME NEW s \in AllSessions'
             PROVE  Sound(s)'
  BY DEF SessionInv
<1>1. s \in AllSessions /\ Sound(s) /\ s \in SessionText
  BY SessionsTyped DEF SessionInv
<1>2. user.status # "absent"
  BY <1>1 DEF Sound
<1> QED
  BY <1>1, <1>2, StaySound

\* A new password is a new version.
LEMMA NewPassword ==
  ASSUME TypeOK, given.resets <= given.acts, SetPassword
  PROVE  /\ Ages /\ given' \in Counters /\ given'.resets <= given'.acts
         /\ given'.flows = given.flows /\ given'.stops = given.stops
         /\ given'.resets = given.resets
         /\ given'.restored = given.restored /\ given'.bare = given.bare
         /\ given'.off = given.off
<1>1. user \in AccountRow /\ given \in Counters
  BY DEF TypeOK
<1>2. Act({"pw"}) /\ user' = [user EXCEPT !.pw = given.pw + 1, !.cv = @ + 1]
  BY DEF SetPassword
<1>3. /\ given' \in Counters /\ given'.resets <= given'.acts
      /\ given'.flows = given.flows /\ given'.stops = given.stops
      /\ given'.resets = given.resets
      /\ given'.restored = given.restored /\ given'.bare = given.bare
      /\ given'.off = given.off
  BY <1>2, Counting
<1>4. user.cv \in Nat /\ given.pw \in Nat
  BY <1>1 DEF AccountRow, Counters
<1>5. user' \in AccountRow /\ user'.cv = user.cv + 1 /\ user'.status = user.status
  <2>0. PICK n \in Nat : n = given.pw + 1
    BY <1>4
  <2>1. PICK r \in AccountRow : r = [user EXCEPT !.pw = n]
    BY <1>1 DEF AccountRow
  <2>2. r.cv = user.cv /\ r.status = user.status
    BY <1>1, <2>1 DEF AccountRow
  <2>3. user' = [r EXCEPT !.cv = user.cv + 1]
    BY <1>1, <1>2, <2>0, <2>1 DEF AccountRow
  <2> QED
    BY <1>4, <2>2, <2>3 DEF AccountRow
<1>6. Ages
  BY <1>4, <1>5 DEF Ages
<1> QED
  BY <1>3, <1>6

\* Each of these steps ages the account, and leaves everything else but the counters.
LEMMA AccountSteps ==
  ASSUME TypeOK, given.resets <= given.acts, AccountStep
  PROVE  /\ Ages /\ given' \in Counters /\ given'.resets <= given'.acts
         /\ given'.flows = given.flows /\ given'.stops = given.stops
         /\ given'.resets = given.resets
         /\ given'.restored = given.restored /\ given'.bare = given.bare
         /\ UNCHANGED <<cfg, backup, states, tickets, resets, sessions, work, spent>>
<1>1. user \in AccountRow /\ given \in Counters
  BY DEF TypeOK
<1>2. user.cv \in Nat /\ user.status \in Statuses
  BY <1>1 DEF AccountRow
<1>3. CASE UpdatePassword \/ ResetPasswordDirect
  BY <1>3, NewPassword DEF UpdatePassword, ResetPasswordDirect, rows
<1>4. CASE UpdateEmail
  <2>1. Act({}) /\ user' = [user EXCEPT !.cv = @ + 1]
    BY <1>4 DEF UpdateEmail
  <2>2. user' \in AccountRow /\ user'.cv = user.cv + 1 /\ user'.status = user.status
    BY <1>1, <1>2, <2>1 DEF AccountRow
  <2>3. Ages
    BY <1>2, <2>2 DEF Ages
  <2> QED
    BY <1>4, <2>1, <2>3, Counting DEF UpdateEmail, rows
<1>5. CASE Disable
  <2>1. /\ Act({"off"}) /\ user' = [user EXCEPT !.status = "disabled", !.cv = @ + 1]
    BY <1>5 DEF Disable
  <2>2. user' \in AccountRow /\ user'.cv = user.cv + 1 /\ user'.status = "disabled"
    <3>1. PICK r \in AccountRow : r = [user EXCEPT !.status = "disabled"]
      BY <1>1 DEF AccountRow, Statuses
    <3>2. r.cv = user.cv /\ r.status = "disabled"
      BY <1>1, <3>1 DEF AccountRow
    <3>3. user' = [r EXCEPT !.cv = user.cv + 1]
      BY <1>1, <2>1, <3>1 DEF AccountRow
    <3> QED
      BY <1>2, <3>2, <3>3 DEF AccountRow
  <2>3. Ages
    BY <1>2, <2>2 DEF Ages
  <2> QED
    BY <1>5, <2>1, <2>3, Counting DEF Disable, rows
<1>6. CASE Enable \/ ClearOidcBinding
  <2>1. /\ Act({})
        /\ user' = [user EXCEPT !.status = "active"] \/ user' = [user EXCEPT !.subject = 0]
    BY <1>6 DEF Enable, ClearOidcBinding
  <2>2. /\ user' \in AccountRow /\ user'.cv = user.cv /\ user'.pw = user.pw
        /\ user'.status \in {"active", user.status}
    BY <1>1, <1>2, <2>1 DEF AccountRow, Statuses
  <2>3. given'.off = given.off
    BY <2>1, Counting
  <2>4. Ages
    BY <2>2, <2>3 DEF Ages
  <2> QED
    BY <1>6, <2>1, <2>4, Counting DEF Enable, ClearOidcBinding, rows
<1> QED
  BY <1>3, <1>4, <1>5, <1>6 DEF AccountStep

LEMMA AccountKeeps == IInv /\ AccountStep => IInv'
<1> SUFFICES ASSUME IInv, AccountStep
             PROVE  IInv'
  OBVIOUS
<1>1. /\ TypeOK /\ HeldInv /\ SessionInv /\ given.resets <= given.acts
  BY DEF IInv, OnceInv
<1>2. /\ Ages /\ given' \in Counters /\ given'.resets <= given'.acts
      /\ given'.flows = given.flows /\ given'.stops = given.stops
      /\ given'.resets = given.resets
      /\ given'.restored = given.restored /\ given'.bare = given.bare
      /\ UNCHANGED <<cfg, backup, states, tickets, resets, sessions, work, spent>>
  BY <1>1, AccountSteps
<1>3. TypeOK'
  BY <1>1, <1>2 DEF TypeOK, Ages
<1>4. AllSessions' = AllSessions /\ AllFlows' = AllFlows
  BY <1>2 DEF AllSessions, AllFlows
<1>5. SessionInv'
  BY <1>1, <1>2, <1>4, SessionsAge
<1>6. WayInv' /\ HeldInv' /\ UsedOnce'
  BY <1>2 DEF IInv, WayInv, Way, OidcAvailable, HeldInv, UsedOnce
<1>7. EpochInv'
  BY <1>2, <1>4 DEF IInv, EpochInv
<1>8. OnceInv' /\ StatesInv' /\ TicketsInv' /\ ResetsInv'
  BY <1>2 DEF IInv, OnceInv, StatesInv, TicketsInv, ResetsInv
<1> QED
  BY <1>3, <1>5, <1>6, <1>7, <1>8 DEF IInv

-----------------------------------------------------------------------------
\* Steps of the settings

ConfigStep ==
  \/ \E params \in {"partial", "usable"} : SaveOidc(params)
  \/ SaveOidcAgain \/ DisableOidc \/ ClearOidc \/ SaveLocalAuth \/ Export
  \/ \E c \in Foreign \cup {backup[i] : i \in DOMAIN backup} : Import(c)
  \/ \E rule \in {"off", "empty", "values"} : SaveOidcRules(rule)
  \/ CompleteQuickStart \/ \E params \in {"partial", "usable"} : CompleteOidcSetup(params)

\* What a step of the settings leaves: a way in, flows that were there before, and an epoch
\* that follows the stops, unless something was imported.
Configures ==
  /\ cfg' \in Configuration /\ WayInv'
  /\ \A i \in DOMAIN backup' : backup'[i] \in Configuration
  /\ states' \subseteq states /\ tickets' \subseteq tickets
  /\ given' \in Counters /\ given'.resets <= given'.acts
  /\ given'.flows = given.flows /\ given'.resets = given.resets /\ given'.off = given.off
  /\ given'.restored = 0 => /\ given.restored = 0
                            /\ cfg.epoch = given.stops => cfg'.epoch = given'.stops
  /\ UNCHANGED <<user, resets, sessions, work, spent>>

LEMMA Stopping ==
  ASSUME TypeOK, WayInv, given.resets <= given.acts,
         NEW params \in {"none", "partial", "usable"}, StopOidc(params)
  PROVE  Configures
<1>1. cfg \in Configuration /\ given \in Counters
  BY DEF TypeOK
<1>2. /\ cfg.local /\ Act({"stops"})
      /\ cfg' = [cfg EXCEPT !.on = FALSE, !.epoch = given.stops + 1, !.params = params,
                            !.raw = IF params = "none" THEN 0 ELSE @]
      /\ states' = {} /\ tickets' = {}
      /\ UNCHANGED <<user, backup, resets, sessions, work, spent>>
  BY DEF StopOidc, MayStop, NewEpoch
<1>3. PICK n \in Nat : n = given.stops + 1
  BY <1>1 DEF Counters
<1>4. PICK m \in Nat : m = IF params = "none" THEN 0 ELSE cfg.raw
  BY <1>1 DEF Configuration
<1>5. cfg' = [configured |-> cfg.configured, local |-> cfg.local, on |-> FALSE,
              params |-> params, raw |-> m, epoch |-> n, rule |-> cfg.rule]
  BY <1>1, <1>2, <1>3, <1>4 DEF Configuration
<1>6. cfg.configured \in BOOLEAN /\ cfg.local \in BOOLEAN /\ cfg.rule \in Rules
  BY <1>1 DEF Configuration
<1>7. cfg' \in Configuration
  BY <1>5, <1>6 DEF Configuration
<1>8. cfg'.local = cfg.local /\ cfg'.epoch = n /\ cfg'.configured = cfg.configured
  BY <1>5
<1>9. /\ given' \in Counters /\ given'.resets <= given'.acts
      /\ given'.flows = given.flows /\ given'.resets = given.resets /\ given'.off = given.off
      /\ given'.restored = given.restored /\ given'.bare = given.bare
        /\ given'.stops = n
  BY <1>2, <1>3, Counting
<1>10. WayInv'
  BY <1>2, <1>8, <1>9 DEF WayInv, Way
<1> QED
  BY <1>2, <1>7, <1>8, <1>9, <1>10 DEF Configures, TypeOK

\* Saving parameters or rules, turning password login on and off.
LEMMA Saving ==
  ASSUME TypeOK, WayInv, given.resets <= given.acts,
         \/ \E params \in {"partial", "usable"} : SaveOidc(params)
         \/ SaveOidcAgain \/ SaveLocalAuth
         \/ \E rule \in {"off", "empty", "values"} : SaveOidcRules(rule)
         \/ CompleteQuickStart \/ \E params \in {"partial", "usable"} : CompleteOidcSetup(params)
  PROVE  Configures
<1>1. cfg \in Configuration /\ given \in Counters
  BY DEF TypeOK
<1>2. cfg.configured \in BOOLEAN /\ cfg.local \in BOOLEAN /\ cfg.on \in BOOLEAN
  BY <1>1 DEF Configuration
<1>3. SUFFICES /\ cfg' \in Configuration /\ cfg'.epoch = cfg.epoch
               /\ given.bare = 0 => Way(cfg')
               /\ \E C \in {{}, {"saves"}} : Act(C)
               /\ UNCHANGED <<user, backup, states, tickets, resets, sessions, work, spent>>
  <2>1. PICK C \in {{}, {"saves"}} : Act(C)
    BY <1>3
  <2>2. C \in SUBSET {"pw", "saves", "stops", "resets", "off", "restored", "bare"}
    BY <2>1
  <2>3. "stops" \notin C /\ "resets" \notin C /\ "off" \notin C
        /\ "restored" \notin C /\ "bare" \notin C
    BY <2>1
  <2>4. /\ given' \in Counters /\ given'.resets <= given'.acts
        /\ given'.flows = given.flows /\ given'.resets = given.resets /\ given'.off = given.off
        /\ given'.restored = given.restored /\ given'.bare = given.bare
        /\ given'.stops = given.stops
    BY <2>1, <2>2, <2>3, Counting
  <2> QED
    BY <1>3, <2>4 DEF Configures, TypeOK, WayInv, Way, OidcAvailable
<1>4. CASE \E params \in {"partial", "usable"} : SaveOidc(params)
  <2>1. PICK params \in {"partial", "usable"} : SaveOidc(params)
    BY <1>4
  <2>2. PICK n \in Nat : n = given.saves + 1
    BY <1>1 DEF Counters
  <2>3. /\ cfg.local \/ params = "usable"
        /\ cfg' = [cfg EXCEPT !.on = TRUE, !.params = params, !.raw = n]
        /\ Act({"saves"})
        /\ UNCHANGED <<user, backup, states, tickets, resets, sessions, work, spent>>
    BY <2>1, <2>2 DEF SaveOidc, OidcOnly, rows
  <2>4. cfg' = [configured |-> cfg.configured, local |-> cfg.local, on |-> TRUE,
                params |-> params, raw |-> n, epoch |-> cfg.epoch, rule |-> cfg.rule]
    BY <1>1, <2>3 DEF Configuration
  <2>5. cfg.epoch \in Nat /\ cfg.rule \in Rules
    BY <1>1 DEF Configuration
  <2>6. cfg' \in Configuration
    BY <1>2, <2>4, <2>5 DEF Configuration
  <2>7. cfg'.epoch = cfg.epoch /\ (given.bare = 0 => Way(cfg'))
    BY <2>3, <2>4 DEF WayInv, Way, OidcAvailable
  <2> QED
    BY <2>3, <2>6, <2>7
<1>5. CASE SaveOidcAgain
  <2>1. /\ cfg.params = "usable" /\ cfg' = [cfg EXCEPT !.on = TRUE] /\ Act({})
        /\ UNCHANGED <<user, backup, states, tickets, resets, sessions, work, spent>>
    BY <1>5 DEF SaveOidcAgain, rows
  <2>2. /\ cfg' \in Configuration /\ cfg'.epoch = cfg.epoch /\ cfg'.on /\ cfg'.params = "usable"
        /\ cfg'.configured = cfg.configured
    BY <1>1, <2>1 DEF Configuration
  <2> QED
    BY <2>1, <2>2 DEF WayInv, Way, OidcAvailable
<1>6. CASE SaveLocalAuth
  <2>1. /\ cfg.local => OidcAvailable(cfg)
        /\ cfg' = [cfg EXCEPT !.local = ~@] /\ Act({})
        /\ UNCHANGED <<user, backup, states, tickets, resets, sessions, work, spent>>
    BY <1>6 DEF SaveLocalAuth, rows
  <2>2. PICK b \in BOOLEAN : b = ~cfg.local
    OBVIOUS
  <2>3. cfg' = [cfg EXCEPT !.local = b]
    BY <2>1, <2>2
  <2>4. /\ cfg' \in Configuration /\ cfg'.epoch = cfg.epoch /\ cfg'.on = cfg.on
        /\ cfg'.params = cfg.params /\ cfg'.local = b /\ cfg'.configured = cfg.configured
    BY <1>1, <2>3 DEF Configuration
  <2> QED
    BY <2>1, <2>2, <2>4 DEF WayInv, Way, OidcAvailable
<1>7. CASE \E rule \in {"off", "empty", "values"} : SaveOidcRules(rule)
  <2>1. PICK rule \in {"off", "empty", "values"} : SaveOidcRules(rule)
    BY <1>7
  <2>2. /\ cfg' = [cfg EXCEPT !.rule = rule] /\ Act({})
        /\ UNCHANGED <<user, backup, states, tickets, resets, sessions, work, spent>>
    BY <2>1 DEF SaveOidcRules, rows
  <2>3. /\ cfg' \in Configuration /\ cfg'.epoch = cfg.epoch /\ cfg'.on = cfg.on
        /\ cfg'.params = cfg.params /\ cfg'.local = cfg.local /\ cfg'.configured = cfg.configured
    BY <1>1, <2>2 DEF Configuration, Rules
  <2> QED
    BY <2>2, <2>3 DEF WayInv, Way, OidcAvailable
<1>8. CASE CompleteQuickStart
  <2>1. /\ ~cfg.configured /\ cfg' = [cfg EXCEPT !.configured = TRUE] /\ Act({})
        /\ UNCHANGED <<user, backup, states, tickets, resets, sessions, work, spent>>
    BY <1>8 DEF CompleteQuickStart, rows
  <2>2. cfg' \in Configuration /\ cfg'.epoch = cfg.epoch
    BY <1>1, <2>1 DEF Configuration
  <2>3. given.bare # 0
    BY <2>1 DEF WayInv, Way
  <2> QED
    BY <2>1, <2>2, <2>3
<1>9. CASE \E params \in {"partial", "usable"} : CompleteOidcSetup(params)
  <2>1. PICK params \in {"partial", "usable"} : CompleteOidcSetup(params)
    BY <1>9
  <2>2. PICK n \in Nat : n = given.saves + 1
    BY <1>1 DEF Counters
  <2>3. /\ ~cfg.configured
        /\ cfg' = [cfg EXCEPT !.configured = TRUE, !.on = TRUE, !.params = params, !.raw = n]
        /\ Act({"saves"})
        /\ UNCHANGED <<user, backup, states, tickets, resets, sessions, work, spent>>
    BY <2>1, <2>2 DEF CompleteOidcSetup, rows
  <2>4. cfg' = [configured |-> TRUE, local |-> cfg.local, on |-> TRUE, params |-> params,
                raw |-> n, epoch |-> cfg.epoch, rule |-> cfg.rule]
    BY <1>1, <2>3 DEF Configuration
  <2>5. cfg.epoch \in Nat /\ cfg.rule \in Rules
    BY <1>1 DEF Configuration
  <2>6. cfg' \in Configuration /\ cfg'.epoch = cfg.epoch
    BY <1>2, <2>4, <2>5 DEF Configuration
  <2>7. given.bare # 0
    BY <2>3 DEF WayInv, Way
  <2> QED
    BY <2>3, <2>6, <2>7
<1> QED
  BY <1>4, <1>5, <1>6, <1>7, <1>8, <1>9

LEMMA ConfigSteps ==
  ASSUME TypeOK, WayInv, given.resets <= given.acts, ConfigStep
  PROVE  Configures
<1>1. cfg \in Configuration
  BY DEF TypeOK
<1>2. CASE DisableOidc
  <2>1. cfg.params \in {"none", "partial", "usable"}
    BY <1>1 DEF Configuration
  <2> QED
    BY <1>2, <2>1, Stopping DEF DisableOidc
<1>3. CASE ClearOidc
  BY <1>3, Stopping DEF ClearOidc
<1>4. CASE Export
  <2>1. /\ Act({}) /\ backup' = <<cfg>>
        /\ UNCHANGED <<user, cfg, states, tickets, resets, sessions, work, spent>>
    BY <1>4 DEF Export, rows
  <2>2. /\ given' \in Counters /\ given'.resets <= given'.acts
        /\ given'.flows = given.flows /\ given'.resets = given.resets /\ given'.off = given.off
        /\ given'.restored = given.restored /\ given'.bare = given.bare
        /\ given'.stops = given.stops
    BY <2>1, Counting
  <2>3. \A i \in DOMAIN backup' : backup'[i] \in Configuration
    BY <1>1, <2>1
  <2> QED
    BY <1>1, <2>1, <2>2, <2>3 DEF Configures, WayInv, Way, OidcAvailable
<1>5. CASE \E c \in Foreign \cup {backup[i] : i \in DOMAIN backup} : Import(c)
  <2>1. PICK c \in Foreign \cup {backup[i] : i \in DOMAIN backup} : Import(c)
    BY <1>5
  <2>2. c \in Configuration
    <3>1. CASE c \in Foreign
      <4>1. PICK n \in Nat : n = MaxActs + 2
        BY Bounds
      <4>2. PICK configured \in BOOLEAN, on \in BOOLEAN :
              c = [configured |-> configured, local |-> FALSE, on |-> on,
                   params |-> IF on THEN "usable" ELSE "none", raw |-> n, epoch |-> 0,
                   rule |-> "off"]
        BY <3>1, <4>1 DEF Foreign
      <4> QED
        BY <4>2 DEF Configuration, Rules
    <3>2. CASE c \in {backup[i] : i \in DOMAIN backup}
      BY <3>2 DEF TypeOK
    <3> QED
      BY <3>1, <3>2
  <2> DEFINE C == IF c.configured THEN {"restored"} ELSE {"restored", "bare"}
  <2>3. /\ c.configured => c.local \/ OidcAvailable(c)
        /\ cfg' = c /\ Act(C)
        /\ UNCHANGED <<user, backup, states, tickets, resets, sessions, work, spent>>
    BY <2>1 DEF Import, ImportedAuthUsable, rows
  <2>4. /\ given' \in Counters /\ given'.resets <= given'.acts
        /\ given'.flows = given.flows /\ given'.resets = given.resets /\ given'.off = given.off
        /\ given'.restored = given.restored + 1
        /\ ~c.configured => given'.bare = given.bare + 1
    <3>1. /\ C \in SUBSET {"pw", "saves", "stops", "resets", "off", "restored", "bare"}
          /\ "resets" \notin C /\ "off" \notin C /\ "restored" \in C
          /\ ~c.configured => "bare" \in C
      OBVIOUS
    <3> HIDE DEF C
    <3> QED
      BY <2>3, <3>1, Counting
  <2>5. given'.restored # 0
    BY <2>4 DEF TypeOK, Counters
  <2>6. WayInv'
    <3>1. c.configured \/ given'.bare # 0
      BY <2>4 DEF TypeOK, Counters
    <3> QED
      BY <2>3, <3>1 DEF WayInv, Way, OidcAvailable
  <2> QED
    BY <2>2, <2>3, <2>4, <2>5, <2>6 DEF Configures, TypeOK
<1> QED
  BY <1>2, <1>3, <1>4, <1>5, Saving DEF ConfigStep

LEMMA ConfigKeeps == IInv /\ ConfigStep => IInv'
<1> SUFFICES ASSUME IInv, ConfigStep
             PROVE  IInv'
  OBVIOUS
<1>1. TypeOK /\ WayInv /\ HeldInv /\ given.resets <= given.acts
  BY DEF IInv, OnceInv
<1>2. Configures
  BY <1>1, ConfigSteps
<1>3. TypeOK'
  BY <1>1, <1>2 DEF TypeOK, Configures
<1>4. AllSessions' \subseteq AllSessions /\ AllFlows' \subseteq AllFlows
  BY <1>2 DEF AllSessions, AllFlows, Configures
<1>5. SessionInv'
  BY <1>2, <1>4 DEF IInv, SessionInv, Sound, Configures
<1>6. WayInv' /\ HeldInv' /\ UsedOnce'
  BY <1>2 DEF IInv, HeldInv, UsedOnce, Configures
<1>7. EpochInv'
  BY <1>2, <1>4 DEF IInv, EpochInv, Configures
<1>8. OnceInv' /\ ResetsInv'
  BY <1>2 DEF IInv, OnceInv, ResetsInv, Configures
<1>9. StatesInv' /\ TicketsInv'
  BY <1>2 DEF IInv, StatesInv, TicketsInv, Configures
<1> QED
  BY <1>3, <1>5, <1>6, <1>7, <1>8, <1>9 DEF IInv

-----------------------------------------------------------------------------
\* Reset links

ResetStep == CreateResetToken \/ \E t \in resets : DropResetToken(t) \/ Complete(t)

LEMMA Dropping ==
  ASSUME IInv, CreateResetToken \/ \E t \in resets : DropResetToken(t)
  PROVE  IInv'
<1>1. TypeOK /\ given.resets <= given.acts /\ given \in Counters /\ resets \subseteq 1..MaxActs
  BY DEF IInv, OnceInv, TypeOK
<1>2. \A t \in resets : t <= given.resets /\ spent.reset[t] = 0
  BY DEF IInv, ResetsInv
<1>3. /\ given' \in Counters /\ given'.resets <= given'.acts
      /\ given'.flows = given.flows /\ given'.stops = given.stops /\ given'.off = given.off
      /\ given'.restored = given.restored /\ given'.bare = given.bare
      /\ given.resets <= given'.resets
      /\ resets' \subseteq 1..MaxActs
      /\ \A t \in resets' : t <= given'.resets /\ spent.reset[t] = 0
      /\ UNCHANGED <<user, cfg, backup, states, tickets, sessions, work, spent>>
  <2>1. CASE CreateResetToken
    <3>1. /\ Act({"resets"}) /\ resets' = resets \cup {given.resets + 1}
          /\ UNCHANGED <<user, cfg, backup, states, tickets, sessions, work, spent>>
      BY <2>1 DEF CreateResetToken
    <3>2. /\ given' \in Counters /\ given'.resets <= given'.acts
          /\ given'.flows = given.flows /\ given'.stops = given.stops /\ given'.off = given.off
          /\ given'.restored = given.restored /\ given'.bare = given.bare
          /\ given'.resets = given.resets + 1
      BY <1>1, <3>1, Counting
    <3>3. given.resets \in Nat /\ given'.resets \in 0..MaxActs
      BY <1>1, <3>2, Bounds DEF Counters
    <3>4. given.resets + 1 \in 1..MaxActs
      BY <3>2, <3>3, Bounds
    <3>5. spent.reset[given.resets + 1] = 0
      BY <3>3, <3>4 DEF IInv, OnceInv
    <3>6. \A t \in resets : t \in Nat
      BY <1>1, Bounds
    <3>7. \A t \in resets' : t <= given'.resets /\ spent.reset[t] = 0
      BY <1>2, <3>1, <3>2, <3>3, <3>5, <3>6
    <3>8. resets' \subseteq 1..MaxActs
      BY <1>1, <3>1, <3>4
    <3>9. given.resets <= given'.resets
      BY <3>2, <3>3
    <3> QED
      BY <3>1, <3>2, <3>7, <3>8, <3>9
  <2>2. CASE \E t \in resets : DropResetToken(t)
    <3>1. given.resets \in Nat
      BY <1>1, Bounds DEF Counters
    <3> QED
      BY <1>1, <1>2, <2>2, <3>1 DEF DropResetToken
  <2> QED
    BY <2>1, <2>2
<1>4. TypeOK'
  BY <1>1, <1>3 DEF TypeOK
<1>5. AllSessions' = AllSessions /\ AllFlows' = AllFlows
  BY <1>3 DEF AllSessions, AllFlows
<1>6. SessionInv' /\ EpochInv'
  BY <1>3, <1>5 DEF IInv, SessionInv, Sound, EpochInv
<1>7. WayInv' /\ HeldInv' /\ UsedOnce'
  BY <1>3 DEF IInv, WayInv, Way, OidcAvailable, HeldInv, UsedOnce
<1>8. OnceInv'
  <2>1. \A i \in 1..MaxActs : i > given'.resets => i > given.resets
    BY <1>1, <1>3, Bounds DEF Counters
  <2> QED
    BY <1>3, <2>1 DEF IInv, OnceInv
<1>9. StatesInv' /\ TicketsInv' /\ ResetsInv'
  BY <1>3 DEF IInv, StatesInv, TicketsInv, ResetsInv
<1> QED
  BY <1>4, <1>6, <1>7, <1>8, <1>9 DEF IInv

\* A link sets one password.
LEMMA Completing ==
  ASSUME IInv, NEW t \in resets, Complete(t)
  PROVE  IInv'
<1>1. /\ TypeOK /\ HeldInv /\ SessionInv /\ given.resets <= given.acts
      /\ given \in Counters /\ resets \subseteq 1..MaxActs
  BY DEF IInv, OnceInv, TypeOK
<1>2. /\ SetPassword /\ resets' = resets \ {t}
      /\ spent' = [spent EXCEPT !["reset"][t] = @ + 1]
      /\ UNCHANGED <<cfg, backup, states, tickets, sessions, work>>
  BY DEF Complete, Used
<1>3. /\ Ages /\ given' \in Counters /\ given'.resets <= given'.acts
      /\ given'.flows = given.flows /\ given'.stops = given.stops
      /\ given'.resets = given.resets
      /\ given'.restored = given.restored /\ given'.bare = given.bare
  BY <1>1, <1>2, NewPassword
<1>4. /\ spent.flow \in [1..MaxFlows -> Nat] /\ spent.ticket \in [1..MaxFlows -> Nat]
      /\ spent.reset \in [1..MaxActs -> Nat] /\ DOMAIN spent = {"flow", "ticket", "reset"}
  BY <1>1 DEF TypeOK
<1>5. /\ spent'.flow = spent.flow /\ spent'.ticket = spent.ticket
      /\ spent'.reset = [spent.reset EXCEPT ![t] = @ + 1]
      /\ spent' = [flow |-> spent'.flow, ticket |-> spent'.ticket, reset |-> spent'.reset]
  BY <1>1, <1>2 DEF TypeOK
<1>6. t \in 1..MaxActs /\ t <= given.resets /\ spent.reset[t] = 0
  BY <1>1 DEF IInv, ResetsInv
<1>7. /\ spent'.reset \in [1..MaxActs -> Nat] /\ spent'.reset[t] = 1
      /\ \A i \in 1..MaxActs : i # t => spent'.reset[i] = spent.reset[i]
  <2>1. PICK f \in [1..MaxActs -> Nat] : f = spent.reset
    BY <1>4
  <2>2. spent'.reset = [f EXCEPT ![t] = 1]
    BY <1>5, <1>6, <2>1
  <2>3. [f EXCEPT ![t] = 1] \in [1..MaxActs -> Nat]
    OBVIOUS
  <2>4. spent'.reset[t] = 1 /\ \A i \in 1..MaxActs : i # t => spent'.reset[i] = f[i]
    BY <1>6, <2>2
  <2> QED
    BY <2>1, <2>2, <2>3, <2>4
<1>8. TypeOK'
  BY <1>1, <1>2, <1>3, <1>4, <1>5, <1>7 DEF TypeOK, Ages
<1>9. AllSessions' = AllSessions /\ AllFlows' = AllFlows
  BY <1>2 DEF AllSessions, AllFlows
<1>10. SessionInv'
  BY <1>1, <1>3, <1>9, SessionsAge
<1>11. EpochInv'
  BY <1>2, <1>3, <1>9 DEF IInv, EpochInv
<1>12. WayInv' /\ HeldInv'
  BY <1>2, <1>3 DEF IInv, WayInv, Way, OidcAvailable, HeldInv
<1>13. StatesInv' /\ TicketsInv'
  BY <1>2, <1>3, <1>5 DEF IInv, StatesInv, TicketsInv
<1>14. ResetsInv'
  BY <1>1, <1>2, <1>3, <1>7 DEF IInv, ResetsInv
<1>15. OnceInv'
  <2>1. t \in Nat /\ given.resets \in Nat
    BY <1>1, <1>6, Bounds DEF Counters
  <2>2. \A i \in 1..MaxActs : i > given.resets => i # t
    BY <1>6, <2>1
  <2> QED
    BY <1>3, <1>5, <1>7, <2>2 DEF IInv, OnceInv
<1>16. UsedOnce'
  BY <1>4, <1>5, <1>7 DEF IInv, UsedOnce
<1> QED
  BY <1>8, <1>10, <1>11, <1>12, <1>13, <1>14, <1>15, <1>16 DEF IInv

LEMMA ResetKeeps == IInv /\ ResetStep => IInv'
BY Dropping, Completing DEF ResetStep

-----------------------------------------------------------------------------
\* Steps of one request that change nothing in the database, or the account at most

\* What remains to be shown of such a step is that the sessions are sound.
LEMMA TurnKeeps ==
  ASSUME IInv, NEW w \in Workers, NEW r, Turn(w, r), Carries(w, r),
         UNCHANGED <<cfg, backup, states, tickets, resets, sessions, given, spent>>,
         user' \in AccountRow, SessionInv'
  PROVE  IInv'
<1>1. TypeOK /\ HeldInv
  BY DEF IInv
<1>2. /\ work' \in [Workers -> Holding] /\ work'[w] = r
      /\ \A v \in Workers : v # w => work'[v] = work[v]
  BY <1>1, Hands
<1>3. TypeOK'
  BY <1>1, <1>2 DEF TypeOK
<1>4. HeldInv' /\ AllFlows' \subseteq AllFlows
  BY <1>1, HeldKept, HandFlows
<1>5. WayInv' /\ OnceInv' /\ StatesInv' /\ ResetsInv' /\ UsedOnce'
  BY DEF IInv, WayInv, Way, OidcAvailable, OnceInv, StatesInv, ResetsInv, UsedOnce
<1>6. EpochInv'
  BY <1>4 DEF IInv, EpochInv
<1>7. TicketsInv'
  <2>1. \A v \in Workers : work'[v].pc \in InFlow => work[v].pc \in InFlow /\ work'[v].id = work[v].id
    BY <1>2 DEF Carries
  <2> QED
    BY <2>1 DEF IInv, TicketsInv
<1> QED
  BY <1>3, <1>4, <1>5, <1>6, <1>7 DEF IInv

\* They are when a held session stays and a new one is sound.
LEMMA TurnSessions ==
  ASSUME TypeOK, HeldInv, SessionInv, NEW w \in Workers, NEW r, Turn(w, r), Ages,
         tickets' = tickets, sessions' = sessions,
         KeepsSession(w, r) \/ Sound(r.session)'
  PROVE  SessionInv'
<1> SUFFICES ASSUME NEW s \in AllSessions'
             PROVE  Sound(s)'
  BY DEF SessionInv
<1>1. s \in AllSessions \/ (r.pc \in WithSession /\ s = r.session)
  BY HandSessions
<1>2. CASE s \in AllSessions
  <2>1. Sound(s) /\ s \in SessionText /\ user.status # "absent"
    BY <1>2, SessionsTyped DEF SessionInv, Sound
  <2> QED
    BY <2>1, StaySound
<1>3. CASE r.pc \in WithSession /\ s = r.session /\ s \notin AllSessions
  <2>1. ~KeepsSession(w, r)
    BY <1>3 DEF KeepsSession, AllSessions
  <2>2. Sound(r.session)'
    BY <2>1
  <2> QED
    BY <1>3, <2>2
<1> QED
  BY <1>1, <1>2, <1>3

-----------------------------------------------------------------------------
\* What these steps put into the request's hands

\* A session for the account as it stands is sound.
LEMMA NewSession ==
  ASSUME TypeOK, user.status # "absent", NEW pw \in {0, user.pw}, NEW s, s = Session(pw),
         user'.status = user.status, user'.cv = user.cv, user'.pw = user.pw, given' = given
  PROVE  s \in SessionText /\ Sound(s)'
<1>1. user \in AccountRow /\ given \in Counters
  BY DEF TypeOK
<1>2. user.cv \in Nat /\ user.pw \in Nat /\ given.off \in Nat
  BY <1>1 DEF AccountRow, Counters
<1>3. PICK cv \in Nat, p \in Nat, off \in Nat : cv = user.cv /\ p = pw /\ off = given.off
  BY <1>2
<1>4. s = <<cv, p, off>>
  BY <1>3 DEF Session
<1>5. s \in SessionText /\ s[1] = cv /\ s[2] = p /\ s[3] = off
  BY <1>4 DEF SessionText
<1>6. Sound(s)'
  BY <1>3, <1>5 DEF Sound
<1> QED
  BY <1>5, <1>6

\* A request that has nothing.
LEMMA IdleHolding == Idle \in Holding /\ Idle.pc = "idle" /\ Idle.session = <<>>
<1>1. 0 \in 0..MaxFlows /\ 0 \in Nat /\ 0 \in Subjects \cup {0}
  BY Bounds
<1> QED
  BY <1>1 DEF Idle, Holding, Steps, Rules

LEMMA Ending ==
  ASSUME NEW w \in Workers, Ends(w)
  PROVE  Turn(w, Idle) /\ Carries(w, Idle) /\ KeepsSession(w, Idle)
BY IdleHolding DEF Ends, Turn, Carries, KeepsSession, InFlow, WithSession

LEMMA Going ==
  ASSUME TypeOK, HeldInv, NEW w \in Workers, NEW pc \in InFlow, Goto(w, pc), work[w].pc \in InFlow,
         pc \in WithSession => work[w].pc \in WithSession
  PROVE  \E r : Turn(w, r) /\ Carries(w, r) /\ KeepsSession(w, r)
<1>1. work \in [Workers -> Holding] /\ work[w] \in Holding
  BY DEF TypeOK
<1>2. PICK r : r = [work[w] EXCEPT !.pc = pc]
  OBVIOUS
<1>3. /\ r \in Holding /\ r.pc = pc /\ r.id = work[w].id /\ r.hash = work[w].hash
      /\ r.born = work[w].born /\ r.session = work[w].session
  BY <1>1, <1>2 DEF Holding, InFlow
<1>4. work' = [work EXCEPT ![w] = r]
  BY <1>1, <1>2 DEF Goto
<1> QED
  BY <1>3, <1>4 DEF Turn, Carries, KeepsSession, HeldInv

\* Login
LEMMA LoginKeeps == \A w \in Workers : IInv /\ Login(w) => IInv'
<1> SUFFICES ASSUME NEW w \in Workers, IInv, Login(w)
             PROVE  IInv'
  OBVIOUS
<1>1. TypeOK /\ HeldInv /\ SessionInv /\ user \in AccountRow
  BY DEF IInv, TypeOK
<1>2. PICK s : s = Session(user.pw)
  OBVIOUS
<1>3. PICK r : r = [Idle EXCEPT !.pc = "sign", !.session = s]
  OBVIOUS
<1>4. /\ work' = [work EXCEPT ![w] = r] /\ user.status = "active"
      /\ UNCHANGED <<user, cfg, backup, states, tickets, resets, sessions, given, spent>>
  BY <1>2, <1>3 DEF Login, rows
<1>5. s \in SessionText /\ Sound(s)'
  BY <1>1, <1>2, <1>4, NewSession
<1>6. r \in Holding /\ r.pc = "sign" /\ r.session = s
  BY <1>3, <1>5, IdleHolding DEF Idle, Holding, Steps, Rules
<1>7. Turn(w, r) /\ Carries(w, r)
  BY <1>4, <1>5, <1>6 DEF Turn, Carries, InFlow
<1>8. Ages
  BY <1>1, <1>4 DEF Ages
<1>9. SessionInv'
  BY <1>1, <1>4, <1>5, <1>6, <1>7, <1>8, TurnSessions
<1> QED
  BY <1>1, <1>4, <1>7, <1>9, TurnKeeps

\* A step that only ends a request or sends it on.
LEMMA QuietTurn ==
  ASSUME IInv, NEW w \in Workers, NEW r, Turn(w, r), Carries(w, r), KeepsSession(w, r),
         UNCHANGED <<cfg, backup, states, tickets, resets, sessions, given, spent>>,
         user' \in AccountRow, user'.status = user.status, user'.cv = user.cv, user'.pw = user.pw
  PROVE  IInv'
<1>1. TypeOK /\ HeldInv /\ SessionInv
  BY DEF IInv
<1>2. Ages
  BY DEF Ages
<1>3. SessionInv'
  BY <1>1, <1>2, TurnSessions
<1> QED
  BY <1>3, TurnKeeps

\* A flow that knows its account goes on with a session for it.
LEMMA Equipping ==
  ASSUME IInv, NEW w \in Workers, NEW pc \in InFlow, work[w].pc \in InFlow,
         user.status # "absent",
         work' = [work EXCEPT ![w] = [@ EXCEPT !.session = Session(0), !.pc = pc]],
         UNCHANGED <<user, cfg, backup, states, tickets, resets, sessions, given, spent>>
  PROVE  IInv'
<1>1. /\ TypeOK /\ HeldInv /\ SessionInv /\ user \in AccountRow
      /\ work \in [Workers -> Holding] /\ work[w] \in Holding
  BY DEF IInv, TypeOK
<1>2. PICK s : s = Session(0)
  OBVIOUS
<1>3. s \in SessionText /\ Sound(s)'
  BY <1>1, <1>2, NewSession
<1>4. PICK h : h = [work[w] EXCEPT !.session = s]
  OBVIOUS
<1>5. /\ h \in Holding /\ h.pc = work[w].pc /\ h.id = work[w].id /\ h.hash = work[w].hash
      /\ h.born = work[w].born /\ h.session = s
  BY <1>1, <1>3, <1>4 DEF Holding
<1>6. PICK r : r = [h EXCEPT !.pc = pc]
  OBVIOUS
<1>7. /\ r \in Holding /\ r.pc = pc /\ r.id = work[w].id /\ r.hash = work[w].hash
      /\ r.born = work[w].born /\ r.session = s
  BY <1>5, <1>6 DEF Holding, InFlow
<1>8. r = [work[w] EXCEPT !.session = Session(0), !.pc = pc]
  BY <1>1, <1>2, <1>4, <1>6 DEF Holding
<1>9. Turn(w, r) /\ Carries(w, r)
  BY <1>1, <1>3, <1>7, <1>8 DEF Turn, Carries
<1>10. Ages
  BY <1>1 DEF Ages
<1>11. SessionInv'
  BY <1>1, <1>3, <1>7, <1>9, <1>10, TurnSessions
<1> QED
  BY <1>1, <1>9, <1>11, TurnKeeps

\* The provider's answer.
LEMMA ExchangeKeeps == \A w \in Workers : IInv /\ Exchange(w) => IInv'
<1> SUFFICES ASSUME NEW w \in Workers, IInv, Exchange(w)
             PROVE  IInv'
  OBVIOUS
<1>1. /\ TypeOK /\ HeldInv /\ user \in AccountRow
      /\ work \in [Workers -> Holding] /\ work[w] \in Holding
  BY DEF IInv, TypeOK
<1>2. /\ work[w].pc = "exchange"
      /\ UNCHANGED <<user, cfg, backup, states, tickets, resets, sessions, given, spent>>
  BY DEF Exchange, rows
<1>3. CASE Current(work[w].hash)
  <2>1. PICK sub \in Subjects, match \in BOOLEAN, verified \in BOOLEAN :
          work' = [work EXCEPT ![w] = [@ EXCEPT !.sub = sub, !.match = match,
                     !.verified = verified,
                     !.pc = IF work[w].intent = "bind" THEN "bind" ELSE "subject"]]
    BY <1>3 DEF Exchange
  <2>2. PICK pc \in {"bind", "subject"} : pc = IF work[w].intent = "bind" THEN "bind" ELSE "subject"
    OBVIOUS
  <2>3. PICK h1 : h1 = [work[w] EXCEPT !.sub = sub]
    OBVIOUS
  <2>4. PICK h2 : h2 = [h1 EXCEPT !.match = match]
    OBVIOUS
  <2>5. PICK h3 : h3 = [h2 EXCEPT !.verified = verified]
    OBVIOUS
  <2>6. PICK r : r = [h3 EXCEPT !.pc = pc]
    OBVIOUS
  <2>7. h1 \in Holding /\ h1.id = work[w].id /\ h1.hash = work[w].hash /\ h1.born = work[w].born
    BY <1>1, <2>3 DEF Holding
  <2>8. h2 \in Holding /\ h2.id = work[w].id /\ h2.hash = work[w].hash /\ h2.born = work[w].born
    BY <2>4, <2>7 DEF Holding
  <2>9. h3 \in Holding /\ h3.id = work[w].id /\ h3.hash = work[w].hash /\ h3.born = work[w].born
    BY <2>5, <2>8 DEF Holding
  <2>10. pc \in Steps /\ pc \notin WithSession /\ work[w].pc \in InFlow
    BY <1>2, <2>2 DEF WithSession, InFlow, Steps
  <2>11. /\ r \in Holding /\ r.pc = pc /\ r.id = work[w].id /\ r.hash = work[w].hash
         /\ r.born = work[w].born
    BY <2>6, <2>9, <2>10 DEF Holding
  <2>12. r = [work[w] EXCEPT !.sub = sub, !.match = match, !.verified = verified, !.pc = pc]
    BY <1>1, <2>3, <2>4, <2>5, <2>6 DEF Holding
  <2>13. work' = [work EXCEPT ![w] = r]
    BY <1>1, <2>1, <2>2, <2>12
  <2>14. Turn(w, r) /\ Carries(w, r) /\ KeepsSession(w, r)
    BY <2>10, <2>11, <2>13 DEF Turn, Carries, KeepsSession
  <2> QED
    BY <1>1, <1>2, <2>14, QuietTurn
<1>4. CASE ~Current(work[w].hash)
  <2>1. Ends(w)
    BY <1>4 DEF Exchange
  <2> QED
    BY <1>1, <1>2, <2>1, Ending, QuietTurn
<1> QED
  BY <1>3, <1>4

\* Looking for the account.
LEMMA FindKeeps == \A w \in Workers : IInv /\ (FindSubject(w) \/ FindMail(w)) => IInv'
<1> SUFFICES ASSUME NEW w \in Workers, IInv, FindSubject(w) \/ FindMail(w)
             PROVE  IInv'
  OBVIOUS
<1>1. /\ TypeOK /\ HeldInv /\ user \in AccountRow
      /\ work \in [Workers -> Holding] /\ work[w] \in Holding
  BY DEF IInv, TypeOK
<1>2. /\ work[w].pc \in {"subject", "mail"}
      /\ UNCHANGED <<user, cfg, backup, states, tickets, resets, sessions, given, spent>>
  BY DEF FindSubject, FindMail, rows
<1>3. work[w].pc \in InFlow
  BY <1>2 DEF InFlow, Steps
<1>4. CASE Ends(w)
  BY <1>1, <1>2, <1>4, Ending, QuietTurn
<1>5. CASE Goto(w, "mail")
  <2>1. "mail" \in InFlow /\ "mail" \notin WithSession
    BY DEF InFlow, Steps, WithSession
  <2>2. \E r : Turn(w, r) /\ Carries(w, r) /\ KeepsSession(w, r)
    BY <1>1, <1>3, <1>5, <2>1, Going
  <2> QED
    BY <1>1, <1>2, <2>2, QuietTurn
<1>6. CASE There /\ ~Ends(w) /\ ~Goto(w, "mail")
  <2>1. user.status # "absent"
    BY <1>6 DEF There
  <2>2. \E pc \in {"refresh", "claim", "merge"} :
          work' = [work EXCEPT ![w] = [@ EXCEPT !.session = Session(0), !.pc = pc]]
    <3>1. CASE FindMail(w)
      <4>1. work' = [work EXCEPT ![w] = [@ EXCEPT !.session = Session(0),
                       !.pc = IF user.status = "pending" THEN "claim" ELSE "merge"]]
        BY <1>6, <3>1 DEF FindMail
      <4> QED
        BY <4>1
    <3>2. CASE FindSubject(w)
      <4>1. work' = [work EXCEPT ![w] = [@ EXCEPT !.pc = "refresh", !.session = Session(0)]]
        BY <1>6, <3>2 DEF FindSubject
      <4>2. [work[w] EXCEPT !.pc = "refresh", !.session = Session(0)]
              = [work[w] EXCEPT !.session = Session(0), !.pc = "refresh"]
        BY <1>1 DEF Holding
      <4> QED
        BY <4>1, <4>2
    <3> QED
      BY <3>1, <3>2
  <2>3. {"refresh", "claim", "merge"} \subseteq InFlow
    BY DEF InFlow, Steps
  <2> QED
    BY <1>2, <1>3, <2>1, <2>2, <2>3, Equipping
<1>7. There \/ Ends(w) \/ Goto(w, "mail")
  BY DEF FindSubject, FindMail
<1> QED
  BY <1>4, <1>5, <1>6, <1>7

\* Nobody found.
LEMMA FindNobodyKeeps == \A w \in Workers : IInv /\ FindNobody(w) => IInv'
<1> SUFFICES ASSUME NEW w \in Workers, IInv, FindNobody(w)
             PROVE  IInv'
  OBVIOUS
<1>1. /\ TypeOK /\ HeldInv /\ user \in AccountRow /\ cfg \in Configuration
      /\ work \in [Workers -> Holding] /\ work[w] \in Holding
  BY DEF IInv, TypeOK
<1>2. PICK hit \in BOOLEAN :
        work' = [work EXCEPT ![w] = [@ EXCEPT !.pc = "create", !.rule = cfg.rule,
                   !.plan = cfg.rule # "off" /\ ~hit]]
  BY DEF FindNobody
<1>3. PICK plan \in BOOLEAN : plan = (cfg.rule # "off" /\ ~hit)
  OBVIOUS
<1>4. PICK h1 : h1 = [work[w] EXCEPT !.pc = "create"]
  OBVIOUS
<1>5. PICK h2 : h2 = [h1 EXCEPT !.rule = cfg.rule]
  OBVIOUS
<1>6. PICK r : r = [h2 EXCEPT !.plan = plan]
  OBVIOUS
<1>7. cfg.rule \in Rules /\ "create" \in Steps
  BY <1>1 DEF Configuration, Steps
<1>8. /\ h1 \in Holding /\ h1.pc = "create"
      /\ h1.id = work[w].id /\ h1.hash = work[w].hash /\ h1.born = work[w].born
  BY <1>1, <1>4, <1>7 DEF Holding
<1>9. /\ h2 \in Holding /\ h2.pc = "create"
      /\ h2.id = work[w].id /\ h2.hash = work[w].hash /\ h2.born = work[w].born
  BY <1>5, <1>7, <1>8 DEF Holding
<1>10. /\ r \in Holding /\ r.pc = "create"
       /\ r.id = work[w].id /\ r.hash = work[w].hash /\ r.born = work[w].born
  BY <1>6, <1>9 DEF Holding
<1>11. work' = [work EXCEPT ![w] = r]
  <2>1. r = [work[w] EXCEPT !.pc = "create", !.rule = cfg.rule, !.plan = plan]
    BY <1>1, <1>4, <1>5, <1>6 DEF Holding
  <2> QED
    BY <1>1, <1>2, <1>3, <2>1
<1>12. r.pc \notin WithSession /\ work[w].pc \in InFlow
  BY <1>10 DEF FindNobody, WithSession, InFlow, Steps
<1>13. Turn(w, r) /\ Carries(w, r) /\ KeepsSession(w, r)
  BY <1>10, <1>11, <1>12 DEF Turn, Carries, KeepsSession
<1>14. UNCHANGED <<user, cfg, backup, states, tickets, resets, sessions, given, spent>>
  BY DEF FindNobody, rows
<1> QED
  BY <1>1, <1>13, <1>14, QuietTurn

\* The steps that write, and the end of a flow that is over: all but the new account.
LEMMA WritesKeep ==
  \A w \in Workers :
    /\ IInv
    /\ \/ FlowIsOver(w) \/ RefreshUsername(w) \/ Merge(w) \/ Claim(w) \/ Bind(w)
       \/ CreateElsewhere(w)
    => IInv'
<1> SUFFICES ASSUME NEW w \in Workers, IInv,
                    \/ FlowIsOver(w) \/ RefreshUsername(w) \/ Merge(w) \/ Claim(w) \/ Bind(w)
                    \/ CreateElsewhere(w)
             PROVE  IInv'
  OBVIOUS
<1>1. /\ TypeOK /\ HeldInv /\ user \in AccountRow
      /\ work \in [Workers -> Holding] /\ work[w] \in Holding
  BY DEF IInv, TypeOK
<1>2. UNCHANGED <<cfg, backup, states, tickets, resets, sessions, given, spent>>
  BY DEF FlowIsOver, RefreshUsername, Merge, Claim, Bind, CreateElsewhere, rows
<1>3. /\ user' \in AccountRow /\ user'.status = user.status /\ user'.cv = user.cv
      /\ user'.pw = user.pw
  <2>1. PICK sub \in Subjects \cup {0} : sub = work[w].sub
    BY <1>1 DEF Holding
  <2>2. user' = user \/ user' = [user EXCEPT !.subject = sub]
    BY <2>1 DEF FlowIsOver, RefreshUsername, Merge, Claim, Bind, CreateElsewhere, BindIfNull
  <2> QED
    BY <1>1, <2>2 DEF AccountRow
<1>4. CASE Ends(w)
  BY <1>1, <1>2, <1>3, <1>4, Ending, QuietTurn
<1>5. CASE ~Ends(w)
  <2>1. Goto(w, "ticket") /\ work[w].pc \in {"refresh", "merge"}
    BY <1>5 DEF FlowIsOver, RefreshUsername, Merge, Claim, Bind, CreateElsewhere, Writes
  <2>2. "ticket" \in InFlow /\ work[w].pc \in InFlow /\ work[w].pc \in WithSession
    BY <2>1 DEF InFlow, Steps, WithSession
  <2>3. \E r : Turn(w, r) /\ Carries(w, r) /\ KeepsSession(w, r)
    BY <1>1, <2>1, <2>2, Going
  <2> QED
    BY <1>1, <1>2, <1>3, <2>3, QuietTurn
<1> QED
  BY <1>4, <1>5

\* The account is made: until then nobody had a session.
LEMMA CreateKeeps == \A w \in Workers : IInv /\ CreateFromOidc(w) => IInv'
<1> SUFFICES ASSUME NEW w \in Workers, IInv, CreateFromOidc(w)
             PROVE  IInv'
  OBVIOUS
<1>1. /\ TypeOK /\ HeldInv /\ SessionInv /\ given \in Counters
      /\ work \in [Workers -> Holding] /\ work[w] \in Holding
  BY DEF IInv, TypeOK
<1>2. /\ work[w].pc = "create" /\ user.status = "absent"
      /\ UNCHANGED <<cfg, backup, states, tickets, resets, sessions, given, spent>>
  BY DEF CreateFromOidc, Writes, rows
<1>3. AllSessions = {}
  BY <1>1, <1>2 DEF SessionInv, Sound
<1>4. /\ user' \in AccountRow /\ user'.status # "absent" /\ user'.cv = 0
  <2>1. PICK sub \in Subjects \cup {0} : sub = work[w].sub
    BY <1>1 DEF Holding
  <2>2. PICK status \in {"pending", "active"} : status = NewStatus(w)
    BY DEF NewStatus
  <2>3. user' = [status |-> status, pw |-> 0, cv |-> 0, subject |-> sub]
    BY <2>1, <2>2 DEF CreateFromOidc
  <2> QED
    BY <2>3 DEF AccountRow, Statuses
<1>5. CASE work[w].plan
  <2>1. Ends(w)
    BY <1>5 DEF CreateFromOidc
  <2>2. Turn(w, Idle) /\ Carries(w, Idle) /\ Idle.pc \notin WithSession
    BY <2>1, Ending, IdleHolding DEF WithSession
  <2>3. AllSessions' = {}
    BY <1>1, <1>2, <1>3, <2>2, HandSessions
  <2>4. SessionInv'
    BY <2>3 DEF SessionInv
  <2> QED
    BY <1>2, <1>4, <2>2, <2>4, TurnKeeps
<1>6. CASE ~work[w].plan
  <2>1. PICK off \in Nat : off = given.off
    BY <1>1 DEF Counters
  <2>2. PICK s : s = <<0, 0, off>>
    OBVIOUS
  <2>3. work' = [work EXCEPT ![w] = [@ EXCEPT !.pc = "ticket", !.session = s]]
    BY <1>6, <2>1, <2>2 DEF CreateFromOidc
  <2>4. s \in SessionText /\ s[1] = 0 /\ s[2] = 0 /\ s[3] = off
    BY <2>2 DEF SessionText
  <2>5. Sound(s)'
    BY <1>2, <1>4, <2>1, <2>4 DEF Sound
  <2>6. PICK h : h = [work[w] EXCEPT !.pc = "ticket"]
    OBVIOUS
  <2>7. h \in Holding /\ h.pc = "ticket" /\ h.id = work[w].id /\ h.hash = work[w].hash
        /\ h.born = work[w].born
    BY <1>1, <2>6 DEF Holding, Steps
  <2>8. PICK r : r = [h EXCEPT !.session = s]
    OBVIOUS
  <2>9. /\ r \in Holding /\ r.pc = "ticket" /\ r.id = work[w].id /\ r.hash = work[w].hash
        /\ r.born = work[w].born /\ r.session = s
    BY <2>4, <2>7, <2>8 DEF Holding
  <2>10. work' = [work EXCEPT ![w] = r]
    <3>1. r = [work[w] EXCEPT !.pc = "ticket", !.session = s]
      BY <1>1, <2>6, <2>8 DEF Holding
    <3> QED
      BY <1>1, <2>3, <3>1
  <2>11. work[w].pc \in InFlow
    BY <1>2 DEF InFlow, Steps
  <2>12. Turn(w, r) /\ Carries(w, r)
    BY <2>4, <2>9, <2>10, <2>11 DEF Turn, Carries
  <2>13. \A x \in AllSessions' : x = s
    BY <1>1, <1>2, <1>3, <2>9, <2>12, HandSessions
  <2>14. SessionInv'
    BY <2>5, <2>13 DEF SessionInv
  <2> QED
    BY <1>2, <1>4, <2>12, <2>14, TurnKeeps
<1> QED
  BY <1>5, <1>6

-----------------------------------------------------------------------------
\* Steps that move sessions and flows between requests and tables

\* The session is signed.
LEMMA IssueKeeps == \A w \in Workers : IInv /\ Issue(w) => IInv'
<1> SUFFICES ASSUME NEW w \in Workers, IInv, Issue(w)
             PROVE  IInv'
  OBVIOUS
<1>1. /\ TypeOK /\ HeldInv /\ SessionInv
  BY DEF IInv
<1>2. /\ work[w].pc = "sign" /\ Ends(w) /\ sessions' = sessions \cup {work[w].session}
      /\ UNCHANGED <<user, cfg, backup, states, tickets, resets, given, spent>>
  BY DEF Issue, rows
<1>3. Turn(w, Idle) /\ Carries(w, Idle) /\ Idle.pc = "idle"
  BY <1>2, Ending, IdleHolding
<1>4. /\ work' \in [Workers -> Holding] /\ work'[w] = Idle
      /\ \A v \in Workers : v # w => work'[v] = work[v]
  BY <1>1, <1>3, Hands
<1>5. work[w].pc \in WithSession /\ work'[w].pc \notin WithSession /\ work'[w].pc \notin InFlow
  BY <1>2, <1>3, <1>4 DEF WithSession, InFlow
<1>6. work[w].session \in SessionText
  BY <1>1, <1>5 DEF HeldInv
<1>7. TypeOK'
  BY <1>1, <1>2, <1>4, <1>6 DEF TypeOK
<1>8. AllSessions' \subseteq AllSessions
  BY <1>2, <1>4, <1>5 DEF AllSessions
<1>9. SessionInv'
  BY <1>1, <1>2, <1>8 DEF SessionInv, Sound
<1>10. HeldInv' /\ AllFlows' \subseteq AllFlows
  BY <1>1, <1>2, <1>3, HeldKept, HandFlows
<1>11. EpochInv'
  BY <1>2, <1>10 DEF IInv, EpochInv
<1>12. TicketsInv'
  <2>1. \A v \in Workers : work'[v].pc \in InFlow => work[v].pc \in InFlow /\ work'[v].id = work[v].id
    BY <1>4, <1>5
  <2> QED
    BY <1>2, <2>1 DEF IInv, TicketsInv
<1>13. WayInv' /\ OnceInv' /\ StatesInv' /\ ResetsInv' /\ UsedOnce'
  BY <1>2 DEF IInv, WayInv, Way, OidcAvailable, OnceInv, StatesInv, ResetsInv, UsedOnce
<1> QED
  BY <1>7, <1>9, <1>10, <1>11, <1>12, <1>13 DEF IInv

\* A flow begins: a number not used before, and the fingerprint of now.
LEMMA StartKeeps == \A intent \in {"login", "bind"} : IInv /\ StartFlow(intent) => IInv'
<1> SUFFICES ASSUME NEW intent \in {"login", "bind"}, IInv, StartFlow(intent)
             PROVE  IInv'
  OBVIOUS
<1>1. /\ TypeOK /\ given \in Counters /\ cfg \in Configuration
  BY DEF IInv, TypeOK
<1>2. /\ given.flows \in 0..MaxFlows /\ given.stops \in Nat /\ cfg.epoch \in Nat /\ cfg.raw \in Nat
  BY <1>1 DEF Counters, Configuration
<1>3. PICK n : n = given.flows + 1
  OBVIOUS
<1>4. n \in 1..MaxFlows /\ n \in 0..MaxFlows /\ n > given.flows /\ given.flows <= n
  BY <1>2, <1>3, Bounds DEF StartFlow
<1>5. PICK born \in Nat, epoch \in Nat, raw \in Nat :
        born = given.stops /\ epoch = cfg.epoch /\ raw = cfg.raw
  BY <1>2
<1>6. PICK st : st = [id |-> n, intent |-> intent, hash |-> <<epoch, raw>>, born |-> born]
  OBVIOUS
<1>7. /\ st \in StateRow /\ st.id = n /\ st.born = born /\ st.hash = <<epoch, raw>>
  BY <1>4, <1>6 DEF StateRow, Fingerprint
<1>8. /\ states' = states \cup {st} /\ given' = [given EXCEPT !.flows = n]
      /\ UNCHANGED <<user, cfg, backup, tickets, resets, sessions, work, spent>>
  BY <1>3, <1>5, <1>6 DEF StartFlow, FlowHash
<1>9. /\ given' \in Counters /\ given'.flows = n /\ given'.resets = given.resets
      /\ given'.acts = given.acts /\ given'.stops = given.stops /\ given'.off = given.off
      /\ given'.restored = given.restored /\ given'.bare = given.bare
  BY <1>1, <1>4, <1>8 DEF Counters
<1>10. TypeOK'
  BY <1>1, <1>7, <1>8, <1>9 DEF TypeOK
<1>11. WayInv' /\ HeldInv' /\ UsedOnce' /\ TicketsInv' /\ AllSessions' = AllSessions
  BY <1>8, <1>9 DEF IInv, WayInv, Way, OidcAvailable, HeldInv, UsedOnce, TicketsInv, AllSessions
<1>12. SessionInv'
  BY <1>8, <1>9, <1>11 DEF IInv, SessionInv, Sound
<1>13. EpochInv'
  <2> SUFFICES ASSUME given.restored = 0
               PROVE  cfg.epoch = given.stops /\ \A f \in AllFlows' : f[1][1] = f[2]
    BY <1>8, <1>9 DEF EpochInv
  <2>1. cfg.epoch = given.stops /\ \A f \in AllFlows : f[1][1] = f[2]
    BY DEF IInv, EpochInv
  <2>2. \A f \in AllFlows' : f \in AllFlows \/ f = <<st.hash, st.born>>
    BY <1>8 DEF AllFlows
  <2>3. \A f : f = <<st.hash, st.born>> => f[1][1] = f[2]
    BY <1>5, <1>7, <2>1
  <2> QED
    BY <2>1, <2>2, <2>3
<1>14. OnceInv' /\ ResetsInv'
  <2>1. \A i \in 1..MaxFlows : i > n => i > given.flows
    BY <1>2, <1>4, Bounds
  <2> QED
    BY <1>8, <1>9, <2>1 DEF IInv, OnceInv, ResetsInv
<1>15. StatesInv'
  <2>1. \A x \in states : x.id <= given.flows /\ spent.flow[x.id] = 0 /\ x.id \in 1..MaxFlows
    BY <1>1 DEF IInv, StatesInv, TypeOK, StateRow
  <2>2. \A x \in states : x.id # n /\ x.id <= n
    BY <1>2, <1>4, <2>1, Bounds
  <2>3. spent.flow[n] = 0
    BY <1>4 DEF IInv, OnceInv
  <2>4. n <= n
    BY <1>4
  <2>5. \A x \in states' : x.id <= n /\ spent.flow[x.id] = 0
    BY <1>7, <1>8, <2>1, <2>2, <2>3, <2>4
  <2>6. \A x, u \in states' : x.id = u.id => x = u
    BY <1>7, <1>8, <2>2 DEF IInv, StatesInv
  <2> QED
    BY <1>8, <1>9, <2>5, <2>6 DEF StatesInv
<1> QED
  BY <1>10, <1>11, <1>12, <1>13, <1>14, <1>15 DEF IInv

\* What is used is counted once more.
LEMMA Using ==
  ASSUME TypeOK, NEW kind \in {"flow", "ticket"}, NEW id \in 1..MaxFlows, Used(kind, id),
         spent[kind][id] = 0
  PROVE  /\ spent' \in [flow : [1..MaxFlows -> Nat], ticket : [1..MaxFlows -> Nat],
                        reset : [1..MaxActs -> Nat]]
         /\ spent'.reset = spent.reset
         /\ kind # "flow" => spent'.flow = spent.flow
         /\ kind # "ticket" => spent'.ticket = spent.ticket
         /\ spent'[kind][id] = 1
         /\ \A i \in 1..MaxFlows : i # id => spent'[kind][i] = spent[kind][i]
<1>1. /\ spent.flow \in [1..MaxFlows -> Nat] /\ spent.ticket \in [1..MaxFlows -> Nat]
      /\ spent.reset \in [1..MaxActs -> Nat] /\ DOMAIN spent = {"flow", "ticket", "reset"}
  BY DEF TypeOK
<1>2. PICK f \in [1..MaxFlows -> Nat] : f = spent[kind]
  BY <1>1
<1>3. PICK g : g = [f EXCEPT ![id] = 1]
  OBVIOUS
<1>4. /\ g \in [1..MaxFlows -> Nat] /\ g[id] = 1
      /\ \A i \in 1..MaxFlows : i # id => g[i] = f[i]
  BY <1>2, <1>3
<1>5. spent' = [spent EXCEPT ![kind] = g]
  BY <1>2, <1>3 DEF Used
<1>6. /\ spent'[kind] = g /\ spent'.reset = spent.reset
      /\ kind # "flow" => spent'.flow = spent.flow
      /\ kind # "ticket" => spent'.ticket = spent.ticket
      /\ spent' = [flow |-> spent'.flow, ticket |-> spent'.ticket, reset |-> spent'.reset]
  BY <1>1, <1>5 DEF TypeOK
<1>7. spent'.flow \in [1..MaxFlows -> Nat] /\ spent'.ticket \in [1..MaxFlows -> Nat]
  BY <1>1, <1>4, <1>6
<1> QED
  BY <1>1, <1>2, <1>4, <1>6, <1>7

\* A callback: the state goes, and the request holds its flow.
LEMMA ConsumeKeeps == \A w \in Workers : \A st \in states : IInv /\ ConsumeState(w, st) => IInv'
<1> SUFFICES ASSUME NEW w \in Workers, NEW st \in states, IInv, ConsumeState(w, st)
             PROVE  IInv'
  OBVIOUS
<1>1. TypeOK /\ HeldInv /\ SessionInv /\ st \in StateRow
  BY DEF IInv, TypeOK
<1>2. /\ st.id \in 1..MaxFlows /\ st.id \in 0..MaxFlows /\ st.intent \in {"login", "bind"}
      /\ st.hash \in Fingerprint /\ st.born \in Nat
  BY <1>1, Bounds DEF StateRow
<1>3. PICK r : r = [Idle EXCEPT !.pc = "exchange", !.id = st.id, !.hash = st.hash,
                                !.intent = st.intent, !.born = st.born]
  OBVIOUS
<1>4. /\ work[w].pc = "idle" /\ states' = states \ {st} /\ work' = [work EXCEPT ![w] = r]
      /\ Used("flow", st.id)
      /\ UNCHANGED <<user, cfg, backup, tickets, resets, sessions, given>>
  BY <1>3 DEF ConsumeState, AfterUse
<1>5. /\ r \in Holding /\ r.pc = "exchange" /\ r.id = st.id /\ r.hash = st.hash /\ r.born = st.born
  <2>1. 0 \in Subjects \cup {0}
    OBVIOUS
  <2> QED
    BY <1>2, <1>3, <2>1 DEF Idle, Holding, Steps, Rules
<1>6. r.pc \in InFlow /\ r.pc \notin WithSession
  BY <1>5 DEF InFlow, WithSession, Steps
<1>7. Turn(w, r)
  BY <1>4, <1>5 DEF Turn
<1>8. /\ work' \in [Workers -> Holding] /\ work'[w] = r
      /\ \A v \in Workers : v # w => work'[v] = work[v]
  BY <1>1, <1>7, Hands
<1>9. st.id <= given.flows /\ spent.flow[st.id] = 0 /\ spent.ticket[st.id] = 0
  BY <1>2 DEF IInv, StatesInv, OnceInv
<1>10. /\ spent' \in [flow : [1..MaxFlows -> Nat], ticket : [1..MaxFlows -> Nat],
                      reset : [1..MaxActs -> Nat]]
       /\ spent'.reset = spent.reset /\ spent'.ticket = spent.ticket
       /\ spent'.flow[st.id] = 1
       /\ \A i \in 1..MaxFlows : i # st.id => spent'.flow[i] = spent.flow[i]
  BY <1>1, <1>2, <1>4, <1>9, Using
<1>11. TypeOK'
  BY <1>1, <1>4, <1>8, <1>10 DEF TypeOK
<1>12. HeldInv'
  BY <1>2, <1>5, <1>6, <1>8 DEF IInv, HeldInv
<1>13. SessionInv'
  <2>1. AllSessions' \subseteq AllSessions
    BY <1>1, <1>4, <1>6, <1>7, HandSessions
  <2> QED
    BY <1>4, <2>1 DEF IInv, SessionInv, Sound
<1>14. EpochInv'
  <2>1. AllFlows' \subseteq AllFlows
    BY <1>4, <1>5, <1>6, <1>8 DEF AllFlows
  <2> QED
    BY <1>4, <2>1 DEF IInv, EpochInv
<1>15. WayInv' /\ ResetsInv'
  BY <1>4, <1>10 DEF IInv, WayInv, Way, OidcAvailable, ResetsInv
<1>16. StatesInv'
  <2>1. \A x \in states' : x \in states /\ x.id # st.id /\ x.id \in 1..MaxFlows
    BY <1>1, <1>4 DEF IInv, StatesInv, TypeOK, StateRow
  <2> QED
    BY <1>4, <1>10, <2>1 DEF IInv, StatesInv
<1>17. OnceInv'
  <2>1. \A i \in 1..MaxFlows : i > given.flows => i # st.id
    <3>1. given.flows \in Nat
      BY <1>1, Bounds DEF TypeOK, Counters
    <3> QED
      BY <1>2, <1>9, <3>1, Bounds
  <2> QED
    BY <1>2, <1>4, <1>9, <1>10, <2>1 DEF IInv, OnceInv
<1>18. UsedOnce'
  <2>1. \A i \in 1..MaxFlows : spent'.flow[i] <= 1
    <3>1. \A i \in 1..MaxFlows : spent.flow[i] <= 1
      BY <1>1 DEF IInv, UsedOnce, TypeOK
    <3> QED
      BY <1>10, <3>1
  <2>2. \A i \in 1..MaxFlows : spent'.ticket[i] <= 1
    BY <1>1, <1>10 DEF IInv, UsedOnce, TypeOK
  <2>3. \A i \in 1..MaxActs : spent'.reset[i] <= 1
    BY <1>1, <1>10 DEF IInv, UsedOnce, TypeOK
  <2> QED
    BY <1>10, <2>1, <2>2, <2>3 DEF UsedOnce
<1>19. TicketsInv'
  <2>1. \A v \in Workers : v # w /\ work'[v].pc \in InFlow =>
          /\ work'[v].id \in 1..MaxFlows /\ work'[v].id = work[v].id /\ work'[v].id # st.id
          /\ spent'.flow[work'[v].id] # 0 /\ spent'.ticket[work'[v].id] = 0
    BY <1>8, <1>9, <1>10 DEF IInv, TicketsInv, HeldInv
  <2>2. \A t \in tickets : /\ t.id \in 1..MaxFlows /\ t.id # st.id
                           /\ spent'.flow[t.id] # 0 /\ spent'.ticket[t.id] = 0
    BY <1>1, <1>9, <1>10 DEF IInv, TicketsInv, TypeOK, TicketRow
  <2>3. \A v, u \in Workers : v # u /\ work'[v].pc \in InFlow /\ work'[u].pc \in InFlow =>
          work'[v].id # work'[u].id
    BY <1>5, <1>8, <2>1 DEF IInv, TicketsInv
  <2>4. \A t \in tickets, v \in Workers : work'[v].pc \in InFlow => work'[v].id # t.id
    BY <1>5, <1>8, <2>2 DEF IInv, TicketsInv
  <2>5. spent'.flow[work'[w].id] # 0 /\ spent'.ticket[work'[w].id] = 0
    BY <1>5, <1>8, <1>9, <1>10
  <2>6. \A v \in Workers : work'[v].pc \in InFlow =>
          spent'.flow[work'[v].id] # 0 /\ spent'.ticket[work'[v].id] = 0
    BY <2>1, <2>5
  <2>7. \A t, u \in tickets : t.id = u.id => t = u
    BY DEF IInv, TicketsInv
  <2> QED
    BY <1>4, <2>2, <2>3, <2>4, <2>6, <2>7 DEF TicketsInv
<1> QED
  BY <1>11, <1>12, <1>13, <1>14, <1>15, <1>16, <1>17, <1>18, <1>19 DEF IInv

\* The session goes under a ticket.
LEMMA IssueTicketKeeps == \A w \in Workers : IInv /\ IssueTicket(w) => IInv'
<1> SUFFICES ASSUME NEW w \in Workers, IInv, IssueTicket(w)
             PROVE  IInv'
  OBVIOUS
<1>1. /\ TypeOK /\ HeldInv /\ SessionInv /\ work[w] \in Holding
  BY DEF IInv, TypeOK
<1>2. PICK t : t = [id |-> work[w].id, hash |-> work[w].hash, born |-> work[w].born,
                    session |-> work[w].session]
  OBVIOUS
<1>3. /\ work[w].pc = "ticket" /\ Ends(w) /\ tickets' = tickets \cup {t}
      /\ UNCHANGED <<user, cfg, backup, states, resets, sessions, given, spent>>
  BY <1>2 DEF IssueTicket, Writes
<1>4. Turn(w, Idle) /\ Carries(w, Idle) /\ Idle.pc = "idle"
  BY <1>3, Ending, IdleHolding
<1>5. /\ work' \in [Workers -> Holding] /\ work'[w] = Idle
      /\ \A v \in Workers : v # w => work'[v] = work[v]
  BY <1>1, <1>4, Hands
<1>6. /\ work[w].pc \in WithSession /\ work[w].pc \in InFlow
      /\ work'[w].pc \notin WithSession /\ work'[w].pc \notin InFlow
  BY <1>3, <1>4, <1>5 DEF WithSession, InFlow, Steps
<1>7. /\ work[w].session \in SessionText /\ work[w].id \in 1..MaxFlows
      /\ work[w].hash \in Fingerprint /\ work[w].born \in Nat
  BY <1>1, <1>6 DEF HeldInv, Holding
<1>8. /\ t \in TicketRow /\ t.id = work[w].id /\ t.hash = work[w].hash /\ t.born = work[w].born
      /\ t.session = work[w].session
  BY <1>2, <1>7 DEF TicketRow
<1>9. TypeOK'
  BY <1>1, <1>3, <1>5, <1>8 DEF TypeOK
<1>10. AllSessions' \subseteq AllSessions
  BY <1>3, <1>5, <1>6, <1>8 DEF AllSessions
<1>11. SessionInv'
  BY <1>1, <1>3, <1>10 DEF SessionInv, Sound
<1>12. HeldInv'
  BY <1>1, <1>4, HeldKept
<1>13. EpochInv'
  <2>1. AllFlows' \subseteq AllFlows
    BY <1>3, <1>5, <1>6, <1>8 DEF AllFlows
  <2> QED
    BY <1>3, <2>1 DEF IInv, EpochInv
<1>14. TicketsInv'
  <2>1. \A v \in Workers : work'[v].pc \in InFlow =>
          v # w /\ work[v].pc \in InFlow /\ work'[v].id = work[v].id
    BY <1>5, <1>6
  <2>2. \A v \in Workers : work'[v].pc \in InFlow => work'[v].id # t.id
    BY <1>6, <1>8, <2>1 DEF IInv, TicketsInv
  <2>3. \A x \in tickets : x.id # t.id
    BY <1>6, <1>8 DEF IInv, TicketsInv
  <2>4. spent.flow[t.id] # 0 /\ spent.ticket[t.id] = 0
    BY <1>6, <1>8 DEF IInv, TicketsInv
  <2>5. \A x \in tickets' : x = t \/ x \in tickets
    BY <1>3
  <2>6. \A x, u \in tickets' : x.id = u.id => x = u
    BY <2>3, <2>5 DEF IInv, TicketsInv
  <2>7. \A x \in tickets' : spent.flow[x.id] # 0 /\ spent.ticket[x.id] = 0
    BY <2>4, <2>5 DEF IInv, TicketsInv
  <2>8. \A x \in tickets', v \in Workers : work'[v].pc \in InFlow => work'[v].id # x.id
    BY <2>1, <2>2, <2>5 DEF IInv, TicketsInv
  <2>9. \A v \in Workers : work'[v].pc \in InFlow =>
          spent.flow[work'[v].id] # 0 /\ spent.ticket[work'[v].id] = 0
    BY <2>1 DEF IInv, TicketsInv
  <2>10. \A v, u \in Workers : v # u /\ work'[v].pc \in InFlow /\ work'[u].pc \in InFlow =>
           work'[v].id # work'[u].id
    BY <2>1 DEF IInv, TicketsInv
  <2> QED
    BY <1>3, <2>6, <2>7, <2>8, <2>9, <2>10 DEF TicketsInv
<1>15. WayInv' /\ OnceInv' /\ StatesInv' /\ ResetsInv' /\ UsedOnce'
  BY <1>3 DEF IInv, WayInv, Way, OidcAvailable, OnceInv, StatesInv, ResetsInv, UsedOnce
<1> QED
  BY <1>9, <1>11, <1>12, <1>13, <1>14, <1>15 DEF IInv

\* The ticket goes, for a session if its flow is still the current one.
LEMMA RedeemKeeps == \A t \in tickets : IInv /\ ConsumeTicket(t) => IInv'
<1> SUFFICES ASSUME NEW t \in tickets, IInv, ConsumeTicket(t)
             PROVE  IInv'
  OBVIOUS
<1>1. TypeOK /\ HeldInv /\ SessionInv /\ t \in TicketRow
  BY DEF IInv, TypeOK
<1>2. /\ t.id \in 1..MaxFlows /\ t.session \in SessionText
      /\ spent.flow[t.id] # 0 /\ spent.ticket[t.id] = 0
  BY <1>1 DEF IInv, TicketsInv, TicketRow
<1>3. /\ tickets' = tickets \ {t}
      /\ UNCHANGED <<user, cfg, backup, states, resets, work, given>>
      /\ \/ sessions' = sessions \cup {t.session} /\ Used("ticket", t.id)
         \/ UNCHANGED <<sessions, spent>>
  BY DEF ConsumeTicket, AfterUse
<1>4. /\ spent' \in [flow : [1..MaxFlows -> Nat], ticket : [1..MaxFlows -> Nat],
                     reset : [1..MaxActs -> Nat]]
      /\ spent'.flow = spent.flow /\ spent'.reset = spent.reset
      /\ spent'.ticket[t.id] \in {0, 1}
      /\ \A i \in 1..MaxFlows : i # t.id => spent'.ticket[i] = spent.ticket[i]
  <2>1. CASE Used("ticket", t.id)
    BY <1>1, <1>2, <2>1, Using
  <2>2. CASE UNCHANGED spent
    BY <1>1, <1>2, <2>2 DEF TypeOK
  <2> QED
    BY <1>3, <2>1, <2>2
<1>5. TypeOK'
  BY <1>1, <1>2, <1>3, <1>4 DEF TypeOK
<1>6. AllSessions' \subseteq AllSessions /\ AllFlows' \subseteq AllFlows
  BY <1>3 DEF AllSessions, AllFlows
<1>7. SessionInv'
  BY <1>1, <1>3, <1>6 DEF SessionInv, Sound
<1>8. EpochInv'
  BY <1>3, <1>6 DEF IInv, EpochInv
<1>9. WayInv' /\ HeldInv' /\ ResetsInv' /\ StatesInv'
  BY <1>3, <1>4 DEF IInv, WayInv, Way, OidcAvailable, HeldInv, ResetsInv, StatesInv
<1>10. OnceInv'
  BY <1>2, <1>3, <1>4 DEF IInv, OnceInv
<1>11. UsedOnce'
  <2>1. \A i \in 1..MaxFlows : spent'.flow[i] <= 1
    BY <1>1, <1>4 DEF IInv, UsedOnce, TypeOK
  <2>2. \A i \in 1..MaxFlows : spent'.ticket[i] <= 1
    <3>1. \A i \in 1..MaxFlows : spent.ticket[i] <= 1
      BY <1>1 DEF IInv, UsedOnce, TypeOK
    <3> QED
      BY <1>4, <3>1
  <2>3. \A i \in 1..MaxActs : spent'.reset[i] <= 1
    BY <1>1, <1>4 DEF IInv, UsedOnce, TypeOK
  <2> QED
    BY <1>4, <2>1, <2>2, <2>3 DEF UsedOnce
<1>12. TicketsInv'
  <2>1. \A x \in tickets' : x \in tickets /\ x.id # t.id /\ x.id \in 1..MaxFlows
    BY <1>1, <1>3 DEF IInv, TicketsInv, TypeOK, TicketRow
  <2>2. \A v \in Workers : work[v].pc \in InFlow => work[v].id # t.id /\ work[v].id \in 1..MaxFlows
    BY <1>1 DEF IInv, TicketsInv, HeldInv
  <2> QED
    BY <1>3, <1>4, <2>1, <2>2 DEF IInv, TicketsInv
<1> QED
  BY <1>5, <1>7, <1>8, <1>9, <1>10, <1>11, <1>12 DEF IInv

-----------------------------------------------------------------------------
\* The theorems

LEMMA InitInv == Init => IInv
<1> SUFFICES ASSUME Init
             PROVE  IInv
  OBVIOUS
<1>1. /\ 0 \in 0..MaxFlows /\ 0 \in 0..MaxActs /\ 0 \in Nat /\ 1 \in Nat
  BY Bounds
<1>2. user \in AccountRow
  <2>1. \A sub \in Subjects : [Absent EXCEPT !.status = "active", !.subject = sub] \in AccountRow
    BY <1>1 DEF Absent, AccountRow, Statuses
  <2>2. /\ Absent \in AccountRow
        /\ [Absent EXCEPT !.status = "active", !.pw = 1] \in AccountRow
        /\ [Absent EXCEPT !.status = "pending", !.pw = 1] \in AccountRow
    BY <1>1 DEF Absent, AccountRow, Statuses
  <2> QED
    BY <2>1, <2>2 DEF Init
<1>3. cfg \in Configuration /\ cfg.configured = TRUE /\ cfg.local = TRUE /\ cfg.epoch = 0
  <2>1. PICK on \in BOOLEAN :
          cfg = [configured |-> TRUE, local |-> TRUE, on |-> on,
                 params |-> IF on THEN "usable" ELSE "none", raw |-> IF on THEN 1 ELSE 0,
                 epoch |-> 0, rule |-> "off"]
    BY DEF Init
  <2> QED
    BY <1>1, <2>1 DEF Configuration, Rules
<1>4. given \in Counters /\ given.resets = 0 /\ given.acts = 0 /\ given.stops = 0
  BY <1>1 DEF Init, Counters
<1>5. /\ spent \in [flow : [1..MaxFlows -> Nat], ticket : [1..MaxFlows -> Nat],
                    reset : [1..MaxActs -> Nat]]
      /\ \A i \in 1..MaxFlows : spent.flow[i] = 0 /\ spent.ticket[i] = 0
      /\ \A i \in 1..MaxActs : spent.reset[i] = 0
      /\ DOMAIN spent = {"flow", "ticket", "reset"}
      /\ DOMAIN spent.flow = 1..MaxFlows /\ DOMAIN spent.ticket = 1..MaxFlows
      /\ DOMAIN spent.reset = 1..MaxActs
  BY <1>1 DEF Init
<1>6. work \in [Workers -> Holding] /\ \A w \in Workers : work[w].pc = "idle"
  BY IdleHolding DEF Init
<1>7. /\ backup = <<>> /\ states = {} /\ tickets = {} /\ resets = {} /\ sessions = {}
  BY DEF Init
<1>8. TypeOK
  BY <1>2, <1>3, <1>4, <1>5, <1>6, <1>7 DEF TypeOK
<1>9. AllSessions = {} /\ AllFlows = {}
  BY <1>6, <1>7 DEF AllSessions, AllFlows, WithSession, InFlow
<1>10. WayInv /\ HeldInv /\ SessionInv /\ EpochInv
  BY <1>3, <1>4, <1>6, <1>9 DEF WayInv, Way, HeldInv, SessionInv, EpochInv, InFlow, WithSession
<1>11. OnceInv /\ StatesInv /\ TicketsInv /\ ResetsInv /\ UsedOnce
  <2>1. 0 <= 0 /\ 0 <= 1
    OBVIOUS
  <2>2. OnceInv
    BY <1>4, <1>5, <2>1 DEF OnceInv
  <2>3. StatesInv /\ TicketsInv /\ ResetsInv
    BY <1>6, <1>7 DEF StatesInv, TicketsInv, ResetsInv, InFlow
  <2>4. UsedOnce
    <3> SUFFICES ASSUME NEW kind \in {"flow", "ticket", "reset"}, NEW i \in DOMAIN spent[kind]
                 PROVE  spent[kind][i] = 0
      BY <1>5, <2>1 DEF UsedOnce
    <3>1. CASE kind = "flow"
      BY <1>5, <3>1
    <3>2. CASE kind = "ticket"
      BY <1>5, <3>2
    <3>3. CASE kind = "reset"
      BY <1>5, <3>3
    <3> QED
      BY <3>1, <3>2, <3>3
  <2> QED
    BY <2>2, <2>3, <2>4
<1> QED
  BY <1>8, <1>10, <1>11 DEF IInv

\* The steps, by what they touch.
LEMMA StepsKeep == IInv /\ Next => IInv'
<1> SUFFICES ASSUME IInv, Next
             PROVE  IInv'
  OBVIOUS
<1>1. CASE Passwords
  <2>1. CASE \E w \in Workers : Login(w) \/ Issue(w)
    BY <2>1, LoginKeeps, IssueKeeps
  <2>2. CASE AccountStep \/ ResetStep
    BY <2>2, AccountKeeps, ResetKeeps
  <2> QED
    BY <1>1, <2>1, <2>2 DEF Passwords, AccountStep, ResetStep
<1>2. CASE Settings
  BY <1>2, ConfigKeeps DEF Settings, ConfigStep
<1>3. CASE Flow
  <2>1. CASE \E intent \in {"login", "bind"} : StartFlow(intent)
    BY <2>1, StartKeeps
  <2>2. CASE \E t \in tickets : ConsumeTicket(t)
    BY <2>2, RedeemKeeps
  <2>3. ASSUME NEW w \in Workers,
               \/ \E st \in states : ConsumeState(w, st)
               \/ Exchange(w) \/ FindSubject(w) \/ FindMail(w) \/ FindNobody(w)
               \/ FlowIsOver(w) \/ RefreshUsername(w) \/ Merge(w) \/ Claim(w) \/ Bind(w)
               \/ CreateFromOidc(w) \/ CreateElsewhere(w) \/ IssueTicket(w)
        PROVE  IInv'
    BY <2>3, ConsumeKeeps, ExchangeKeeps, FindKeeps, FindNobodyKeeps, WritesKeep, CreateKeeps,
       IssueTicketKeeps
  <2> QED
    BY <1>3, <2>1, <2>2, <2>3 DEF Flow
<1> QED
  BY <1>1, <1>2, <1>3 DEF Next

LEMMA NextInv == IInv /\ [Next]_vars => IInv'
<1>1. ASSUME IInv, UNCHANGED vars
      PROVE  IInv'
  <2>1. UNCHANGED <<user, cfg, backup, states, tickets, resets, sessions, work, given, spent>>
    BY <1>1 DEF vars
  <2>2. AllSessions' = AllSessions /\ AllFlows' = AllFlows
    BY <2>1 DEF AllSessions, AllFlows
  <2>3. TypeOK' /\ WayInv' /\ HeldInv' /\ UsedOnce'
    BY <1>1, <2>1 DEF IInv, TypeOK, WayInv, OidcAvailable, HeldInv, UsedOnce
  <2>4. SessionInv' /\ EpochInv'
    BY <1>1, <2>1, <2>2 DEF IInv, SessionInv, Sound, EpochInv
  <2>5. OnceInv' /\ StatesInv' /\ TicketsInv' /\ ResetsInv'
    BY <1>1, <2>1 DEF IInv, OnceInv, StatesInv, TicketsInv, ResetsInv
  <2> QED
    BY <2>3, <2>4, <2>5 DEF IInv
<1> QED
  BY <1>1, StepsKeep

\* The inductive invariant holds in every reachable state: what is said of every session,
\* every flow, every number of a flow or a link.
THEOREM Invariance == Spec => []IInv
BY InitInv, NextInv, PTL DEF Spec

\* Every variable keeps its type.
THEOREM Typed == Spec => []TypeOK
<1>1. IInv => TypeOK
  BY DEF IInv
<1> QED
  BY <1>1, Invariance, PTL

\* Whatever administrators save, switch off or import: password login is allowed, or single
\* sign-on is usable (config/admin.go), as long as no file was imported that does not say that
\* the system is configured (config/export.go).
THEOREM AlwaysAWayIn == Spec => []WayIn
<1>1. IInv => WayIn
  BY DEF IInv, WayInv, Way, WayIn
<1> QED
  BY <1>1, Invariance, PTL

\* No session is valid after the password changed or the account was disabled, also none
\* whose login or ticket was under way then; and no flow, ticket or reset link is good twice
\* (user, auth/reset.go, oidc/ticket.go).
THEOREM EndsWithItsCause == Spec => []NothingOutlives
<1>1. IInv => OldSessionsDie
  BY DEF IInv, SessionInv, AllSessions, Sound, OldSessionsDie, Valid
<1>2. IInv => NothingOutlives
  BY <1>1 DEF IInv, NothingOutlives
<1> QED
  BY <1>2, Invariance, PTL

\* A flow that is current was begun since the last stop.
LEMMA CurrentIsRecent ==
  ASSUME IInv, given.restored = 0, NEW hash, NEW born, <<hash, born>> \in AllFlows, Current(hash)
  PROVE  born = given.stops
<1>1. PICK f : f = <<hash, born>>
  OBVIOUS
<1>2. f[1][1] = f[2] /\ cfg.epoch = given.stops
  BY <1>1 DEF IInv, EpochInv
<1>3. f[1] = hash /\ f[2] = born /\ hash = <<cfg.epoch, cfg.raw>>
  BY <1>1 DEF Current, FlowHash
<1>4. hash[1] = cfg.epoch
  BY <1>3
<1> QED
  BY <1>2, <1>3, <1>4

\* A flow that changes the account, or whose ticket yields a session, is current in that step.
LEMMA EffectiveIsCurrent ==
  ASSUME IInv, Next, NEW born \in Effective
  PROVE  \E hash : <<hash, born>> \in AllFlows /\ Current(hash)
<1>1. CASE \E v \in Workers : Binds(v) /\ born = work[v].born
  <2>1. PICK v \in Workers : Binds(v) /\ born = work[v].born
    BY <1>1
  <2>2. /\ work[v].pc \in {"merge", "claim", "bind", "create"} /\ work'[v] # work[v] /\ user' # user
        /\ work[v].pc \in InFlow
    BY <2>1 DEF Binds, InFlow, Steps
  <2>3. <<work[v].hash, born>> \in AllFlows
    BY <2>1, <2>2 DEF AllFlows
  <2>4. work' # work /\ user' # user
    BY <2>2
  <2>5. ~Passwords
    BY <2>4 DEF Passwords, Login, Issue, UpdatePassword, UpdateEmail, ResetPasswordDirect,
       CreateResetToken, DropResetToken, Complete, Disable, Enable, ClearOidcBinding
  <2>6. ~Settings
    BY <2>4 DEF Settings, SaveOidc, SaveOidcAgain, DisableOidc, ClearOidc, StopOidc, SaveLocalAuth,
       Export, Import, SaveOidcRules, CompleteQuickStart, CompleteOidcSetup
  <2>7. \E w \in Workers : Merge(w) \/ Claim(w) \/ Bind(w) \/ CreateFromOidc(w)
    <3>1. Flow
      BY <2>5, <2>6 DEF Next
    <3> QED
      BY <2>4, <3>1 DEF Flow, StartFlow, ConsumeState, Exchange, FindSubject, FindMail, FindNobody,
         FlowIsOver, RefreshUsername, CreateElsewhere, IssueTicket, ConsumeTicket
  <2>8. PICK w \in Workers : Merge(w) \/ Claim(w) \/ Bind(w) \/ CreateFromOidc(w)
    BY <2>7
  <2>9. /\ Current(work[w].hash)
        /\ \A u \in Workers : u # w => work'[u] = work[u]
    BY <2>8 DEF Merge, Claim, Bind, CreateFromOidc, Writes, Goto, Ends, IInv, TypeOK
  <2>10. v = w
    BY <2>2, <2>9
  <2> QED
    BY <2>3, <2>9, <2>10
<1>2. CASE \E t \in tickets : t \notin tickets' /\ sessions' # sessions /\ born = t.born
  <2>1. PICK t \in tickets : t \notin tickets' /\ sessions' # sessions /\ born = t.born
    BY <1>2
  <2>2. <<t.hash, born>> \in AllFlows
    BY <2>1 DEF AllFlows
  <2>3. tickets' # tickets /\ sessions' # sessions
    BY <2>1
  <2>4. ~Passwords
    BY <2>3 DEF Passwords, Login, Issue, UpdatePassword, UpdateEmail, ResetPasswordDirect,
       CreateResetToken, DropResetToken, Complete, Disable, Enable, ClearOidcBinding, rows
  <2>5. ~Settings
    BY <2>3 DEF Settings, SaveOidc, SaveOidcAgain, DisableOidc, ClearOidc, StopOidc, SaveLocalAuth,
       Export, Import, SaveOidcRules, CompleteQuickStart, CompleteOidcSetup
  <2>6. Flow
    BY <2>4, <2>5 DEF Next
  <2>7. \E x \in tickets : ConsumeTicket(x)
    BY <2>3, <2>6 DEF Flow, StartFlow, ConsumeState, Exchange, FindSubject, FindMail, FindNobody,
       FlowIsOver, RefreshUsername, Merge, Claim, Bind, CreateFromOidc, CreateElsewhere, IssueTicket
  <2>8. PICK x \in tickets : ConsumeTicket(x)
    BY <2>7
  <2>9. x = t /\ Current(x.hash)
    BY <2>1, <2>8 DEF ConsumeTicket, AfterUse
  <2> QED
    BY <2>2, <2>9
<1> QED
  BY <1>1, <1>2 DEF Effective

\* A flow begun before single sign-on was last switched off binds nobody and yields no session,
\* unless an import has brought back an old epoch (oidc/resolve.go).
THEOREM OldFlowsEnd == Spec => StoppedFlowsEnd
<1>1. IInv /\ [Next]_vars => [given.restored > 0 \/ Effective \subseteq {given.stops}]_vars
  <2> SUFFICES ASSUME IInv, Next, ~(given.restored > 0)
               PROVE  Effective \subseteq {given.stops}
    OBVIOUS
  <2>1. given.restored = 0
    BY DEF IInv, TypeOK, Counters
  <2> QED
    BY <2>1, EffectiveIsCurrent, CurrentIsRecent
<1> QED
  BY <1>1, Invariance, PTL DEF Spec, StoppedFlowsEnd

=============================================================================
