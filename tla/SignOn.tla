------------------------------- MODULE SignOn -------------------------------
(***************************************************************************)
(* Signing in: password login, single sign-on (internal/oidc), the reset   *)
(* links, and the settings that decide which ways in there are             *)
(* (internal/config admin.go, export.go).  One account is modelled; the    *)
(* identities that may meet it are chosen by the provider.                 *)
(*                                                                         *)
(* A login is not one transaction: the password check and the signing of   *)
(* the session are apart, and between the callback of a flow and its       *)
(* ticket lie a request to the provider and four transactions, each of     *)
(* which checks again that the flow is still the current one.  A session   *)
(* is a signed text that carries the credential version; the database does *)
(* not know it.  The mock provider of development mode is left out.        *)
(***************************************************************************)
EXTENDS Naturals, FiniteSets

CONSTANTS
  Workers,    \* bound: requests at work at a time
  Subjects,   \* identities of the provider, positive numbers
  MaxActs,    \* bound: what users and administrators do, flows and logins apart
  MaxFlows    \* bound: flows begun

ASSUME SignOnAssumption ==
  /\ {MaxActs, MaxFlows} \subseteq Nat
  /\ Subjects \subseteq Nat \ {0}

VARIABLES
  user,      \* the account: [status, pw, cv, subject]; pw and subject 0 for NULL
  cfg,       \* settings: [configured, local, on, params, raw, epoch, rule]
  backup,    \* an exported configuration, or none yet
  states,    \* oidc_states: [id, intent, hash, born]
  tickets,   \* oidc_login_tickets: [id, hash, session]
  resets,    \* unused reset links
  sessions,  \* sessions in users' hands: [cv, pw, off]
  work,      \* worker -> what it holds
  given,     \* counters: acts, passwords, parameters, flows and links so far; how often
             \* sign-on was stopped, the account switched off, a file imported, and how many
             \* of these were bare: the file did not say that the system is configured
  spent      \* history: how often a flow was answered, a ticket redeemed, a link used

vars == <<user, cfg, backup, states, tickets, resets, sessions, work, given, spent>>
rows == <<states, tickets, resets>>

Idle == [pc |-> "idle", id |-> 0, intent |-> "login", hash |-> <<>>, born |-> 0,
         sub |-> 0, match |-> FALSE, verified |-> FALSE, plan |-> FALSE, rule |-> "off",
         session |-> <<>>]
Ends(w) == work' = [work EXCEPT ![w] = Idle]
Goto(w, pc) == work' = [work EXCEPT ![w].pc = pc]

\* What a session says: its credential version; and what it was made from.
Session(pw) == <<user.cv, pw, given.off>>
Valid(s) == user.status = "active" /\ s[1] = user.cv

\* The fingerprint of the flow's surroundings: epoch and stored parameters.
FlowHash == <<cfg.epoch, cfg.raw>>
\* assertFlowCurrentTx
Current(hash) == cfg.on /\ cfg.params # "none" /\ hash = FlowHash

OidcAvailable(c) == c.on /\ c.params = "usable"

\* One act more; the counters named go up.
Act(counters) ==
  /\ given.acts < MaxActs
  /\ given' = [f \in DOMAIN given |-> IF f \in counters \cup {"acts"} THEN given[f] + 1 ELSE given[f]]

-----------------------------------------------------------------------------
\* Passwords and sessions

Login(w) ==
  /\ work[w].pc = "idle"
  /\ cfg.local /\ user.status = "active" /\ user.pw # 0
  /\ work' = [work EXCEPT ![w] = [Idle EXCEPT !.pc = "sign", !.session = Session(user.pw)]]
  /\ UNCHANGED <<user, cfg, backup, rows, sessions, given, spent>>

\* Issue signs whatever Login found.
Issue(w) ==
  /\ work[w].pc = "sign"
  /\ sessions' = sessions \cup {work[w].session}
  /\ Ends(w)
  /\ UNCHANGED <<user, cfg, backup, rows, given, spent>>

\* (mutant: sessions outlive the password)
SetPassword_KeepVersion ==
  /\ Act({"pw"})
  /\ user' = [user EXCEPT !.pw = given.pw + 1]

SetPassword ==
  /\ Act({"pw"})
  /\ user' = [user EXCEPT !.pw = given.pw + 1, !.cv = @ + 1]

\* The user herself, in a session; the old password is compared in the transaction.
UpdatePassword ==
  /\ \E s \in sessions : Valid(s)
  /\ SetPassword
  /\ UNCHANGED <<cfg, backup, rows, sessions, work, spent>>

\* A new address ends the sessions as well.
UpdateEmail ==
  /\ \E s \in sessions : Valid(s)
  /\ Act({})
  /\ user' = [user EXCEPT !.cv = @ + 1]
  /\ UNCHANGED <<cfg, backup, rows, sessions, work, spent>>

ResetPasswordDirect ==
  /\ user.status \in {"active", "disabled"}
  /\ SetPassword
  /\ UNCHANGED <<cfg, backup, rows, sessions, work, spent>>

\* On the user's request, if she has a password, or an administrator's.
CreateResetToken ==
  /\ user.status \in {"active", "disabled"} \/ (user.status = "pending" /\ user.pw # 0)
  /\ Act({"resets"})
  /\ resets' = resets \cup {given.resets + 1}
  /\ UNCHANGED <<user, cfg, backup, states, tickets, sessions, work, spent>>

\* The mail could not be queued, or the link expired unused.
DropResetToken(t) ==
  /\ t \in resets /\ resets' = resets \ {t}
  /\ UNCHANGED <<user, cfg, backup, states, tickets, sessions, work, given, spent>>

Used(kind, id) == spent' = [spent EXCEPT ![kind][id] = @ + 1]

\* Marked as used and password changed, together.
Complete(t) ==
  /\ t \in resets /\ user.status \in {"pending", "active", "disabled"}
  /\ resets' = resets \ {t}
  /\ SetPassword
  /\ Used("reset", t)
  /\ UNCHANGED <<cfg, backup, states, tickets, sessions, work>>

Disable ==
  /\ user.status \in {"pending", "active", "disabled"}
  /\ user' = [user EXCEPT !.status = "disabled", !.cv = @ + 1]
  /\ Act({"off"})
  /\ UNCHANGED <<cfg, backup, rows, sessions, work, spent>>

\* Approve, or SetStatus on an account of any status.
Enable ==
  /\ Act({})
  /\ user.status \in {"pending", "disabled"}
  /\ user' = [user EXCEPT !.status = "active"]
  /\ UNCHANGED <<cfg, backup, rows, sessions, work, spent>>

ClearOidcBinding ==
  /\ Act({})
  /\ user.subject # 0
  /\ user' = [user EXCEPT !.subject = 0]
  /\ UNCHANGED <<cfg, backup, rows, sessions, work, spent>>

-----------------------------------------------------------------------------
\* Settings

OidcOnly(params) == params = "usable"

\* New parameters, with a new secret; without local login they must do.
SaveOidc(params) ==
  /\ cfg.local \/ OidcOnly(params)
  /\ Act({"saves"})
  /\ cfg' = [cfg EXCEPT !.on = TRUE, !.params = params, !.raw = given.saves + 1]
  /\ UNCHANGED <<user, backup, rows, sessions, work, spent>>

\* Saved again unchanged with the secret kept: what was switched off is on again.
SaveOidcAgain ==
  /\ Act({})
  /\ cfg.params = "usable" /\ ~cfg.on
  /\ cfg' = [cfg EXCEPT !.on = TRUE]
  /\ UNCHANGED <<user, backup, rows, sessions, work, spent>>

\* (mutant: nothing tells the flows before from the flows after)
NewEpoch_Same == cfg.epoch
NewEpoch == given.stops + 1

\* (mutant: the other way in is not looked at)
MayStop_Always == TRUE
MayStop == cfg.local

\* DisableOidc keeps the parameters, ClearOidc does not.
StopOidc(params) ==
  /\ MayStop
  /\ Act({"stops"})
  /\ cfg' = [cfg EXCEPT !.on = FALSE, !.epoch = NewEpoch, !.params = params,
                        !.raw = IF params = "none" THEN 0 ELSE @]
  /\ states' = {} /\ tickets' = {}
  /\ UNCHANGED <<user, backup, resets, sessions, work, spent>>

DisableOidc == StopOidc(cfg.params)
ClearOidc == cfg.params # "none" /\ StopOidc("none")

SaveLocalAuth ==
  /\ Act({})
  /\ cfg.local => OidcAvailable(cfg)
  /\ cfg' = [cfg EXCEPT !.local = ~@]
  /\ UNCHANGED <<user, backup, rows, sessions, work, spent>>

\* Approval of new accounts, or the whitelist of those who need none: a request stores both
\* one after the other, which is as if it were two.
SaveOidcRules(rule) ==
  /\ Act({})
  /\ rule # cfg.rule
  /\ cfg' = [cfg EXCEPT !.rule = rule]
  /\ UNCHANGED <<user, backup, rows, sessions, work, spent>>

Export ==
  /\ Act({})
  /\ backup = <<>>
  /\ backup' = <<cfg>>
  /\ UNCHANGED <<user, cfg, rows, sessions, work, spent>>

\* Nothing is asked of a file that does not say that the system is configured.
ImportedAuthUsable(c) == c.configured => c.local \/ OidcAvailable(c)

\* Files of other installations, without password login.
Foreign ==
  {[configured |-> configured, local |-> FALSE, on |-> on, params |-> IF on THEN "usable" ELSE "none",
    raw |-> MaxActs + 2, epoch |-> 0, rule |-> "off"] : configured \in BOOLEAN, on \in BOOLEAN}

\* The whole table is replaced, epoch included; states and tickets stay.
Import(c) ==
  /\ ImportedAuthUsable(c)
  /\ cfg' = c
  /\ Act(IF c.configured THEN {"restored"} ELSE {"restored", "bare"})
  /\ UNCHANGED <<user, backup, rows, sessions, work, spent>>

\* After a bare import the setup is open again, to anyone; it fails as long as there is a
\* group of the default group's name.  It does not look at password login.
CompleteQuickStart ==
  /\ ~cfg.configured
  /\ Act({})
  /\ cfg' = [cfg EXCEPT !.configured = TRUE]
  /\ UNCHANGED <<user, backup, rows, sessions, work, spent>>

CompleteOidcSetup(params) ==
  /\ ~cfg.configured
  /\ Act({"saves"})
  /\ cfg' = [cfg EXCEPT !.configured = TRUE, !.on = TRUE, !.params = params,
                        !.raw = given.saves + 1]
  /\ UNCHANGED <<user, backup, rows, sessions, work, spent>>

-----------------------------------------------------------------------------
\* A flow, from the redirect to the ticket

\* StartFlow and saveState, for which a client without secret will do; binding is asked for
\* in a session.
StartFlow(intent) ==
  /\ cfg.on /\ cfg.params # "none" /\ given.flows < MaxFlows
  /\ intent = "bind" => \E s \in sessions : Valid(s)
  /\ given' = [given EXCEPT !.flows = @ + 1]
  /\ states' = states \cup {[id |-> given.flows + 1, intent |-> intent, hash |-> FlowHash,
                             born |-> given.stops]}
  /\ UNCHANGED <<user, cfg, backup, tickets, resets, sessions, work, spent>>

AfterUse(set, x) == set \ {x}

ConsumeState(w, st) ==
  /\ work[w].pc = "idle" /\ cfg.on /\ st \in states
  /\ states' = AfterUse(states, st)
  /\ work' = [work EXCEPT ![w] = [Idle EXCEPT !.pc = "exchange", !.id = st.id, !.hash = st.hash,
                                              !.intent = st.intent, !.born = st.born]]
  /\ Used("flow", st.id)
  /\ UNCHANGED <<user, cfg, backup, tickets, resets, sessions, given>>

\* The parameters are compared, then the provider is asked: it names anyone it likes.
Exchange(w) ==
  /\ work[w].pc = "exchange"
  /\ IF Current(work[w].hash)
     THEN \E sub \in Subjects, match, verified \in BOOLEAN :
            work' = [work EXCEPT ![w] = [@ EXCEPT !.sub = sub, !.match = match,
                       !.verified = verified,
                       !.pc = IF work[w].intent = "bind" THEN "bind" ELSE "subject"]]
     ELSE Ends(w)
  /\ UNCHANGED <<user, cfg, backup, rows, sessions, given, spent>>

There == user.status \in {"pending", "active", "disabled"}

\* Known by subject, or else by address: two reads outside a transaction.
FindSubject(w) ==
  /\ work[w].pc = "subject"
  /\ IF There /\ user.subject = work[w].sub
     THEN IF user.status = "active"
          THEN work' = [work EXCEPT ![w] = [@ EXCEPT !.pc = "refresh", !.session = Session(0)]]
          ELSE Ends(w)
     ELSE Goto(w, "mail")
  /\ UNCHANGED <<user, cfg, backup, rows, sessions, given, spent>>

\* A disabled account, one bound already or an unverified address ends it.
FindMail(w) ==
  /\ work[w].pc = "mail" /\ There /\ work[w].match
  /\ IF user.status = "disabled" \/ user.subject # 0 \/ ~work[w].verified
     THEN Ends(w)
     ELSE work' = [work EXCEPT ![w] = [@ EXCEPT !.session = Session(0),
                     !.pc = IF user.status = "pending" THEN "claim" ELSE "merge"]]
  /\ UNCHANGED <<user, cfg, backup, rows, sessions, given, spent>>

\* Nobody is known.  Whether the account to be made must wait: approval is on and the
\* stored whitelist names none of the claims, an empty one never does.
FindNobody(w) ==
  /\ work[w].pc = "mail" /\ ~(There /\ work[w].match)
  /\ \E hit \in BOOLEAN :
       /\ hit => cfg.rule # "empty"
       /\ work' = [work EXCEPT ![w] = [@ EXCEPT !.pc = "create", !.rule = cfg.rule,
                     !.plan = cfg.rule # "off" /\ ~hit]]
  /\ UNCHANGED <<user, cfg, backup, rows, sessions, given, spent>>

\* The steps that write: each under the guard of the flow, or not at all.
Writes(w, pc) == work[w].pc = pc /\ Current(work[w].hash)

FlowIsOver(w) ==
  /\ work[w].pc \in {"refresh", "merge", "claim", "create", "bind", "ticket"}
  /\ ~Current(work[w].hash)
  /\ Ends(w)
  /\ UNCHANGED <<user, cfg, backup, rows, sessions, given, spent>>

RefreshUsername(w) ==
  /\ Writes(w, "refresh")
  /\ Goto(w, "ticket")
  /\ UNCHANGED <<user, cfg, backup, rows, sessions, given, spent>>

\* BindSubjectIfNull
BindIfNull(w) ==
  user' = IF There /\ user.subject = 0 THEN [user EXCEPT !.subject = work[w].sub] ELSE user

Merge(w) ==
  /\ Writes(w, "merge")
  /\ BindIfNull(w)
  /\ IF There /\ user.subject = 0 THEN Goto(w, "ticket") ELSE Ends(w)
  /\ UNCHANGED <<cfg, backup, rows, sessions, given, spent>>

\* BindSubject: a pending account takes the subject, whichever it had.
Claim(w) ==
  /\ Writes(w, "claim")
  /\ user' = IF There THEN [user EXCEPT !.subject = work[w].sub] ELSE user
  /\ Ends(w)
  /\ UNCHANGED <<cfg, backup, rows, sessions, given, spent>>

Bind(w) ==
  /\ Writes(w, "bind")
  /\ BindIfNull(w)
  /\ Ends(w)
  /\ UNCHANGED <<cfg, backup, rows, sessions, given, spent>>

\* (mutant: the source of the account in the place of its status)
NewStatus_Source(w) == "oidc"
NewStatus(w) == IF work[w].plan THEN "pending" ELSE "active"

\* The account of this model is made, if it is not there; or one that is none of ours.
CreateFromOidc(w) ==
  /\ Writes(w, "create")
  /\ user.status = "absent"
  /\ user' = [status |-> NewStatus(w), pw |-> 0, cv |-> 0,
              subject |-> work[w].sub]
  /\ IF work[w].plan THEN Ends(w)
     ELSE work' = [work EXCEPT ![w] = [@ EXCEPT !.pc = "ticket", !.session = <<0, 0, given.off>>]]
  /\ UNCHANGED <<cfg, backup, rows, sessions, given, spent>>

CreateElsewhere(w) ==
  /\ Writes(w, "create")
  /\ user.status # "absent"
  /\ Ends(w)
  /\ UNCHANGED <<user, cfg, backup, rows, sessions, given, spent>>

\* Session and ticket in one transaction.
IssueTicket(w) ==
  /\ Writes(w, "ticket")
  /\ tickets' = tickets \cup {[id |-> work[w].id, hash |-> work[w].hash, born |-> work[w].born,
                               session |-> work[w].session]}
  /\ Ends(w)
  /\ UNCHANGED <<user, cfg, backup, states, resets, sessions, given, spent>>

\* Redeemed once; a ticket of a flow that is over goes as well.
ConsumeTicket(t) ==
  /\ t \in tickets
  /\ tickets' = AfterUse(tickets, t)
  /\ IF Current(t.hash)
     THEN sessions' = sessions \cup {t.session} /\ Used("ticket", t.id)
     ELSE UNCHANGED <<sessions, spent>>
  /\ UNCHANGED <<user, cfg, backup, states, resets, work, given>>

-----------------------------------------------------------------------------
Absent == [status |-> "absent", pw |-> 0, cv |-> 0, subject |-> 0]

\* After the setup, quick or with single sign-on; the account is there or not, and was made
\* with a password or by signing on.
Init ==
  /\ user \in {Absent, [Absent EXCEPT !.status = "active", !.pw = 1],
               [Absent EXCEPT !.status = "pending", !.pw = 1]}
             \cup {[Absent EXCEPT !.status = "active", !.subject = sub] : sub \in Subjects}
  /\ \E on \in BOOLEAN :
       cfg = [configured |-> TRUE, local |-> TRUE, on |-> on,
              params |-> IF on THEN "usable" ELSE "none", raw |-> IF on THEN 1 ELSE 0,
              epoch |-> 0, rule |-> "off"]
  /\ backup = <<>>
  /\ states = {} /\ tickets = {} /\ resets = {} /\ sessions = {}
  /\ work = [w \in Workers |-> Idle]
  /\ given = [pw |-> 1, saves |-> 1, stops |-> 0, flows |-> 0, resets |-> 0, off |-> 0,
              restored |-> 0, bare |-> 0, acts |-> 0]
  /\ spent = [flow |-> [i \in 1..MaxFlows |-> 0], ticket |-> [i \in 1..MaxFlows |-> 0],
              reset |-> [i \in 1..MaxActs |-> 0]]

Passwords ==
  \/ \E w \in Workers : Login(w) \/ Issue(w)
  \/ UpdatePassword \/ UpdateEmail \/ ResetPasswordDirect \/ CreateResetToken
  \/ \E t \in resets : DropResetToken(t) \/ Complete(t)
  \/ Disable \/ Enable \/ ClearOidcBinding

Settings ==
  \/ \E params \in {"partial", "usable"} : SaveOidc(params)
  \/ SaveOidcAgain \/ DisableOidc \/ ClearOidc \/ SaveLocalAuth \/ Export
  \/ \E c \in Foreign \cup {backup[i] : i \in DOMAIN backup} : Import(c)
  \/ \E rule \in {"off", "empty", "values"} : SaveOidcRules(rule)
  \/ CompleteQuickStart \/ \E params \in {"partial", "usable"} : CompleteOidcSetup(params)

Flow ==
  \/ \E intent \in {"login", "bind"} : StartFlow(intent)
  \/ \E w \in Workers :
       \/ \E st \in states : ConsumeState(w, st)
       \/ Exchange(w) \/ FindSubject(w) \/ FindMail(w) \/ FindNobody(w)
       \/ FlowIsOver(w) \/ RefreshUsername(w) \/ Merge(w) \/ Claim(w) \/ Bind(w)
       \/ CreateFromOidc(w) \/ CreateElsewhere(w) \/ IssueTicket(w)
  \/ \E t \in tickets : ConsumeTicket(t)

Next == Passwords \/ Settings \/ Flow

Spec == Init /\ [][Next]_vars

-----------------------------------------------------------------------------
\* Properties

Statuses == {"absent", "pending", "active", "disabled"}
Rules == {"off", "empty", "values"}
Steps == {"idle", "sign", "exchange", "subject", "mail", "refresh", "merge", "claim", "bind",
          "create", "ticket"}

AccountRow == [status : Statuses, pw : Nat, cv : Nat, subject : Subjects \cup {0}]
Configuration == [configured : BOOLEAN, local : BOOLEAN, on : BOOLEAN,
                  params : {"none", "partial", "usable"}, raw : Nat, epoch : Nat, rule : Rules]
SessionText == Nat \X Nat \X Nat
Fingerprint == Nat \X Nat
StateRow == [id : 1..MaxFlows, intent : {"login", "bind"}, hash : Fingerprint, born : Nat]
TicketRow == [id : 1..MaxFlows, hash : Fingerprint, born : Nat, session : SessionText]
Holding == [pc : Steps, id : 0..MaxFlows, intent : {"login", "bind"},
            hash : Fingerprint \cup {<<>>}, born : Nat, sub : Subjects \cup {0},
            match : BOOLEAN, verified : BOOLEAN, plan : BOOLEAN, rule : Rules,
            session : SessionText \cup {<<>>}]
Counters == [pw : Nat, saves : Nat, stops : Nat, flows : 0..MaxFlows, resets : 0..MaxActs,
             off : Nat, restored : Nat, bare : Nat, acts : 0..MaxActs]

\* The types of the variables.
TypeOK ==
  /\ user \in AccountRow /\ cfg \in Configuration
  /\ \A i \in DOMAIN backup : backup[i] \in Configuration
  /\ \A st \in states : st \in StateRow
  /\ \A t \in tickets : t \in TicketRow
  /\ resets \subseteq 1..MaxActs
  /\ \A s \in sessions : s \in SessionText
  /\ work \in [Workers -> Holding]
  /\ given \in Counters
  /\ spent \in [flow : [1..MaxFlows -> Nat], ticket : [1..MaxFlows -> Nat],
                reset : [1..MaxActs -> Nat]]

\* A valid session was begun with the password in force, and after the account was last
\* disabled: a change of password or a disabling ends every session, also one whose login
\* was under way when it happened (credential_version in user, auth/reset.go, oidc/ticket.go).
OldSessionsDie ==
  \A s \in sessions : Valid(s) => s[2] \in {0, user.pw} /\ s[3] = given.off

\* The state of a flow answers one callback, its ticket is redeemed once, a reset link sets
\* one password (ConsumeState, ConsumeLoginTicket, Complete).
UsedOnce == \A kind \in DOMAIN spent : \A i \in DOMAIN spent[kind] : spent[kind][i] <= 1

\* There is always a way in: password login is allowed or single sign-on is usable, whatever
\* administrators save, switch off or import, at the same time too (config/admin.go: 防认证死锁),
\* unless a file was imported that does not say that the system is configured: such a file is
\* not checked, and opens the setup again, which is not either (config/export.go).
WayIn == given.bare = 0 => cfg.local \/ OidcAvailable(cfg)

\* The flows whose worker or ticket takes effect in this step.
Binds(w) == work[w].pc \in {"merge", "claim", "bind", "create"} /\ work'[w] # work[w] /\ user' # user
Effective == {work[w].born : w \in {v \in Workers : Binds(v)}}
             \cup {t.born : t \in {x \in tickets : x \notin tickets' /\ sessions' # sessions}}

\* A flow begun before single sign-on was switched off binds nobody and yields no session,
\* even when it is switched on again at once with the same parameters (oidc/resolve.go:
\* "停用后即使快速重新启用，旧 rec 的流程指纹也不再匹配").  An import brings back an old epoch.
StoppedFlowsEnd == [][given.restored > 0 \/ Effective \subseteq {given.stops}]_vars

\* A session, a flow, a ticket and a reset link end with what they were issued for: neither
\* is good for a second time, nor after the password or the status has changed.
NothingOutlives == OldSessionsDie /\ UsedOnce
=============================================================================
