--------------------------------- MODULE Login ---------------------------------
(***************************************************************************)
(* Signing in to one Telegram account, by one phone number (tg/hub.rs, and *)
(* the flow of tg/login.rs): the throttle of the number, the logins in     *)
(* flight, the claim of a finished one, the pruning of abandoned ones,     *)
(* logout, and what a restart restores.                                    *)
(*                                                                         *)
(* Throttles are kept per number and managers per account, so one of each  *)
(* is modelled.  A step is what happens between two awaits; a critical     *)
(* section of the hub's locks, or one query, is one step.                  *)
(***************************************************************************)
EXTENDS Integers, FiniteSets

CONSTANTS
  Handlers,     \* requests in flight at once
  Logins,       \* login ids; each is used once
  None,         \* no login, no handler
  MaxAttempts   \* MAX_LOGIN_ATTEMPTS

ASSUME SetsAssumption == IsFiniteSet(Handlers) /\ IsFiniteSet(Logins)
ASSUME NoneAssumption == None \notin Handlers \union Logins
ASSUME MaxAttemptsAssumption == MaxAttempts \in Nat \ {0}

VARIABLES
  failed,    \* Throttle.failed
  blocked,   \* blocked_until lies ahead
  cooling,   \* last_code_sent is less than the cooldown ago
  login,     \* "none", "sending", "open" (in the logins map), "over"
  flow,      \* Pending.flow: "idle", "code", "password"
  row,       \* the throwaway session row is in the database
  lock,      \* who holds Login.pending
  pruning,   \* logins the pruner took out of the map and has not closed yet
  pc,        \* where each handler is
  at,        \* the login a handler is about
  kind,      \* the secret a handler submits: "code" or "password"
  manager,   \* the account has an entry in the users map
  account,   \* the login whose session is in the account's row, or None
  lingering, \* a manager was closed whose clients a request may still use
  sent,      \* history: codes asked of Telegram since the last cooldown ended
  late,      \* history: requests that had booked their send by then, and not sent
  tested,    \* history: secrets refused since the counter was last forgiven,
             \* to clients that stayed on the line
  filed,     \* history: how often each login's session was filed
  orphaned,  \* history: logins that are over with nobody left to delete their row: the
             \* handler broke off, the delete failed, or a late connection wrote it
  crossed,   \* history: a logout and a claim got in each other's way
  unfiled,   \* history: a claim ended after it had dropped the old manager, or a
             \* restart could not tell what becomes of the account's row
  revived    \* history: a client that was lingering wrote the account's row again

throttle == <<failed, blocked, cooling>>
flows    == <<login, flow, row, lock, pruning>>
requests == <<pc, at, kind>>
accounts == <<manager, account, lingering>>
codes    == <<sent, late>>
broken   == <<orphaned, crossed, unfiled, revived>>
history  == <<codes, tested, filed, broken>>
vars     == <<throttle, flows, requests, accounts, history>>

SendPCs   == {"send", "asked"}
AskPCs    == {"ask", "whoami"}
ClaimPCs  == {"forget", "success", "detach", "read", "file", "clear", "insert"}
LogoutPCs == {"detached"}

Go(h, to) == pc' = [pc EXCEPT ![h] = to] /\ UNCHANGED <<at, kind>>

\* The handler answers; the guard on Login.pending goes with it.
Answer(h) ==
  /\ pc' = [pc EXCEPT ![h] = "idle"]
  /\ at' = [at EXCEPT ![h] = None]
  /\ kind' = [kind EXCEPT ![h] = "code"]
  /\ lock' = [l \in Logins |-> IF lock[l] = h THEN None ELSE lock[l]]

-----------------------------------------------------------------------------
(* The throttle *)

GateAlwaysOpen == TRUE                  \* variant: nobody asks the throttle

\* gate(): what a lapsed block leaves is cleared by Lapse.
GateOpen == ~blocked

\* The block is over.
Lapse ==
  /\ blocked
  /\ blocked' = FALSE
  /\ tested' = 0
  /\ UNCHANGED <<failed, cooling, flows, requests, accounts, codes, filed, broken>>

\* The resend cooldown is over.
CoolDown ==
  /\ cooling
  /\ cooling' = FALSE
  /\ sent' = 0
  /\ late' = Cardinality({h \in Handlers : pc[h] = "send"})
  /\ UNCHANGED <<failed, blocked, flows, requests, accounts, tested, filed, broken>>

\* prune_throttles: the number was left alone for as long as a block lasts.
Forget ==
  /\ ~blocked
  /\ ~cooling
  /\ failed > 0
  /\ failed' = 0
  /\ tested' = 0
  /\ UNCHANGED <<blocked, cooling, flows, requests, accounts, codes, filed, broken>>

-----------------------------------------------------------------------------
(* start_login *)

StartGate(h) ==
  /\ pc[h] = "idle"
  /\ GateOpen
  /\ Go(h, "reserve")
  /\ UNCHANGED <<throttle, flows, accounts, history>>

\* Variant: the cooldown is asked before the lock is taken, and not again under it.
ReserveUnchecked(h) ==
  /\ pc[h] = "reserve"
  /\ cooling' = TRUE
  /\ \E l \in Logins :
       /\ login[l] = "none"
       /\ login' = [login EXCEPT ![l] = "sending"]
       /\ at' = [at EXCEPT ![h] = l]
  /\ pc' = [pc EXCEPT ![h] = "send"]
  /\ UNCHANGED <<failed, blocked, flow, row, lock, pruning, kind, accounts, history>>

\* reserve_code_send books the send before it is attempted.
Reserve(h) ==
  /\ pc[h] = "reserve"
  /\ ~cooling
  /\ cooling' = TRUE
  /\ \E l \in Logins :
       /\ login[l] = "none"
       /\ login' = [login EXCEPT ![l] = "sending"]
       /\ at' = [at EXCEPT ![h] = l]
  /\ pc' = [pc EXCEPT ![h] = "send"]
  /\ UNCHANGED <<failed, blocked, flow, row, lock, pruning, kind, accounts, history>>

ReserveRefused(h) ==
  /\ pc[h] = "reserve"
  /\ cooling
  /\ Answer(h)
  /\ UNCHANGED <<throttle, login, flow, row, pruning, accounts, history>>

\* ensure_connected() writes the throwaway row.
SendConnect(h) ==
  /\ pc[h] = "send"
  /\ ~row[at[h]]
  /\ row' = [row EXCEPT ![at[h]] = TRUE]
  /\ UNCHANGED <<throttle, login, flow, lock, pruning, requests, accounts, history>>

\* auth_send_code(): the request to Telegram, over a client of its own.
AskCode(h) ==
  /\ pc[h] = "send"
  /\ row[at[h]]
  /\ sent' = sent + 1
  /\ Go(h, "asked")
  /\ UNCHANGED <<throttle, flows, accounts, late, tested, filed, broken>>

SendOk(h) ==
  /\ pc[h] = "asked"
  /\ login' = [login EXCEPT ![at[h]] = "open"]
  /\ flow' = [flow EXCEPT ![at[h]] = "code"]
  /\ Answer(h)
  /\ UNCHANGED <<throttle, row, pruning, accounts, history>>

\* The connection or the request fails, and the row is deleted, if that succeeds.
SendFails(h) ==
  /\ pc[h] \in SendPCs
  /\ login' = [login EXCEPT ![at[h]] = "over"]
  /\ \/ row' = [row EXCEPT ![at[h]] = FALSE] /\ UNCHANGED orphaned
     \/ orphaned' = orphaned \union {at[h]} /\ UNCHANGED row
  /\ Answer(h)
  /\ UNCHANGED <<throttle, flow, pruning, accounts, codes, tested, filed, crossed,
                 unfiled, revived>>

-----------------------------------------------------------------------------
(* submit_code, submit_password *)

\* login(): the entry is looked up, and kept alive by the handler from here on.
Submit(h) ==
  /\ pc[h] = "idle"
  /\ \E l \in Logins, k \in {"code", "password"} :
       /\ login[l] = "open"
       /\ at' = [at EXCEPT ![h] = l]
       /\ kind' = [kind EXCEPT ![h] = k]
  /\ pc' = [pc EXCEPT ![h] = "gate"]
  /\ UNCHANGED <<throttle, flows, accounts, history>>

SubmitGate(h) ==
  /\ pc[h] = "gate"
  /\ GateOpen
  /\ Go(h, "lock")
  /\ UNCHANGED <<throttle, flows, accounts, history>>

SubmitRefused(h) ==
  /\ pc[h] = "gate"
  /\ ~GateOpen
  /\ Answer(h)
  /\ UNCHANGED <<throttle, login, flow, row, pruning, accounts, history>>

\* Variant: the flow is read and not taken.
KeepFlow(h) == flow' = flow

\* mem::replace(&mut self.flow, Flow::Idle)
TakeFlow(h) == flow' = [flow EXCEPT ![at[h]] = "idle"]

\* The lock is granted and the step of the flow fits the secret.
Ask(h) ==
  /\ pc[h] = "lock"
  /\ lock[at[h]] = None
  /\ flow[at[h]] = kind[h]
  /\ lock' = [lock EXCEPT ![at[h]] = h]
  /\ TakeFlow(h)
  /\ Go(h, "ask")
  /\ UNCHANGED <<throttle, login, row, pruning, accounts, history>>

\* "no code was requested", "no password step pending": not counted.
Misuse(h) ==
  /\ pc[h] = "lock"
  /\ lock[at[h]] = None
  /\ flow[at[h]] # kind[h]
  /\ Answer(h)
  /\ UNCHANGED <<throttle, login, flow, row, pruning, accounts, history>>

\* Telegram accepts the secret and does not say who signed in: known_user_id() asks
\* over the login's own manager, which connects again, and writes the row again, when
\* the pruner has closed it meanwhile.
AskUser(h) ==
  /\ pc[h] = "ask"
  /\ row' = [row EXCEPT ![at[h]] = TRUE]
  /\ orphaned' = IF login[at[h]] = "over" /\ at[h] \notin pruning
                 THEN orphaned \union {at[h]} ELSE orphaned
  /\ Go(h, "whoami")
  /\ UNCHANGED <<throttle, login, flow, lock, pruning, accounts, codes, tested, filed,
                 crossed, unfiled, revived>>

Accepted(h) ==
  /\ pc[h] \in AskPCs
  /\ Go(h, "forget")
  /\ UNCHANGED <<throttle, flows, accounts, history>>

PasswordRequired(h) ==
  /\ pc[h] = "ask"
  /\ kind[h] = "code"
  /\ flow' = [flow EXCEPT ![at[h]] = "password"]
  /\ Answer(h)
  /\ UNCHANGED <<throttle, login, row, pruning, accounts, history>>

\* A wrong secret keeps the flow.  So does any error of the password step; any
\* other error of the code step loses it, and counts all the same.
Refused(h) ==
  /\ pc[h] = "ask"
  /\ \/ flow' = [flow EXCEPT ![at[h]] = kind[h]]
     \/ kind[h] = "code" /\ UNCHANGED flow
  /\ tested' = tested + 1
  /\ Go(h, "fail")
  /\ UNCHANGED <<throttle, login, row, lock, pruning, accounts, codes, filed, broken>>

\* Sign-up needed, or nobody says who signed in: the flow is spent.
Spent(h) ==
  /\ pc[h] \in AskPCs
  /\ Answer(h)
  /\ UNCHANGED <<throttle, login, flow, row, pruning, accounts, history>>

RecordFailure(h) ==
  /\ pc[h] = "fail"
  /\ IF failed + 1 >= MaxAttempts
     THEN failed' = 0 /\ blocked' = TRUE
     ELSE failed' = failed + 1 /\ UNCHANGED blocked
  /\ Answer(h)
  /\ UNCHANGED <<cooling, login, flow, row, pruning, accounts, history>>

-----------------------------------------------------------------------------
(* claim, under the lock on Login.pending *)

ClaimForget(h) ==
  /\ pc[h] = "forget"
  /\ login' = [login EXCEPT ![at[h]] = "over"]
  /\ Go(h, "success")
  /\ UNCHANGED <<throttle, flow, row, lock, pruning, accounts, history>>

\* record_success: the cooldown survives.
RecordSuccess(h) ==
  /\ pc[h] = "success"
  /\ failed' = 0
  /\ blocked' = FALSE
  /\ tested' = 0
  /\ Go(h, "detach")
  /\ UNCHANGED <<cooling, flows, accounts, codes, filed, broken>>

\* The account's manager leaves the map and is closed; a request that is using one of
\* its clients may go on (tg/mod.rs:98-111).
LetGo ==
  /\ manager' = FALSE
  /\ lingering' = (lingering \/ manager)

\* The previous manager of the account, if there is one.
ClaimDetach(h) ==
  /\ pc[h] = "detach"
  /\ LetGo
  /\ Go(h, "read")
  /\ UNCHANGED <<throttle, flows, account, history>>

ClaimRead(h) ==
  /\ pc[h] = "read"
  /\ row[at[h]]
  /\ Go(h, "file")
  /\ UNCHANGED <<throttle, flows, accounts, history>>

\* "The login session vanished before it could be filed", or a query fails: the
\* old manager is gone already, and nobody clears the throwaway row.
ClaimFails(h) ==
  /\ pc[h] \in {"read", "file", "clear"}
  /\ unfiled' = TRUE
  /\ orphaned' = orphaned \union {at[h]}
  /\ Answer(h)
  /\ UNCHANGED <<throttle, login, flow, row, pruning, accounts, codes, tested, filed,
                 crossed, revived>>

ClaimFile(h) ==
  /\ pc[h] = "file"
  /\ account' = at[h]
  /\ filed' = [filed EXCEPT ![at[h]] = @ + 1]
  /\ Go(h, "clear")
  /\ UNCHANGED <<throttle, flows, manager, lingering, codes, tested, broken>>

ClaimClear(h) ==
  /\ pc[h] = "clear"
  /\ row' = [row EXCEPT ![at[h]] = FALSE]
  /\ Go(h, "insert")
  /\ UNCHANGED <<throttle, login, flow, lock, pruning, accounts, history>>

ClaimInsert(h) ==
  /\ pc[h] = "insert"
  /\ manager' = TRUE
  /\ unfiled' = FALSE
  /\ revived' = FALSE
  /\ crossed' = (crossed \/ \E k \in Handlers : pc[k] \in LogoutPCs)
  /\ Answer(h)
  /\ UNCHANGED <<throttle, login, flow, row, pruning, account, lingering, codes, tested,
                 filed, orphaned>>

-----------------------------------------------------------------------------
(* The pruner *)

\* Abandoned logins leave the map under its lock ...
PruneTake ==
  \E S \in SUBSET {l \in Logins : login[l] = "open"} :
    /\ S # {}
    /\ login' = [l \in Logins |-> IF l \in S THEN "over" ELSE login[l]]
    /\ pruning' = pruning \union S
    /\ UNCHANGED <<throttle, flow, row, lock, requests, accounts, history>>

\* Variant: only the connection is closed.
PruneCloseOnly(l) ==
  /\ l \in pruning
  /\ lock[l] = None
  /\ pruning' = pruning \ {l}
  /\ UNCHANGED <<throttle, login, flow, row, lock, requests, accounts, history>>

\* ... and are closed one by one, each under its own lock.  The flow stays for the
\* request that waits for that lock; a delete that fails is only logged.
PruneClose(l) ==
  /\ l \in pruning
  /\ lock[l] = None
  /\ pruning' = pruning \ {l}
  /\ \/ row' = [row EXCEPT ![l] = FALSE] /\ UNCHANGED orphaned
     \/ orphaned' = orphaned \union {l} /\ UNCHANGED row
  /\ UNCHANGED <<throttle, login, flow, lock, requests, accounts, codes, tested, filed,
                 crossed, unfiled, revived>>

-----------------------------------------------------------------------------
(* logout, the client, the process *)

LogoutDetach(h) ==
  /\ pc[h] = "idle"
  /\ LetGo
  /\ Go(h, "detached")
  /\ UNCHANGED <<throttle, flows, account, history>>

\* Variant: the account's row survives.
LogoutKeepsRow(h) ==
  /\ pc[h] = "detached"
  /\ Answer(h)
  /\ UNCHANGED <<throttle, login, flow, row, pruning, accounts, history>>

LogoutDelete(h) ==
  /\ pc[h] = "detached"
  /\ account' = None
  /\ revived' = FALSE
  /\ crossed' = (crossed \/ \E k \in Handlers : pc[k] \in {"clear", "insert"})
  /\ Answer(h)
  /\ UNCHANGED <<throttle, login, flow, row, pruning, manager, lingering, codes, tested,
                 filed, orphaned, unfiled>>

\* A client of a manager that was closed saves its session: the row of the account is
\* written again, or overwritten (tg/session.rs:80-91).
LingerSaves ==
  /\ lingering
  /\ \E l \in Logins :
       /\ filed[l] > 0
       /\ account' = l
  /\ revived' = (revived \/ account = None)
  /\ UNCHANGED <<throttle, flows, requests, manager, lingering, codes, tested, filed,
                 orphaned, crossed, unfiled>>

\* The client goes away and the handler's future is dropped where it is (a query
\* of logout() that fails leaves the same behind).
Dropped(h) ==
  /\ pc[h] # "idle"
  /\ orphaned' = IF pc[h] \in SendPCs \union (ClaimPCs \ {"forget", "insert"})
                 THEN orphaned \union {at[h]} ELSE orphaned
  /\ unfiled' = (unfiled \/ pc[h] \in ClaimPCs \union LogoutPCs)
  /\ login' = [l \in Logins |->
                 IF l = at[h] /\ pc[h] \in SendPCs THEN "over" ELSE login[l]]
  /\ tested' = IF pc[h] = "fail" /\ tested > 0 THEN tested - 1 ELSE tested
  /\ Answer(h)
  /\ UNCHANGED <<throttle, flow, row, pruning, accounts, codes, filed, crossed,
                 revived>>

\* A restart forgets every login and throttle.  restore() deletes the rows of
\* unfinished logins and makes a manager for the account's row, unless Telegram
\* disowns it, and then deletes it.  The queries may fail: then rows stay.
Restart ==
  /\ failed' = 0 /\ blocked' = FALSE /\ cooling' = FALSE
  /\ login' = [l \in Logins |-> IF login[l] = "none" THEN "none" ELSE "over"]
  /\ flow' = [l \in Logins |-> "idle"]
  /\ \E kept \in {{}, {l \in Logins : row[l]}} :
       /\ row' = [l \in Logins |-> l \in kept]
       /\ orphaned' = kept
  /\ lock' = [l \in Logins |-> None]
  /\ pruning' = {}
  /\ pc' = [h \in Handlers |-> "idle"]
  /\ at' = [h \in Handlers |-> None]
  /\ kind' = [h \in Handlers |-> "code"]
  /\ \/ /\ account' \in {account, None}
        /\ manager' = (account' # None)
        /\ unfiled' = FALSE
     \/ /\ UNCHANGED account
        /\ manager' = FALSE
        /\ unfiled' = TRUE
  /\ lingering' = FALSE
  /\ sent' = 0 /\ late' = 0 /\ tested' = 0
  /\ crossed' = FALSE /\ revived' = FALSE
  /\ UNCHANGED filed

-----------------------------------------------------------------------------
Init ==
  /\ failed = 0 /\ blocked = FALSE /\ cooling = FALSE
  /\ login = [l \in Logins |-> "none"]
  /\ flow = [l \in Logins |-> "idle"]
  /\ row = [l \in Logins |-> FALSE]
  /\ lock = [l \in Logins |-> None]
  /\ pruning = {}
  /\ pc = [h \in Handlers |-> "idle"]
  /\ at = [h \in Handlers |-> None]
  /\ kind = [h \in Handlers |-> "code"]
  /\ manager = FALSE /\ account = None /\ lingering = FALSE
  /\ sent = 0 /\ late = 0 /\ tested = 0
  /\ filed = [l \in Logins |-> 0]
  /\ orphaned = {} /\ crossed = FALSE /\ unfiled = FALSE /\ revived = FALSE

Start(h) ==
  StartGate(h) \/ Reserve(h) \/ ReserveRefused(h) \/ SendConnect(h) \/ AskCode(h)
    \/ SendOk(h) \/ SendFails(h)

Answering(h) ==
  Submit(h) \/ SubmitGate(h) \/ SubmitRefused(h) \/ Ask(h) \/ Misuse(h)
    \/ AskUser(h) \/ Accepted(h) \/ PasswordRequired(h) \/ Refused(h) \/ Spent(h)
    \/ RecordFailure(h)

Claim(h) ==
  ClaimForget(h) \/ RecordSuccess(h) \/ ClaimDetach(h) \/ ClaimRead(h)
    \/ ClaimFails(h) \/ ClaimFile(h) \/ ClaimClear(h) \/ ClaimInsert(h)

Next ==
  \/ Lapse \/ CoolDown \/ Forget \/ PruneTake \/ Restart \/ LingerSaves
  \/ \E l \in Logins : PruneClose(l)
  \/ \E h \in Handlers :
       Start(h) \/ Answering(h) \/ Claim(h) \/ LogoutDetach(h) \/ LogoutDelete(h)
         \/ Dropped(h)

Spec == Init /\ [][Next]_vars

-----------------------------------------------------------------------------
(* Correctness *)

\* "Two requests racing here must not both reach Telegram" (reserve_code_send): however
\* many requests are under way, one code is asked for per cooldown.  The send is booked
\* before the request connects and asks, so those that had booked before the cooldown
\* ended, and were still connecting, come on top.
OneSendPerWindow == sent <= 1 + late

\* The brute-force block holds up to the handlers that were past gate() when it
\* fell, whatever mix of logins the secrets go to: gate() is asked before the wait
\* for Login.pending, and not again after it.
AttemptsBounded == tested <= MaxAttempts + Cardinality(Handlers) - 1

\* "A flow can never be replayed": one login is filed once, however many requests
\* submit its secret at the same time.
OneClaimPerLogin == \A l \in Logins : filed[l] <= 1

\* The throwaway row of a login that is over is gone when nobody is at work on it
\* any more, unless the handler that sent its code or claimed it broke off (a client
\* hung up, a query failed), the deletion of the row failed, or a secret accepted
\* after the pruner had closed the login made known_user_id() write the row again.
EndedLoginLeavesNoRow ==
  \A l \in Logins :
    /\ login[l] = "over"
    /\ l \notin pruning \union orphaned
    /\ \A h \in Handlers : at[h] # l
    => ~row[l]

\* When no claim and no logout is under way, the account has a manager exactly when
\* it has a session row: unless a claim or a logout broke off half-way (pruner,
\* hang-up, failed query), the two ran into each other, or a client of the old manager
\* wrote the row again after it had been deleted.
SessionAndManagerAgree ==
  (~crossed /\ ~unfiled /\ ~revived /\ \A h \in Handlers : pc[h] \notin ClaimPCs \union LogoutPCs)
    => (manager <=> account # None)

=============================================================================
