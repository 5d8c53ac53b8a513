------------------------------ MODULE TgAccount ------------------------------
(***************************************************************************)
(* One Telegram account: the slot of the hub's map that holds its manager, *)
(* the clients the manager connects (the owner's and a pool of bots), the  *)
(* session rows those clients write, and the list of bots in the settings. *)
(*                                                                         *)
(* A client and a manager are reference counted.  Closing a manager only   *)
(* lets go of its clients: one a request still holds stays connected, and  *)
(* writes its row, until the request ends (tg/mod.rs:98-111).              *)
(***************************************************************************)
EXTENDS Handlers, FiniteSets

VARIABLES
    hub,        \* the manager in the hub's map: one, or none
    held,       \* the clients installed in their managers
    open,       \* the clients that were connected
    sessions,   \* the session rows: of the owner, of a bot
    botlist,    \* the stored list of bots
    \* What happened, read by no action:
    signedOut,  \* the last acknowledged change of the session was a sign-out
    leftover,   \* rows a sign-out did not take: a client that outlived its manager
                \* wrote them, or their deletion failed
    wanted,     \* the bots written as added and not as removed since
    tangled     \* the stores with overlapping writers: "session", "bots", ..

account == <<hub, held, open, sessions, botlist, signedOut, leftover, wanted>>

Owner    == 0
FirstBot == 1      \* in the pool at start; BotFather issues bot r + 1 to request r

Client(m, r, a) == [mgr |-> m, by |-> r, as |-> a]
Slot(m, a) == {c \in held : c.mgr = m /\ c.as = a}
Pool(m)    == {c \in held : c.mgr = m /\ c.as # Owner}

Active(r)  == ~At(r, "idle") /\ ~At(r, "over")
Alive      == hub \cup {req[r].mgr : r \in {q \in Requests : Active(q)}}
Live       == {c \in open : \/ c \in held /\ c.mgr \in Alive
                            \/ \E r \in Requests : Active(r) /\ c \in req[r].hold}

LogoutPcs == {"close", "row", "bot_rows"}
ClaimPcs  == {"claim_close", "claim_file", "claim_insert"}

(* The hub has let go of c's manager, but an earlier request still uses it. *)
Outlives(c) ==
    /\ c.mgr \notin hub
    /\ \E r \in Requests : /\ Active(r) /\ req[r].pc \notin LogoutPcs \cup ClaimPcs
                          /\ (c \in req[r].hold \/ c.mgr = req[r].mgr)

(* A client writes its session row. *)
Write(c) ==
    /\ sessions' = sessions \cup {c.as}
    /\ leftover' = IF Outlives(c) THEN leftover \cup {c.as} ELSE leftover

(* A handler that resolved its caller's manager goes on at pc p, with bot b; *)
(* do is where it stands once it has a connected owner client.               *)
Begin(r, p, do, b) ==
    /\ Arrives(r)
    /\ \E m \in hub : Goto(r, [pc |-> p, do |-> do, mgr |-> m, hold |-> {}, bot |-> b,
                               list |-> {}])

TgInit ==
    /\ hub = {0}
    /\ held = {Client(0, 0, Owner), Client(0, 0, FirstBot)} /\ open = held
    /\ sessions = {Owner, FirstBot}
    /\ botlist = {FirstBot} /\ wanted = {FirstBot}
    /\ signedOut = FALSE /\ leftover = {} /\ tangled = {}

-----------------------------------------------------------------------------
(* ensure_connected().  The lock is not held while the client is built: a   *)
(* second caller builds another, and the later one replaces the earlier.    *)
Ensure(r) ==
    /\ At(r, "ensure")
    /\ LET mine == Slot(req[r].mgr, Owner)
       IN  Goto(r, [req[r] EXCEPT !.hold = @ \cup mine,
                                  !.pc = IF mine = {} THEN "build"
                                         ELSE IF mine \subseteq open THEN req[r].do
                                         ELSE "connect"])
    /\ UNCHANGED <<account, tangled>>

Build(r) ==
    /\ At(r, "build")
    /\ LET m == req[r].mgr  c == Client(m, r, Owner)
       IN  /\ held' = (held \ Slot(m, Owner)) \cup {c}
           /\ Goto(r, [req[r] EXCEPT !.pc = "connect", !.hold = @ \cup {c}])
    /\ UNCHANGED <<hub, open, sessions, botlist, signedOut, leftover, wanted, tangled>>

Connect(r) ==
    /\ At(r, "connect")
    /\ \E c \in req[r].hold :
          /\ c.as = Owner
          /\ \/ open' = open \cup {c} /\ Write(c) /\ Step(r, req[r].do)
             \/ Goto(r, Over) /\ UNCHANGED <<open, sessions, leftover>>
    /\ UNCHANGED <<hub, held, botlist, signedOut, wanted, tangled>>

(* Any handler that only calls Telegram: through a connected bot of the     *)
(* pool (pool_target), or through the owner's client.                       *)
Use(r) ==
    /\ Arrives(r)
    /\ \E m \in hub :
          \E p \in {[pc |-> "ensure", hold |-> {}]}
                   \cup {[pc |-> "done", hold |-> {c}] : c \in Pool(m) \cap open} :
             Goto(r, [pc |-> p.pc, do |-> "done", mgr |-> m, hold |-> p.hold,
                      bot |-> FirstBot, list |-> {}])
    /\ UNCHANGED <<account, tangled>>

Done(r) ==
    /\ At(r, "done")
    /\ Goto(r, Over)
    /\ UNCHANGED <<account, tangled>>

(* A connected client saves its session whenever it changes; that matters   *)
(* here when the row is gone.                                               *)
Save(c) ==
    /\ c \in Live /\ c.as \notin sessions
    /\ Write(c)
    /\ UNCHANGED <<hub, held, open, botlist, signedOut, wanted, tangled, req>>

-----------------------------------------------------------------------------
(* POST /bot: configure_bot signs the bot in and puts it into the pool, in  *)
(* place of an earlier client of it; then the list is read, changed and     *)
(* written back.                                                            *)
AddBot(r, b) ==
    /\ Begin(r, "bot_in", "done", b)
    /\ UNCHANGED <<account, tangled>>

BotSignIn(r) ==
    /\ At(r, "bot_in")
    /\ LET c == Client(req[r].mgr, r, req[r].bot)
       IN  \/ /\ open' = open \cup {c} /\ Write(c)
              /\ \/ Goto(r, [req[r] EXCEPT !.pc = "bot_insert", !.hold = {c}])
                 \/ Goto(r, Over)                      \* the token is refused
           \/ Goto(r, Over) /\ UNCHANGED <<open, sessions, leftover>>
    /\ UNCHANGED <<hub, held, botlist, signedOut, wanted, tangled>>

BotInsert(r) ==
    /\ At(r, "bot_insert")
    /\ held' = (held \ Slot(req[r].mgr, req[r].bot)) \cup req[r].hold
    /\ Goto(r, [req[r] EXCEPT !.pc = "add_read", !.hold = {}])
    /\ UNCHANGED <<hub, open, sessions, botlist, signedOut, leftover, wanted, tangled>>

(* DELETE /bot/{id}: the bot's session row stays. *)
RemoveBot(r, b) ==
    /\ Begin(r, "drop_bot", "done", b)
    /\ UNCHANGED <<account, tangled>>

DropBot(r) ==
    /\ At(r, "drop_bot")
    /\ held' = held \ Slot(req[r].mgr, req[r].bot)
    /\ Step(r, "remove_read")
    /\ UNCHANGED <<hub, open, sessions, botlist, signedOut, leftover, wanted, tangled>>

ListWriters == {"add_write", "remove_write"}

ListReadPool(r) ==                \* mutant: the pool is taken for the list
    /\ \/ At(r, "add_read") /\ Goto(r, [req[r] EXCEPT !.pc = "add_write",
                                         !.list = {c.as : c \in Pool(req[r].mgr)}])
       \/ At(r, "remove_read") /\ Goto(r, [req[r] EXCEPT !.pc = "remove_write",
                                            !.list = {c.as : c \in Pool(req[r].mgr)}])
    /\ tangled' = IF \E q \in Requests \ {r} : req[q].pc \in ListWriters
                  THEN tangled \cup {"bots"} ELSE tangled
    /\ UNCHANGED account

ListRead(r) ==
    /\ \/ At(r, "add_read") /\ Goto(r, [req[r] EXCEPT !.pc = "add_write", !.list = botlist])
       \/ At(r, "remove_read")
          /\ Goto(r, [req[r] EXCEPT !.pc = "remove_write", !.list = botlist])
    /\ tangled' = IF \E q \in Requests \ {r} : req[q].pc \in ListWriters
                  THEN tangled \cup {"bots"} ELSE tangled
    /\ UNCHANGED account

(* The query may fail, and it may run while its caller hangs up. *)
ListWrite(r) ==
    /\ LET b == {req[r].bot}
       IN  \/ /\ At(r, "add_write")
              /\ botlist' = req[r].list \cup b /\ wanted' = wanted \cup b
              /\ Step(r, "draft_check") \/ Goto(r, Over)   \* on in BotFather
           \/ /\ At(r, "remove_write")
              /\ botlist' = req[r].list \ b /\ wanted' = wanted \ b
              /\ Goto(r, Over)
           \/ /\ req[r].pc \in ListWriters
              /\ Goto(r, Over)
              /\ UNCHANGED <<botlist, wanted>>
    /\ UNCHANGED <<hub, held, open, sessions, signedOut, leftover, tangled>>

-----------------------------------------------------------------------------
(* POST /auth/logout, after the tokens were retired (TokenEpoch). *)
Crosses(r) ==                     \* r meets another sign-out or sign-in
    tangled' = IF \E q \in Requests \ {r} : req[q].pc \in LogoutPcs \cup ClaimPcs
               THEN tangled \cup {"session"} ELSE tangled

(* The record of a request that removed the hub's manager, if there was one. *)
Took(p, r) == [pc |-> p, do |-> "done", mgr |-> IF hub = {} THEN r ELSE CHOOSE m \in hub : TRUE,
               hold |-> {}, bot |-> FirstBot, list |-> {}]

(* close() takes the owner's client and the bots' out of the manager, and   *)
(* the manager is dropped: r names a manager that does not exist (yet).     *)
LetGo(r, p) ==
    /\ held' = {c \in held : c.mgr # req[r].mgr}
    /\ Goto(r, [req[r] EXCEPT !.pc = p, !.mgr = r])

LogoutTake(r) ==
    /\ Arrives(r)
    /\ Goto(r, Took("close", r))
    /\ hub' = {}
    /\ signedOut' = (signedOut /\ hub = {})
    /\ Crosses(r)
    /\ UNCHANGED <<held, open, sessions, botlist, leftover, wanted>>

LogoutForget(r) ==                \* mutant: the clients go when the manager goes
    /\ At(r, "close")
    /\ Step(r, "row")
    /\ UNCHANGED <<account, tangled>>

LogoutClose(r) ==
    /\ At(r, "close")
    /\ LetGo(r, "row")
    /\ UNCHANGED <<hub, open, sessions, botlist, signedOut, leftover, wanted, tangled>>

LogoutRow(r) ==
    /\ At(r, "row")
    /\ sessions' = sessions \ {Owner}
    /\ leftover' = leftover \ {Owner}
    /\ Step(r, "bot_rows")
    /\ UNCHANGED <<hub, held, open, botlist, signedOut, wanted, tangled>>

(* A failing deletion of the bots' rows is logged, and the sign-out is      *)
(* acknowledged all the same.                                               *)
LogoutBotRows(r) ==
    /\ At(r, "bot_rows")
    /\ \/ sessions' = sessions \cap {Owner} /\ leftover' = leftover \cap {Owner}
       \/ leftover' = leftover \cup (sessions \ {Owner}) /\ UNCHANGED sessions
    /\ signedOut' = TRUE
    /\ Goto(r, Over)
    /\ UNCHANGED <<hub, held, open, botlist, wanted, tangled>>

(* claim(): the account signs in, possibly again (the login is in Login). *)
ClaimTake(r) ==
    /\ Arrives(r)
    /\ Goto(r, Took("claim_close", r))
    /\ hub' = {}
    /\ Crosses(r)
    /\ UNCHANGED <<held, open, sessions, botlist, signedOut, leftover, wanted>>

ClaimClose(r) ==
    /\ At(r, "claim_close")
    /\ LetGo(r, "claim_file")
    /\ UNCHANGED <<hub, open, sessions, botlist, signedOut, leftover, wanted, tangled>>

ClaimFile(r) ==
    /\ At(r, "claim_file")
    /\ sessions' = sessions \cup {Owner}
    /\ signedOut' = FALSE
    /\ Step(r, "claim_insert")
    /\ UNCHANGED <<hub, held, open, botlist, leftover, wanted, tangled>>

ClaimInsert(r) ==
    /\ At(r, "claim_insert")
    /\ hub' = {r}
    /\ Goto(r, Over)
    /\ UNCHANGED <<held, open, sessions, botlist, signedOut, leftover, wanted, tangled>>

-----------------------------------------------------------------------------
(* restore() and run(): before the listener binds, the account of a session *)
(* row gets a manager, unless Telegram disowns the row, and the listed bots *)
(* are signed in again as far as Telegram lets them.  An account that comes *)
(* back by a leftover row is signed in.                                     *)
Boot ==
    /\ \/ /\ Owner \in sessions
          /\ hub' = {0}
          /\ \E back \in SUBSET botlist, reached \in BOOLEAN :
                /\ held' = {Client(0, 0, a) : a \in back \cup {Owner}}
                /\ open' = {Client(0, 0, a) : a \in IF reached THEN back \cup {Owner} ELSE back}
                /\ sessions' = sessions \cup back
          /\ signedOut' = (signedOut /\ Owner \notin leftover)
       \/ /\ hub' = {} /\ held' = {} /\ open' = {}
          /\ sessions' = sessions \ {Owner}
          /\ UNCHANGED signedOut
    /\ UNCHANGED <<botlist, leftover, wanted>>

TgRequest(r) ==
    \/ Ensure(r) \/ Build(r) \/ Connect(r) \/ Use(r) \/ Done(r)
    \/ \E b \in botlist : RemoveBot(r, b)
    \/ DropBot(r) \/ BotSignIn(r) \/ BotInsert(r) \/ ListRead(r) \/ ListWrite(r)
    \/ LogoutTake(r) \/ LogoutClose(r) \/ LogoutRow(r) \/ LogoutBotRows(r)
    \/ ClaimTake(r) \/ ClaimClose(r) \/ ClaimFile(r) \/ ClaimInsert(r)

(* After a sign-out the account is gone: no manager in the hub, no session  *)
(* row, not even after a restart, but for the rows that a request that had  *)
(* the account's manager before wrote afterwards, and the bots' rows when   *)
(* their deletion failed (hub.rs:285-301).                                  *)
SignedOutStaysOut ==
    signedOut /\ "session" \notin tangled => hub = {} /\ sessions \subseteq leftover

(* The stored list of bots holds exactly the bots acknowledged as added and *)
(* not removed since, whatever signing out and in, a hang-up or a restart   *)
(* did to the pool in memory; only two writers at once lose an update.      *)
BotsKept == "bots" \notin tangled => botlist = wanted
=============================================================================
