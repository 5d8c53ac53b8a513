----------------------------- MODULE AccountProofs -----------------------------
(***************************************************************************)
(* What TLAPS proves of Account, for every number of requests, of faults   *)
(* and of tunables.                                                        *)
(*                                                                         *)
(* The four properties share one shape: they hold while a store has one    *)
(* writer at a time.  Each invariant says that the writer is alone unless  *)
(* the store is tangled, and what the writer holds of it meanwhile.        *)
(***************************************************************************)
EXTENDS Account, TLAPS

Clients == [mgr : Nat, by : Nat, as : Nat]

BotPcs    == {"bot_in", "bot_insert", "add_read", "add_write", "drop_bot", "remove_read",
              "remove_write", "draft_check"}
Signing   == LogoutPcs \cup ClaimPcs
BusyPcs   == {"ensure", "build", "connect", "done", "talk", "cancel", "menu", "await",
              "draft_write", "draft_clear", "next", "set_row", "set_cache"}
             \cup BotPcs \cup Signing

\* Where a request goes once it has a connected client.
Aims == {"done", "talk", "cancel", "menu", "next"}

\* What a list holds: bots or a draft, a change of the tunables, the changed tunables.
Choices == Fields \X BOOLEAN
Tunings == [Fields -> BOOLEAN]
Locals  == (SUBSET Nat) \cup Choices \cup Tunings

\* What a request at each await was sent for, and what its list holds meanwhile.
Proper(s) ==
    /\ s.pc \in Aims => s.do = s.pc
    /\ s.pc \in BotPcs \cup Signing => s.do = "done"
    /\ s.pc \in Saving => s.do = "next"
    /\ s.pc = "draft_write" => s.do = "talk"
    /\ s.pc = "draft_clear" => s.do \in {"cancel", "done"}
    /\ s.do = "talk" => s.list \subseteq Nat
    /\ s.do = "next" /\ s.pc \notin Saving => s.list \in Choices
    /\ s.pc \in Saving => s.list \in Tunings
    /\ s.pc \in ListWriters => s.list \subseteq Nat

Records == [pc : BusyPcs, do : Aims, mgr : Nat, hold : SUBSET Clients, bot : Nat, list : Locals]
Busy   == {s \in Records : Proper(s)}

Types ==
    /\ req \in [Requests -> Busy \cup {Idle, Over}]
    /\ hub \subseteq Nat /\ held \subseteq Clients
    /\ botlist \subseteq Nat /\ wanted \subseteq Nat
    /\ draft \subseteq Nat /\ issued \subseteq Nat
    /\ newest \in [from : Nat, re : Nat, bot : Nat]
    /\ stored \in Tunings /\ cached \in Tunings

-----------------------------------------------------------------------------
(* The tunables *)

Tunes ==
    "instance" \notin tangled =>
      /\ \A q, r \in Requests : req[q].pc \in Saving /\ req[r].pc \in Saving => q = r
      /\ \A r \in Requests : At(r, "set_cache") => stored = req[r].list
      /\ (\A r \in Requests : ~At(r, "set_cache")) => cached = stored

-----------------------------------------------------------------------------
(* The bots *)

Listing ==
    "bots" \notin tangled =>
      /\ botlist = wanted
      /\ \A q, r \in Requests : req[q].pc \in ListWriters /\ req[r].pc \in ListWriters => q = r
      /\ \A r \in Requests : req[r].pc \in ListWriters => req[r].list = botlist

-----------------------------------------------------------------------------
(* The session *)

\* A manager that a request made is there once the request is over, and not before.
Made(m) == m \in Requests => At(m, "over")

Managers ==
    /\ \A m \in hub : Made(m)
    /\ \A c \in held : Made(c.mgr)
    /\ \A r \in Requests : Active(r) =>
         \/ Made(req[r].mgr)
         \/ req[r].mgr = r /\ req[r].pc \in Signing
    /\ \A r \in Requests : At(r, "bot_insert") => \A c \in req[r].hold : c.mgr = req[r].mgr
    /\ \A r \in Requests : req[r].pc \in Signing => req[r].hold = {}
    /\ \A r \in Requests : req[r].pc \in {"row", "bot_rows", "claim_file", "claim_insert"} =>
         req[r].mgr = r

SignOut ==
    "session" \notin tangled =>
      /\ \A q, r \in Requests : req[q].pc \in Signing /\ req[r].pc \in Signing => q = r
      /\ \A r \in Requests : req[r].pc \in Signing => hub = {}
      /\ \A r \in Requests : At(r, "bot_rows") => sessions \cap {Owner} \subseteq leftover
      /\ \A r \in Requests : At(r, "claim_insert") => ~signedOut
      /\ signedOut =>
           /\ hub = {} /\ sessions \subseteq leftover
           /\ \A r \in Requests : req[r].pc \in Signing => req[r].mgr = r

-----------------------------------------------------------------------------
(* The wizard *)

Asks == {"talk", "cancel", "menu", "press"}
Talking(r) == Active(r) /\ req[r].do = "talk"
Alone(S) == \A x, y \in S : x = y

\* Nothing was said by r yet, nor to it.
Fresh(r) ==
    r + 1 \notin issued /\ newest.re # r /\ \A w \in Asks : <<r, w>> \notin due

\* What BotFather still owes a request, and what it said to it.
Heeded(r) ==
    /\ At(r, "idle") => Fresh(r)
    /\ Talking(r) /\ req[r].pc \notin {"await", "draft_write"} => Fresh(r)
    /\ Active(r) /\ req[r].do # "talk" => <<r, "talk">> \notin due
    /\ Talking(r) \/ <<r, "talk">> \in due =>
         \A w \in Asks : <<r, w>> \in due => w = "talk"
    /\ <<r, "talk">> \in due => /\ r + 1 \notin issued /\ newest.re # r
                                /\ r + 1 \in settled \/ (Talking(r) /\ At(r, "await"))
    /\ Talking(r) /\ newest.re = r /\ r + 1 \in issued => newest.bot = r + 1
    /\ Talking(r) => Alone(req[r].list)

Chat ==
    /\ due \subseteq Requests \X Asks
    /\ \A b \in issued : \E r \in Requests : b = r + 1
    /\ Alone(draft)
    /\ \A r \in Requests : Heeded(r)

\* While it is alone, a conversation keeps the draft it read.
Drafts ==
    "draft" \notin tangled =>
      /\ \A q, r \in Requests : InWizard(q) /\ InWizard(r) => q = r
      /\ \A r \in Requests :
           /\ At(r, "draft_clear") /\ req[r].do = "done" => draft = {req[r].bot}
           /\ Talking(r) /\ req[r].pc # "draft_write" => req[r].list = draft
           /\ Talking(r) /\ At(r, "draft_write") /\ r + 1 \in issued \ settled =>
                req[r].list = {r + 1}
           /\ r + 1 \in issued \ settled => draft = {r + 1} \/ Talking(r)

IndInv == Types /\ Tunes /\ Listing /\ Managers /\ SignOut /\ Chat /\ Drafts

-----------------------------------------------------------------------------
(* Types *)

\* A request at one of the awaits has its locals.
LEMMA AtBusy ==
  ASSUME Types, NEW r \in Requests, req[r].pc \in BusyPcs
  PROVE  /\ req[r] \in Records /\ Proper(req[r])
         /\ req[r].do \in Aims /\ req[r].mgr \in Nat /\ req[r].bot \in Nat
         /\ req[r].hold \subseteq Clients /\ req[r].list \in Locals
<1>1. req[r] \in Busy \cup {Idle, Over}
  BY DEF Types
<1>2. req[r] # Idle /\ req[r] # Over
  BY DEF Idle, Over, BusyPcs, BotPcs, Signing, LogoutPcs, ClaimPcs
<1> QED BY <1>1, <1>2 DEF Busy, Records

LEMMA PcKinds ==
  ASSUME Types, NEW r \in Requests
  PROVE  /\ req[r].pc \in BusyPcs \cup {"idle", "over"}
         /\ Active(r) <=> req[r].pc \in BusyPcs
<1>1. req[r] \in Busy \cup {Idle, Over}
  BY DEF Types
<1>2. \A b \in Busy : b.pc \in BusyPcs
  BY DEF Busy, Records
<1>3. Idle.pc = "idle" /\ Over.pc = "over"
  BY DEF Idle, Over
<1>4. "idle" \notin BusyPcs /\ "over" \notin BusyPcs
  BY DEF BusyPcs, BotPcs, Signing, LogoutPcs, ClaimPcs
<1> QED BY <1>1, <1>2, <1>3, <1>4 DEF Active, At

\* A step of one request.
LEMMA GotoTyped ==
  ASSUME Types, NEW r \in Requests, NEW s \in Busy \cup {Over}, Goto(r, s)
  PROVE  /\ req' \in [Requests -> Busy \cup {Idle, Over}]
         /\ req'[r] = s
         /\ \A q \in Requests \ {r} : req'[q] = req[q]
BY DEF Types, Goto

\* A request that goes on to p with the locals it has.
LEMMA StepTyped ==
  ASSUME Types, NEW r \in Requests, req[r].pc \in BusyPcs, NEW p \in BusyPcs, Step(r, p),
         Proper([req[r] EXCEPT !.pc = p])
  PROVE  \E s \in Busy \cup {Over} : Goto(r, s)
<1>1. req[r] \in Records
  BY AtBusy
<1>2. [req[r] EXCEPT !.pc = p] \in Records
  BY <1>1 DEF Records
<1> QED BY <1>2 DEF Busy, Step

\* A request that begins.
LEMMA Began ==
  ASSUME NEW p \in BusyPcs, NEW d \in Aims, NEW m \in Nat, NEW h \in SUBSET Clients,
         NEW n \in Nat, NEW l \in Locals
  PROVE  [pc |-> p, do |-> d, mgr |-> m, hold |-> h, bot |-> n, list |-> l] \in Records
BY DEF Records

\* The names of the awaits, for the leaves that compare them.
LEMMA Names ==
  /\ BusyPcs = {"ensure", "build", "connect", "done", "talk", "cancel", "menu", "await",
                "draft_write", "draft_clear", "next", "set_row", "set_cache",
                "bot_in", "bot_insert", "add_read", "add_write", "drop_bot", "remove_read",
                "remove_write", "draft_check", "close", "row", "bot_rows", "claim_close",
                "claim_file", "claim_insert"}
  /\ BotPcs \cup Signing =
               {"bot_in", "bot_insert", "add_read", "add_write", "drop_bot", "remove_read",
                "remove_write", "draft_check", "close", "row", "bot_rows", "claim_close",
                "claim_file", "claim_insert"}
BY DEF BusyPcs, BotPcs, Signing, LogoutPcs, ClaimPcs

\* What reaches a client, and what a request of the pool does.
LEMMA ClientSteps ==
  ASSUME Types, NEW r \in Requests,
         Ensure(r) \/ Build(r) \/ Connect(r) \/ Use(r) \/ Done(r)
  PROVE  \E s \in Busy \cup {Over} : Goto(r, s)
<1> USE Names
<1>1. CASE Ensure(r)
  <2>1. req[r] \in Records /\ Proper(req[r]) /\ req[r].pc = "ensure"
    BY <1>1, AtBusy DEF Ensure, At
  <2>2. Slot(req[r].mgr, Owner) \subseteq Clients
    BY DEF Types, Slot
  <2> DEFINE mine == Slot(req[r].mgr, Owner)
             s == [req[r] EXCEPT !.hold = @ \cup mine,
                                  !.pc = IF mine = {} THEN "build"
                                         ELSE IF mine \subseteq open THEN req[r].do
                                         ELSE "connect"]
  <2>3. s \in Records
    BY <2>1, <2>2 DEF Records, Aims
  <2>31. /\ s.pc \in {"build", "connect", req[r].do}
        /\ s.do = req[r].do /\ s.list = req[r].list
    BY <2>1 DEF Records
  <2>32. /\ Proper(req[r]) /\ req[r].pc = "ensure" /\ req[r].do \in Aims
    BY <2>1 DEF Records
  <2> HIDE DEF s
  <2>4. Proper(s)
    BY <2>31, <2>32 DEF Proper, Saving, ListWriters, Aims
  <2> USE DEF s
  <2>5. Goto(r, s)
    BY <1>1 DEF Ensure
  <2> QED BY <2>3, <2>4, <2>5 DEF Busy
<1>2. CASE Build(r)
  <2>1. req[r] \in Records /\ Proper(req[r]) /\ req[r].pc = "build" /\ r \in Nat
    BY <1>2, AtBusy DEF Build, At, Requests
  <2> DEFINE c == Client(req[r].mgr, r, Owner)
             s == [req[r] EXCEPT !.pc = "connect", !.hold = @ \cup {c}]
  <2>0. c \in Clients
    BY <2>1 DEF Records, Client, Clients, Owner
  <2> HIDE DEF c
  <2>2. s \in Records
    BY <2>0, <2>1 DEF Records
  <2>3. Proper(s)
    BY <2>1 DEF Records, Proper, Saving, ListWriters, Aims
  <2> QED BY <1>2, <2>2, <2>3 DEF Build, Busy, c
<1>3. CASE Connect(r)
  <2>1. req[r] \in Records /\ Proper(req[r]) /\ req[r].pc = "connect"
    BY <1>3, AtBusy DEF Connect, At
  <2>2. Step(r, req[r].do) \/ Goto(r, Over)
    BY <1>3 DEF Connect
  <2>3. req[r].do \in BusyPcs /\ Proper([req[r] EXCEPT !.pc = req[r].do])
    BY <2>1 DEF Records, Proper, Saving, ListWriters, Aims
  <2> QED BY <2>1, <2>2, <2>3, StepTyped
<1>4. CASE Use(r)
  <2>0. PICK m \in hub :
          \E p \in {[pc |-> "ensure", hold |-> {}]}
                   \cup {[pc |-> "done", hold |-> {c}] : c \in Pool(m) \cap open} :
             Goto(r, [pc |-> p.pc, do |-> "done", mgr |-> m, hold |-> p.hold,
                      bot |-> FirstBot, list |-> {}])
    BY <1>4 DEF Use
  <2>1. PICK p \in {[pc |-> "ensure", hold |-> {}]}
                   \cup {[pc |-> "done", hold |-> {c}] : c \in Pool(m) \cap open} :
          Goto(r, [pc |-> p.pc, do |-> "done", mgr |-> m, hold |-> p.hold,
                   bot |-> FirstBot, list |-> {}])
    BY <2>0
  <2>2. p.pc \in {"ensure", "done"} /\ p.hold \subseteq Clients /\ m \in Nat
    BY DEF Types, Pool
  <2> DEFINE s == [pc |-> p.pc, do |-> "done", mgr |-> m, hold |-> p.hold,
                   bot |-> FirstBot, list |-> {}]
  <2>3. s \in Records
    BY <2>2 DEF Records, FirstBot, Aims, Locals
  <2>4. Proper(s)
    BY <2>2 DEF Proper, Saving, ListWriters, Aims
  <2> QED BY <2>1, <2>3, <2>4 DEF Busy
<1>5. CASE Done(r)
  BY <1>5 DEF Done
<1> QED BY <1>1, <1>2, <1>3, <1>4, <1>5

LEMMA BeginTyped ==
  ASSUME Types, NEW r \in Requests, NEW p, NEW do, NEW b \in Nat, Begin(r, p, do, b),
         \/ p = "ensure" /\ do \in {"cancel", "menu"}
         \/ p = "draft_clear" /\ do = "cancel"
         \/ p \in {"bot_in", "drop_bot"} /\ do = "done"
  PROVE  \E s \in Busy \cup {Over} : Goto(r, s)
<1> USE Names
<1>1. PICK m \in hub : Goto(r, [pc |-> p, do |-> do, mgr |-> m, hold |-> {}, bot |-> b,
                               list |-> {}])
  BY DEF Begin
<1> DEFINE s == [pc |-> p, do |-> do, mgr |-> m, hold |-> {}, bot |-> b, list |-> {}]
<1>2. s \in Records
  BY DEF Records, Types, Aims, Locals
<1>3. Proper(s)
  BY DEF Proper, Saving, ListWriters, Aims
<1> QED BY <1>1, <1>2, <1>3 DEF Busy

LEMMA PoolSteps ==
  ASSUME Types, NEW r \in Requests,
         \/ \E b \in botlist : RemoveBot(r, b)
         \/ \E b \in {FirstBot} \cup issued : AddBot(r, b)
         \/ BotSignIn(r) \/ BotInsert(r) \/ DropBot(r) \/ ListRead(r) \/ ListWrite(r)
  PROVE  \E s \in Busy \cup {Over} : Goto(r, s)
<1> USE Names
<1>1. CASE \E b \in botlist : RemoveBot(r, b)
  BY <1>1, BeginTyped DEF RemoveBot, Types
<1>2. CASE \E b \in {FirstBot} \cup issued : AddBot(r, b)
  <2>1. {FirstBot} \cup issued \subseteq Nat
    BY DEF FirstBot, Types
  <2> QED BY <1>2, <2>1, BeginTyped DEF AddBot
<1>3. CASE BotSignIn(r)
  <2>1. req[r] \in Records /\ Proper(req[r]) /\ req[r].pc = "bot_in" /\ r \in Nat
    BY <1>3, AtBusy DEF BotSignIn, At, Requests
  <2> DEFINE c == Client(req[r].mgr, r, req[r].bot)
             s == [req[r] EXCEPT !.pc = "bot_insert", !.hold = {c}]
  <2>0. c \in Clients
    BY <2>1 DEF Records, Client, Clients
  <2> HIDE DEF c
  <2>2. s \in Records
    BY <2>0, <2>1 DEF Records
  <2>3. Proper(s)
    BY <2>1 DEF Records, Proper, Saving, ListWriters, Aims
  <2> QED BY <1>3, <2>2, <2>3 DEF BotSignIn, Busy, c
<1>4. CASE BotInsert(r)
  <2>1. req[r] \in Records /\ Proper(req[r]) /\ req[r].pc = "bot_insert"
    BY <1>4, AtBusy DEF BotInsert, At
  <2> DEFINE s == [req[r] EXCEPT !.pc = "add_read", !.hold = {}]
  <2>2. s \in Records
    BY <2>1 DEF Records
  <2>3. Proper(s)
    BY <2>1 DEF Records, Proper, Saving, ListWriters, Aims
  <2> QED BY <1>4, <2>2, <2>3 DEF BotInsert, Busy
<1>5. CASE DropBot(r)
  <2>1. req[r] \in Records /\ Proper(req[r]) /\ req[r].pc = "drop_bot" /\ Step(r, "remove_read")
    BY <1>5, AtBusy DEF DropBot, At
  <2>2. Proper([req[r] EXCEPT !.pc = "remove_read"])
    BY <2>1 DEF Records, Proper, Saving, ListWriters, Aims
  <2> QED BY <2>1, <2>2, StepTyped
<1>6. CASE ListRead(r)
  <2>1. PICK p \in ListWriters : /\ Goto(r, [req[r] EXCEPT !.pc = p, !.list = botlist])
                                 /\ req[r].pc \in {"add_read", "remove_read"}
    BY <1>6 DEF ListRead, At, ListWriters
  <2>2. req[r] \in Records /\ Proper(req[r]) /\ botlist \subseteq Nat
    BY <2>1, AtBusy DEF Types
  <2> DEFINE s == [req[r] EXCEPT !.pc = p, !.list = botlist]
  <2>3. s \in Records
    BY <2>2, <2>1 DEF Records, Locals, ListWriters
  <2>4. Proper(s)
    BY <2>1, <2>2 DEF Records, Proper, Saving, ListWriters, Aims
  <2> QED BY <2>1, <2>3, <2>4 DEF Busy
<1>7. CASE ListWrite(r)
  <2>1. CASE Goto(r, Over)
    BY <2>1
  <2>2. CASE At(r, "add_write") /\ Step(r, "draft_check")
    <3>1. req[r] \in Records /\ Proper(req[r]) /\ req[r].pc = "add_write"
      BY <2>2, AtBusy DEF At
    <3>2. Proper([req[r] EXCEPT !.pc = "draft_check"])
      BY <3>1 DEF Records, Proper, Saving, ListWriters, Aims
    <3> QED BY <2>2, <3>1, <3>2, StepTyped
  <2> QED BY <1>7, <2>1, <2>2 DEF ListWrite
<1> QED BY <1>1, <1>2, <1>3, <1>4, <1>5, <1>6, <1>7

LEMMA TookIs ==
  ASSUME NEW p, NEW r
  PROVE  /\ Took(p, r).pc = p /\ Took(p, r).do = "done" /\ Took(p, r).hold = {}
         /\ Took(p, r).mgr = r \/ Took(p, r).mgr \in hub
         /\ hub = {} => Took(p, r).mgr = r
<1> DEFINE m == IF hub = {} THEN r ELSE CHOOSE x \in hub : TRUE
<1>1. hub # {} => (CHOOSE x \in hub : TRUE) \in hub
  OBVIOUS
<1>2. (m = r \/ m \in hub) /\ (hub = {} => m = r)
  BY <1>1, Zenon
<1>3. Took(p, r) = [pc |-> p, do |-> "done", mgr |-> m, hold |-> {}, bot |-> FirstBot, list |-> {}]
  BY DEF Took
<1> HIDE DEF m
<1> QED BY <1>2, <1>3

LEMMA TookTyped ==
  ASSUME Types, NEW r \in Requests, NEW p \in {"close", "claim_close"}
  PROVE  Took(p, r) \in Busy
<1> USE Names
<1> DEFINE m == IF hub = {} THEN r ELSE CHOOSE x \in hub : TRUE
<1>0. hub # {} => (CHOOSE x \in hub : TRUE) \in hub
  OBVIOUS
<1>01. hub \subseteq Nat /\ r \in Nat
  BY DEF Types, Requests
<1>1. m \in Nat
  BY <1>0, <1>01, Zenon
<1>2. Took(p, r) = [pc |-> p, do |-> "done", mgr |-> m, hold |-> {}, bot |-> FirstBot, list |-> {}]
  BY DEF Took
<1> HIDE DEF m
<1>3. Took(p, r) \in Records
  BY <1>1, <1>2 DEF Records, Locals, Aims, FirstBot
<1>4. Proper(Took(p, r))
  BY <1>2 DEF Proper, Saving, ListWriters, Aims
<1> QED BY <1>3, <1>4 DEF Busy

LEMMA LetGoTyped ==
  ASSUME Types, NEW r \in Requests, NEW p \in {"row", "claim_file"}, LetGo(r, p),
         req[r].pc \in {"close", "claim_close"}
  PROVE  \E s \in Busy \cup {Over} : Goto(r, s)
<1> USE Names
<1>1. req[r] \in Records /\ Proper(req[r]) /\ r \in Nat
  BY AtBusy DEF Requests
<1> DEFINE s == [req[r] EXCEPT !.pc = p, !.mgr = r]
<1>2. s \in Records
  BY <1>1 DEF Records
<1>3. Proper(s)
  BY <1>1 DEF Records, Proper, Saving, ListWriters, Aims
<1> QED BY <1>2, <1>3 DEF LetGo, Busy

LEMMA SigningSteps ==
  ASSUME Types, NEW r \in Requests,
         \/ LogoutTake(r) \/ LogoutClose(r) \/ LogoutRow(r) \/ LogoutBotRows(r)
         \/ ClaimTake(r) \/ ClaimClose(r) \/ ClaimFile(r) \/ ClaimInsert(r)
  PROVE  \E s \in Busy \cup {Over} : Goto(r, s)
<1> USE Names
<1>1. CASE LogoutTake(r) \/ ClaimTake(r)
  BY <1>1, TookTyped DEF LogoutTake, ClaimTake
<1>2. CASE LogoutClose(r) \/ ClaimClose(r)
  BY <1>2, LetGoTyped DEF LogoutClose, ClaimClose, At
<1>3. CASE LogoutRow(r)
  <2>1. req[r] \in Records /\ Proper(req[r]) /\ req[r].pc = "row" /\ Step(r, "bot_rows")
    BY <1>3, AtBusy DEF LogoutRow, At
  <2>2. Proper([req[r] EXCEPT !.pc = "bot_rows"])
    BY <2>1 DEF Records, Proper, Saving, ListWriters, Aims
  <2> QED BY <2>1, <2>2, StepTyped
<1>4. CASE ClaimFile(r)
  <2>1. /\ req[r] \in Records /\ Proper(req[r]) /\ req[r].pc = "claim_file"
        /\ Step(r, "claim_insert")
    BY <1>4, AtBusy DEF ClaimFile, At
  <2>2. Proper([req[r] EXCEPT !.pc = "claim_insert"])
    BY <2>1 DEF Records, Proper, Saving, ListWriters, Aims
  <2> QED BY <2>1, <2>2, StepTyped
<1>5. CASE LogoutBotRows(r) \/ ClaimInsert(r)
  BY <1>5 DEF LogoutBotRows, ClaimInsert
<1> QED BY <1>1, <1>2, <1>3, <1>4, <1>5

LEMMA WizardSteps ==
  ASSUME Types, NEW r \in Requests, WizardRequest(r)
  PROVE  \E s \in Busy \cup {Over} : Goto(r, s)
<1> USE Names
<1>1. CASE Talk(r)
  <2>1. PICK m \in hub : Goto(r, [pc |-> "ensure", do |-> "talk", mgr |-> m, hold |-> {},
                                  bot |-> 0, list |-> draft])
    BY <1>1 DEF Talk
  <2> DEFINE s == [pc |-> "ensure", do |-> "talk", mgr |-> m, hold |-> {}, bot |-> 0, list |-> draft]
  <2>2. draft \subseteq Nat /\ m \in Nat
    BY DEF Types
  <2>3. s \in Records
    BY <2>2 DEF Records, Locals, Aims
  <2>4. Proper(s)
    BY <2>2 DEF Proper, Saving, ListWriters, Aims
  <2> QED BY <2>1, <2>3, <2>4 DEF Busy
<1>2. CASE Cancel(r)
  BY <1>2, BeginTyped DEF Cancel, FirstBot
<1>3. CASE Browse(r)
  BY <1>3, BeginTyped DEF Browse, FirstBot
<1>4. CASE Ask(r)
  <2>1. /\ req[r] \in Records /\ Proper(req[r]) /\ req[r].pc \in {"talk", "cancel", "menu"}
        /\ req[r].do = req[r].pc
    BY <1>4, AtBusy DEF Ask, Proper, Aims
  <2> DEFINE l == IF req[r].pc = "talk" THEN req[r].list ELSE {}
             s == [req[r] EXCEPT !.pc = "await", !.list = l]
  <2>2. l \in Locals
    BY <2>1 DEF Records, Locals
  <2>3. req[r].do = "talk" => l \subseteq Nat
    BY <2>1 DEF Proper
  <2>4. Goto(r, s)
    BY <1>4 DEF Ask, At
  <2> HIDE DEF l
  <2>5. s \in Records
    BY <2>1, <2>2 DEF Records
  <2>6. Proper(s)
    BY <2>1, <2>3 DEF Records, Proper, Saving, ListWriters, Aims
  <2> QED BY <2>4, <2>5, <2>6 DEF Busy
<1>5. CASE Hear(r)
  <2>1. /\ req[r] \in Records /\ Proper(req[r]) /\ req[r].pc = "await" /\ req[r].do = "talk"
    BY <1>5, AtBusy DEF Hear, At
  <2> DEFINE kept == IF req[r].list = {} THEN {0} ELSE req[r].list
             l == IF newest.bot # 0 THEN {newest.bot} ELSE kept
             s == [req[r] EXCEPT !.pc = "draft_write", !.list = l]
  <2>2. l \subseteq Nat
    <3>1. newest.bot \in Nat /\ req[r].list \subseteq Nat
      BY <2>1 DEF Types, Proper
    <3> QED BY <3>1
  <2>3. Goto(r, s)
    BY <1>5 DEF Hear
  <2> HIDE DEF l
  <2>4. s \in Records
    BY <2>1, <2>2 DEF Records, Locals
  <2>5. Proper(s)
    BY <2>1, <2>2 DEF Records, Proper, Saving, ListWriters, Aims
  <2> QED BY <2>3, <2>4, <2>5 DEF Busy
<1>6. CASE DraftWrite(r)
  BY <1>6 DEF DraftWrite
<1>7. CASE Step(r, "draft_clear") /\ At(r, "await") /\ req[r].do = "cancel"
  <2>1. req[r] \in Records /\ Proper(req[r]) /\ req[r].pc = "await" /\ req[r].do = "cancel"
    BY <1>7, AtBusy DEF At
  <2>2. Proper([req[r] EXCEPT !.pc = "draft_clear"])
    BY <2>1 DEF Records, Proper, Saving, ListWriters, Aims
  <2> QED BY <1>7, <2>1, <2>2, StepTyped
<1>8. CASE GiveUp(r) \/ Heard(r)
  BY <1>7, <1>8 DEF GiveUp, Heard
<1>9. CASE Step(r, "draft_clear") /\ At(r, "draft_check")
  <2>1. req[r] \in Records /\ Proper(req[r]) /\ req[r].pc = "draft_check"
    BY <1>9, AtBusy DEF At
  <2>2. Proper([req[r] EXCEPT !.pc = "draft_clear"])
    BY <2>1 DEF Records, Proper, Saving, ListWriters, Aims
  <2> QED BY <1>9, <2>1, <2>2, StepTyped
<1>10. CASE Wire(r) /\ req[r].pc \in {"draft_check", "draft_clear"} /\ req[r].do = "done"
  <2>1. req[r] \in Records /\ Proper(req[r])
    BY <1>10, AtBusy
  <2> DEFINE s == [req[r] EXCEPT !.pc = "ensure", !.bot = FirstBot, !.list = {}]
  <2>2. s \in Records
    BY <2>1 DEF Records, Locals, FirstBot
  <2>3. Proper(s)
    BY <1>10, <2>1 DEF Records, Proper, Saving, ListWriters, Aims
  <2> QED BY <1>10, <2>2, <2>3 DEF Wire, Busy
<1>11. CASE DraftCheck(r)
  <2>1. req[r].do = "done"
    BY <1>11, AtBusy DEF DraftCheck, At, Proper
  <2> QED BY <1>9, <1>10, <1>11, <2>1 DEF DraftCheck, At
<1>12. CASE DraftClear(r)
  BY <1>10, <1>12 DEF DraftClear, At
<1> QED BY <1>1, <1>2, <1>3, <1>4, <1>5, <1>6, <1>8, <1>11, <1>12 DEF WizardRequest

LEMMA InstanceSteps ==
  ASSUME Types, NEW r \in Requests, InstanceRequest(r)
  PROVE  \E s \in Busy \cup {Over} : Goto(r, s)
<1> USE Names
<1>1. ASSUME NEW f \in Fields, NEW v \in BOOLEAN, SaveInstance(r, f, v)
      PROVE  \E s \in Busy \cup {Over} : Goto(r, s)
  <2>1. PICK m \in hub : Goto(r, [pc |-> "ensure", do |-> "next", mgr |-> m, hold |-> {},
                                  bot |-> FirstBot, list |-> <<f, v>>])
    BY <1>1 DEF SaveInstance
  <2> DEFINE l == <<f, v>>
             s == [pc |-> "ensure", do |-> "next", mgr |-> m, hold |-> {},
                   bot |-> FirstBot, list |-> l]
  <2>2. l \in Choices /\ m \in Nat
    BY DEF Types, Choices
  <2> HIDE DEF l
  <2>25. l \in Locals
    BY <2>2 DEF Locals
  <2>3. s \in Records
    BY <2>2, <2>25 DEF Records, Aims, FirstBot
  <2>4. Proper(s)
    <3>1. /\ s.pc = "ensure" /\ s.do = "next" /\ s.list = l
      OBVIOUS
    <3> HIDE DEF s
    <3> QED BY <2>2, <3>1 DEF Proper, Saving, ListWriters, Aims
  <2> QED BY <2>1, <2>3, <2>4 DEF Busy, l
<1>2. CASE NextInstance(r)
  <2>1. /\ req[r] \in Records /\ Proper(req[r]) /\ req[r].pc = "next"
    BY <1>2, AtBusy DEF NextInstance, At
  <2>2. req[r].do = "next" /\ req[r].list \in Choices
    BY <2>1 DEF Proper, Aims, Saving
  <2> DEFINE l == [cached EXCEPT ![req[r].list[1]] = req[r].list[2]]
             s == [req[r] EXCEPT !.pc = "set_row", !.list = l]
  <2>3. l \in Tunings
    <3>1. req[r].list[1] \in Fields /\ req[r].list[2] \in BOOLEAN
      BY <2>2 DEF Choices
    <3>2. cached \in [Fields -> BOOLEAN]
      BY DEF Types, Tunings
    <3> QED BY <3>1, <3>2 DEF Tunings
  <2>4. Goto(r, s)
    BY <1>2 DEF NextInstance
  <2> HIDE DEF l
  <2>45. l \in Locals
    BY <2>3 DEF Locals
  <2>5. s \in Records
    BY <2>1, <2>45 DEF Records
  <2>6. Proper(s)
    <3>1. /\ s.pc = "set_row" /\ s.do = "next" /\ s.list = l
      BY <2>1, <2>2 DEF Records
    <3> HIDE DEF s
    <3> QED BY <2>3, <3>1 DEF Proper, Saving, ListWriters, Aims
  <2> QED BY <2>4, <2>5, <2>6 DEF Busy
<1>3. CASE SetRow(r)
  <2>1. CASE Step(r, "set_cache")
    <3>1. req[r] \in Records /\ Proper(req[r]) /\ req[r].pc = "set_row"
      BY <1>3, AtBusy DEF SetRow, At
    <3>2. Proper([req[r] EXCEPT !.pc = "set_cache"])
      BY <3>1 DEF Records, Proper, Saving, ListWriters, Aims
    <3> QED BY <2>1, <3>1, <3>2, StepTyped
  <2> QED BY <1>3, <2>1 DEF SetRow
<1>4. CASE SetCache(r)
  BY <1>4 DEF SetCache
<1> QED BY <1>1, <1>2, <1>3, <1>4 DEF InstanceRequest

\* Every step of a request but BotFather's is a step of its record.
LEMMA RequestSteps ==
  ASSUME Types, NEW r \in Requests,
         TgRequest(r) \/ Offer(r) \/ WizardRequest(r) \/ InstanceRequest(r) \/ HangUp(r)
  PROVE  \E s \in Busy \cup {Over} : Goto(r, s)
BY ClientSteps, PoolSteps, SigningSteps, WizardSteps, InstanceSteps DEF TgRequest, Offer, HangUp

LEMMA TypesInit == Init => Types
<1> SUFFICES ASSUME Init PROVE Types
  OBVIOUS
<1>1. req \in [Requests -> Busy \cup {Idle, Over}]
  BY DEF Init
<1>2. hub \subseteq Nat /\ held \subseteq Clients /\ botlist \subseteq Nat /\ wanted \subseteq Nat
  BY DEF Init, TgInit, Client, Clients, FirstBot, Owner
<1>3. /\ draft \subseteq Nat /\ issued \subseteq Nat
      /\ newest \in [from : Nat, re : Nat, bot : Nat]
  BY DEF Init, WizardInit, Reply
<1>4. stored \in Tunings /\ cached \in Tunings
  BY DEF Init, InstanceInit, Tunings
<1> QED BY <1>1, <1>2, <1>3, <1>4 DEF Types

LEMMA TypesTg ==
  ASSUME Types, NEW r \in Requests, TgRequest(r) \/ Offer(r), UNCHANGED <<wizard, instance>>
  PROVE  Types'
<1> USE Names
<1>1. req' \in [Requests -> Busy \cup {Idle, Over}]
  BY RequestSteps, GotoTyped
<1>2. draft' = draft /\ issued' = issued /\ newest' = newest /\ stored' = stored /\ cached' = cached
  BY DEF wizard, instance
<1>3. r \in Nat
  BY DEF Requests
<1> SUFFICES /\ hub' \subseteq Nat /\ held' \subseteq Clients
             /\ botlist' \subseteq Nat /\ wanted' \subseteq Nat
  BY <1>1, <1>2 DEF Types
<1>4. CASE UNCHANGED <<hub, held, botlist, wanted>>
  BY <1>4 DEF Types
<1>5. CASE Build(r)
  <2>1. req[r].mgr \in Nat
    BY <1>5, AtBusy DEF Build, At
  <2>2. Client(req[r].mgr, r, Owner) \in Clients
    BY <1>3, <2>1 DEF Client, Clients, Owner
  <2> QED BY <1>5, <2>2 DEF Build, Types
<1>6. CASE BotInsert(r)
  <2>1. req[r].hold \subseteq Clients
    BY <1>6, AtBusy DEF BotInsert, At
  <2> QED BY <1>6, <2>1 DEF BotInsert, Types
<1>7. CASE DropBot(r)
  BY <1>7 DEF DropBot, Types
<1>8. CASE ListWrite(r)
  <2>1. At(r, "add_write") \/ At(r, "remove_write")
    BY <1>8 DEF ListWrite, ListWriters, At
  <2>2. req[r].bot \in Nat /\ req[r].list \subseteq Nat
    BY <2>1, AtBusy DEF At, Proper, ListWriters
  <2>3. hub' = hub /\ held' = held
    BY <1>8 DEF ListWrite
  <2>4. botlist' \subseteq Nat /\ wanted' \subseteq Nat
    BY <1>8, <2>2 DEF ListWrite, Types
  <2> QED BY <2>3, <2>4 DEF Types
<1>9. CASE LogoutTake(r) \/ ClaimTake(r)
  BY <1>9 DEF LogoutTake, ClaimTake, Types
<1>10. CASE LogoutClose(r) \/ ClaimClose(r)
  BY <1>10 DEF LogoutClose, ClaimClose, LetGo, Types
<1>11. CASE ClaimInsert(r)
  BY <1>3, <1>11 DEF ClaimInsert, Types
<1>12. CASE \/ Ensure(r) \/ Connect(r) \/ Use(r) \/ Done(r) \/ BotSignIn(r) \/ ListRead(r)
            \/ LogoutRow(r) \/ LogoutBotRows(r) \/ ClaimFile(r)
            \/ \E b \in botlist : RemoveBot(r, b)
            \/ Offer(r)
  BY <1>4, <1>12 DEF Ensure, Connect, Use, Done, BotSignIn, ListRead, LogoutRow, LogoutBotRows,
                     ClaimFile, RemoveBot, Offer, AddBot, account
<1> QED BY <1>5, <1>6, <1>7, <1>8, <1>9, <1>10, <1>11, <1>12 DEF TgRequest

LEMMA TypesWizard ==
  ASSUME Types, NEW r \in Requests, WizardRequest(r) \/ Answer(r), UNCHANGED instance
  PROVE  Types'
<1> USE Names
<1>1. req' \in [Requests -> Busy \cup {Idle, Over}]
  <2>1. CASE Answer(r)
    BY <2>1 DEF Answer, Types
  <2> QED BY <2>1, RequestSteps, GotoTyped
<1>2. UNCHANGED <<hub, held, botlist, wanted, stored, cached>>
  BY DEF instance, account, WizardRequest, Talk, Cancel, Browse, Ask, Hear, DraftWrite, GiveUp,
         Heard, DraftCheck, DraftClear, Answer
<1>3. r \in Nat
  BY DEF Requests
<1> SUFFICES /\ draft' \subseteq Nat /\ issued' \subseteq Nat
             /\ newest' \in [from : Nat, re : Nat, bot : Nat]
  BY <1>1, <1>2 DEF Types
<1>4. CASE Answer(r)
  <2>1. PICK b \in {0, r + 1, FirstBot} :
          newest' = Reply(r, b) /\ issued' = IF b = r + 1 THEN issued \cup {b} ELSE issued
    BY <1>4 DEF Answer
  <2> QED BY <1>3, <1>4, <2>1 DEF Answer, Reply, FirstBot, Types
<1>5. CASE Ask(r)
  BY <1>3, <1>5 DEF Ask, Said, Types
<1>6. CASE DraftWrite(r)
  <2>1. req[r].list \subseteq Nat
    BY <1>6, AtBusy DEF DraftWrite, At, Proper
  <2> QED BY <1>6, <2>1 DEF DraftWrite, Types
<1>7. CASE DraftClear(r)
  BY <1>7 DEF DraftClear, Types
<1>8. CASE \/ Talk(r) \/ Cancel(r) \/ Browse(r) \/ Hear(r) \/ GiveUp(r) \/ Heard(r)
           \/ DraftCheck(r)
  <2>1. UNCHANGED <<draft, issued, newest>>
    BY <1>8 DEF Talk, Cancel, Browse, Hear, GiveUp, Heard, DraftCheck, wizard
  <2> QED BY <2>1 DEF Types
<1> QED BY <1>4, <1>5, <1>6, <1>7, <1>8 DEF WizardRequest

LEMMA TypesInstance ==
  ASSUME Types, NEW r \in Requests, InstanceRequest(r), UNCHANGED wizard
  PROVE  Types'
<1> USE Names
<1>1. req' \in [Requests -> Busy \cup {Idle, Over}]
  BY RequestSteps, GotoTyped
<1>2. UNCHANGED <<hub, held, botlist, wanted, draft, issued, newest>>
  BY DEF wizard, account, InstanceRequest, SaveInstance, NextInstance, SetRow, SetCache
<1> SUFFICES stored' \in Tunings /\ cached' \in Tunings
  BY <1>1, <1>2 DEF Types
<1>3. CASE SetRow(r) \/ SetCache(r)
  <2>1. req[r].list \in Tunings
    BY <1>3, AtBusy DEF SetRow, SetCache, At, Proper, Saving
  <2> QED BY <1>3, <2>1 DEF SetRow, SetCache, Types
<1>4. CASE NextInstance(r) \/ \E f \in Fields, v \in BOOLEAN : SaveInstance(r, f, v)
  BY <1>4 DEF NextInstance, SaveInstance, Types
<1> QED BY <1>3, <1>4 DEF InstanceRequest

LEMMA TypesWorld ==
  ASSUME Types,
         \/ \E r \in Requests : HangUp(r)
         \/ \E c \in Live : Save(c) /\ UNCHANGED <<wizard, instance, faults>>
         \/ Restart
  PROVE  Types'
<1>1. ASSUME NEW r \in Requests, HangUp(r) PROVE Types'
  <2>1. req' \in [Requests -> Busy \cup {Idle, Over}]
    BY <1>1, RequestSteps, GotoTyped
  <2> QED BY <1>1, <2>1 DEF HangUp, account, instance, Types
<1>2. ASSUME NEW c \in Live, Save(c), UNCHANGED <<wizard, instance>> PROVE Types'
  BY <1>2 DEF Save, wizard, instance, Types
<1>3. CASE Restart
  <2>1. req' \in [Requests -> Busy \cup {Idle, Over}]
    BY <1>3 DEF Restart, CutShort
  <2>2. hub' \subseteq Nat /\ held' \subseteq Clients
    <3>1. CASE hub' = {} /\ held' = {}
      BY <3>1
    <3>2. CASE /\ hub' = {0}
               /\ \E back \in SUBSET botlist : held' = {Client(0, 0, a) : a \in back \cup {Owner}}
      BY <3>2 DEF Types, Client, Clients, Owner
    <3> QED BY <1>3, <3>1, <3>2 DEF Restart, Boot
  <2>3. UNCHANGED <<botlist, wanted, draft, issued, newest, stored>> /\ cached' = stored
    BY <1>3 DEF Restart, Boot, Hydrate
  <2> QED BY <2>1, <2>2, <2>3 DEF Types
<1> QED BY <1>1, <1>2, <1>3

LEMMA TypesStep == Types /\ [Next]_vars => Types'
<1> SUFFICES ASSUME Types, [Next]_vars PROVE Types'
  OBVIOUS
<1>1. CASE UNCHANGED vars
  BY <1>1 DEF vars, account, wizard, instance, Types
<1> QED BY <1>1, TypesTg, TypesWizard, TypesInstance, TypesWorld DEF Next

-----------------------------------------------------------------------------
(* Who is where *)

\* A step of r that neither starts nor ends at one of the awaits of P.
Apart(r, P) == req[r].pc \notin P /\ req'[r].pc \notin P

LEMMA Away ==
  ASSUME Types, NEW r \in Requests, NEW s \in Busy \cup {Over}, Goto(r, s), NEW P, Apart(r, P)
  PROVE  /\ \A q \in Requests : req[q].pc \notin P => req'[q].pc \notin P
         /\ \A q \in Requests : req'[q].pc \in P => req[q].pc \in P /\ req'[q] = req[q]
         /\ \A q \in Requests : req[q].pc \in P => req'[q] = req[q]
BY GotoTyped DEF Apart

LEMMA StepPc ==
  ASSUME Types, NEW r \in Requests, NEW p \in BusyPcs, Step(r, p), req[r].pc \in BusyPcs
  PROVE  /\ req'[r].pc = p /\ req'[r].do = req[r].do /\ req'[r].mgr = req[r].mgr
         /\ req'[r].hold = req[r].hold /\ req'[r].bot = req[r].bot
         /\ req'[r].list = req[r].list
<1>1. req[r] \in Records
  BY AtBusy
<1> QED BY <1>1 DEF Step, Goto, Records, Types

\* The other steps change one local as well.
LEMMA ListStep ==
  ASSUME Types, NEW r \in Requests, req[r].pc \in BusyPcs, NEW p, NEW l,
         Goto(r, [req[r] EXCEPT !.pc = p, !.list = l])
  PROVE  /\ req'[r].pc = p /\ req'[r].do = req[r].do /\ req'[r].mgr = req[r].mgr
         /\ req'[r].hold = req[r].hold /\ req'[r].bot = req[r].bot /\ req'[r].list = l
<1>1. req[r] \in Records
  BY AtBusy
<1> QED BY <1>1 DEF Goto, Records, Types

LEMMA HoldStep ==
  ASSUME Types, NEW r \in Requests, req[r].pc \in BusyPcs, NEW p, NEW h,
         Goto(r, [req[r] EXCEPT !.pc = p, !.hold = h])
  PROVE  /\ req'[r].pc = p /\ req'[r].do = req[r].do /\ req'[r].mgr = req[r].mgr
         /\ req'[r].hold = h /\ req'[r].bot = req[r].bot /\ req'[r].list = req[r].list
<1>1. req[r] \in Records
  BY AtBusy
<1> QED BY <1>1 DEF Goto, Records, Types

LEMMA MgrStep ==
  ASSUME Types, NEW r \in Requests, req[r].pc \in BusyPcs, NEW p, NEW m,
         Goto(r, [req[r] EXCEPT !.pc = p, !.mgr = m])
  PROVE  /\ req'[r].pc = p /\ req'[r].do = req[r].do /\ req'[r].mgr = m
         /\ req'[r].hold = req[r].hold /\ req'[r].bot = req[r].bot
         /\ req'[r].list = req[r].list
<1>1. req[r] \in Records
  BY AtBusy
<1> QED BY <1>1 DEF Goto, Records, Types

LEMMA OverPc ==
  ASSUME Types, NEW r \in Requests, Goto(r, Over)
  PROVE  req'[r].pc = "over"
BY DEF Types, Goto, Over

LEMMA ClientApart ==
  ASSUME Types, NEW r \in Requests,
         Ensure(r) \/ Build(r) \/ Connect(r) \/ Use(r) \/ Done(r)
  PROVE  Apart(r, Saving \cup ListWriters \cup Signing)
<1> USE Names DEF Apart, Saving, ListWriters, Signing, LogoutPcs, ClaimPcs
<1>1. CASE Ensure(r)
  <2>1. req[r] \in Records /\ Proper(req[r]) /\ req[r].pc = "ensure"
    BY <1>1, AtBusy DEF Ensure, At
  <2>2. req'[r].pc \in {"build", "connect", req[r].do}
    BY <1>1, <2>1 DEF Ensure, Goto, Types, Records
  <2> QED BY <2>1, <2>2 DEF Records, Aims
<1>2. CASE Build(r)
  <2>1. req[r] \in Records /\ req[r].pc = "build"
    BY <1>2, AtBusy DEF Build, At
  <2>2. req'[r].pc = "connect"
    BY <1>2, <2>1 DEF Build, Goto, Types, Records
  <2> QED BY <2>1, <2>2
<1>3. CASE Connect(r)
  <2>1. req[r] \in Records /\ req[r].pc = "connect" /\ req[r].do \in Aims
    BY <1>3, AtBusy DEF Connect, At
  <2>2. req'[r].pc \in {"over", req[r].do}
    BY <1>3, <2>1, StepPc, OverPc DEF Connect, Aims
  <2> QED BY <2>1, <2>2 DEF Aims
<1>4. CASE Use(r)
  <2>1. req[r].pc = "idle" /\ req'[r].pc \in {"ensure", "done"}
    BY <1>4 DEF Use, Arrives, At, Goto, Types
  <2> QED BY <2>1
<1>5. CASE Done(r)
  BY <1>5, OverPc DEF Done, At
<1> QED BY <1>1, <1>2, <1>3, <1>4, <1>5

LEMMA PoolApart ==
  ASSUME Types, NEW r \in Requests,
         \/ \E b \in botlist : RemoveBot(r, b)
         \/ Offer(r) \/ BotSignIn(r) \/ BotInsert(r) \/ DropBot(r)
  PROVE  Apart(r, Saving \cup ListWriters \cup Signing)
<1> USE Names DEF Apart, Saving, ListWriters, Signing, LogoutPcs, ClaimPcs
<1>1. CASE (\E b \in botlist : RemoveBot(r, b)) \/ Offer(r)
  <2>1. req[r].pc = "idle" /\ req'[r].pc \in {"bot_in", "drop_bot"}
    BY <1>1 DEF RemoveBot, Offer, AddBot, Begin, Arrives, At, Goto, Types
  <2> QED BY <2>1
<1>2. CASE BotSignIn(r)
  <2>1. req[r] \in Records /\ req[r].pc = "bot_in"
    BY <1>2, AtBusy DEF BotSignIn, At
  <2>2. req'[r].pc \in {"over", "bot_insert"}
    BY <1>2, <2>1, OverPc, HoldStep DEF BotSignIn
  <2> QED BY <2>1, <2>2
<1>3. CASE BotInsert(r)
  <2>1. req[r] \in Records /\ req[r].pc = "bot_insert"
    BY <1>3, AtBusy DEF BotInsert, At
  <2>2. req'[r].pc = "add_read"
    BY <1>3, <2>1 DEF BotInsert, Goto, Types, Records
  <2> QED BY <2>1, <2>2
<1>4. CASE DropBot(r)
  BY <1>4, StepPc DEF DropBot, At
<1> QED BY <1>1, <1>2, <1>3, <1>4

LEMMA ListApart ==
  ASSUME Types, NEW r \in Requests, ListRead(r) \/ ListWrite(r)
  PROVE  Apart(r, Saving \cup Signing)
<1> USE Names DEF Apart, Saving, Signing, LogoutPcs, ClaimPcs
<1>1. CASE ListRead(r)
  <2>1. req[r] \in Records /\ req[r].pc \in {"add_read", "remove_read"}
    BY <1>1, AtBusy DEF ListRead, At
  <2>2. req'[r].pc \in {"add_write", "remove_write"}
    BY <1>1, <2>1, ListStep DEF ListRead
  <2> QED BY <2>1, <2>2
<1>2. CASE ListWrite(r)
  <2>1. req[r].pc \in {"add_write", "remove_write"}
    BY <1>2 DEF ListWrite, ListWriters, At
  <2>2. req'[r].pc \in {"draft_check", "over"}
    BY <1>2, <2>1, StepPc, OverPc DEF ListWrite
  <2> QED BY <2>1, <2>2
<1> QED BY <1>1, <1>2

LEMMA SigningApart ==
  ASSUME Types, NEW r \in Requests,
         \/ LogoutTake(r) \/ LogoutClose(r) \/ LogoutRow(r) \/ LogoutBotRows(r)
         \/ ClaimTake(r) \/ ClaimClose(r) \/ ClaimFile(r) \/ ClaimInsert(r)
  PROVE  Apart(r, Saving \cup ListWriters)
<1> USE Names DEF Apart, Saving, ListWriters
<1>1. CASE LogoutTake(r) \/ ClaimTake(r)
  <2>1. req[r].pc = "idle" /\ req'[r].pc \in {"close", "claim_close"}
    BY <1>1 DEF LogoutTake, ClaimTake, Took, Arrives, At, Goto, Types
  <2> QED BY <2>1
<1>2. CASE LogoutClose(r) \/ ClaimClose(r)
  <2>1. req[r] \in Records /\ req[r].pc \in {"close", "claim_close"}
    BY <1>2, AtBusy DEF LogoutClose, ClaimClose, At
  <2>2. req'[r].pc \in {"row", "claim_file"}
    BY <1>2, <2>1, MgrStep DEF LogoutClose, ClaimClose, LetGo
  <2> QED BY <2>1, <2>2
<1>3. CASE LogoutRow(r) \/ ClaimFile(r)
  BY <1>3, StepPc DEF LogoutRow, ClaimFile, At
<1>4. CASE LogoutBotRows(r) \/ ClaimInsert(r)
  BY <1>4, OverPc DEF LogoutBotRows, ClaimInsert, At
<1> QED BY <1>1, <1>2, <1>3, <1>4

LEMMA WizardApart ==
  ASSUME Types, NEW r \in Requests, WizardRequest(r)
  PROVE  Apart(r, Saving \cup ListWriters \cup Signing)
<1> USE Names DEF Apart, Saving, ListWriters, Signing, LogoutPcs, ClaimPcs
<1>1. CASE Talk(r) \/ Cancel(r) \/ Browse(r)
  <2>1. req[r].pc = "idle" /\ req'[r].pc \in {"ensure", "draft_clear"}
    BY <1>1 DEF Talk, Cancel, Browse, Begin, Arrives, At, Goto, Types
  <2> QED BY <2>1
<1>2. CASE Ask(r) \/ Hear(r)
  <2>1. req[r] \in Records /\ req[r].pc \in {"talk", "cancel", "menu", "await"}
    BY <1>2, AtBusy DEF Ask, Hear, At
  <2>2. req'[r].pc \in {"await", "draft_write"}
    BY <1>2, <2>1, ListStep DEF Ask, Hear
  <2> QED BY <2>1, <2>2
<1>3. CASE DraftWrite(r) \/ GiveUp(r) \/ Heard(r)
  <2>1. req[r].pc \in {"draft_write", "await"}
    BY <1>3 DEF DraftWrite, GiveUp, Heard, At
  <2>2. req'[r].pc \in {"draft_clear", "over"}
    BY <1>3, <2>1, StepPc, OverPc DEF DraftWrite, GiveUp, Heard
  <2> QED BY <2>1, <2>2
<1>4. CASE DraftCheck(r) \/ DraftClear(r)
  <2>1. req[r] \in Records /\ req[r].pc \in {"draft_check", "draft_clear"}
    BY <1>4, AtBusy DEF DraftCheck, DraftClear, At
  <2>2. Wire(r) => req'[r].pc = "ensure"
    BY <2>1 DEF Wire, Goto, Types, Records
  <2>3. req'[r].pc \in {"draft_clear", "over", "ensure"}
    BY <1>4, <2>1, <2>2, StepPc, OverPc DEF DraftCheck, DraftClear
  <2> QED BY <2>1, <2>3
<1> QED BY <1>1, <1>2, <1>3, <1>4 DEF WizardRequest

LEMMA InstanceApart ==
  ASSUME Types, NEW r \in Requests, InstanceRequest(r)
  PROVE  Apart(r, ListWriters \cup Signing)
<1> USE Names DEF Apart, ListWriters, Signing, LogoutPcs, ClaimPcs
<1>1. CASE \E f \in Fields, v \in BOOLEAN : SaveInstance(r, f, v)
  <2>1. req[r].pc = "idle" /\ req'[r].pc = "ensure"
    BY <1>1 DEF SaveInstance, Arrives, At, Goto, Types
  <2> QED BY <2>1
<1>2. CASE NextInstance(r)
  <2>1. req[r] \in Records /\ req[r].pc = "next"
    BY <1>2, AtBusy DEF NextInstance, At
  <2>2. req'[r].pc = "set_row"
    BY <1>2, <2>1 DEF NextInstance, Goto, Types, Records
  <2> QED BY <2>1, <2>2
<1>3. CASE SetRow(r) \/ SetCache(r)
  <2>1. req[r].pc \in {"set_row", "set_cache"}
    BY <1>3 DEF SetRow, SetCache, At
  <2>2. req'[r].pc \in {"set_cache", "over"}
    BY <1>3, <2>1, StepPc, OverPc DEF SetRow, SetCache
  <2> QED BY <2>1, <2>2
<1> QED BY <1>1, <1>2, <1>3 DEF InstanceRequest

\* A store is untangled by nothing but a restart, and only the tunables then.
LEMMA TangledStays ==
  ASSUME NEW r \in Requests,
         \/ TgRequest(r) \/ Offer(r) \/ WizardRequest(r) \/ Answer(r) \/ InstanceRequest(r)
         \/ HangUp(r)
  PROVE  tangled \subseteq tangled'
<1>1. CASE TgRequest(r) \/ Offer(r)
  BY <1>1 DEF TgRequest, Ensure, Build, Connect, Use, Done, RemoveBot, DropBot, BotSignIn,
              BotInsert, ListRead, ListWrite, LogoutTake, LogoutClose, LogoutRow, LogoutBotRows,
              ClaimTake, ClaimClose, ClaimFile, ClaimInsert, Crosses, Offer, AddBot
<1>2. CASE WizardRequest(r) \/ Answer(r)
  BY <1>2 DEF WizardRequest, Talk, Cancel, Browse, Ask, Hear, DraftWrite, GiveUp, Heard,
              DraftCheck, DraftClear, Answer, Meets
<1>3. CASE InstanceRequest(r)
  BY <1>3 DEF InstanceRequest, SaveInstance, NextInstance, SetRow, SetCache
<1>4. CASE HangUp(r)
  BY <1>4 DEF HangUp
<1> QED BY <1>1, <1>2, <1>3, <1>4

LEMMA CutShortTyped ==
  ASSUME CutShort, NEW q \in Requests
  PROVE  /\ req'[q].pc \in {"idle", "over"}
         /\ ~Active(q)'
         /\ req[q].pc = "idle" <=> req'[q].pc = "idle"
BY DEF CutShort, Idle, Over, Active, At

-----------------------------------------------------------------------------
(* The tunables *)

LEMMA TunesApart ==
  ASSUME Types, Tunes, NEW r \in Requests, NEW s \in Busy \cup {Over}, Goto(r, s),
         Apart(r, Saving), UNCHANGED instance, tangled \subseteq tangled'
  PROVE  Tunes'
<1>1. /\ \A q \in Requests : req[q].pc \in Saving => req'[q] = req[q]
      /\ \A q \in Requests : req'[q].pc \in Saving => req[q].pc \in Saving /\ req'[q] = req[q]
  BY Away
<1> QED BY <1>1 DEF Tunes, At, Saving, instance

LEMMA TunesInstance ==
  ASSUME Types, Tunes, NEW r \in Requests, InstanceRequest(r)
  PROVE  Tunes'
<1>0. tangled \subseteq tangled'
  BY TangledStays
<1>1. PICK s \in Busy \cup {Over} : Goto(r, s)
  BY RequestSteps
<1>2. \A q \in Requests \ {r} : req'[q] = req[q]
  BY <1>1, GotoTyped
<1>3. CASE \E f \in Fields, v \in BOOLEAN : SaveInstance(r, f, v)
  <2>1. req[r].pc = "idle" /\ req'[r].pc = "ensure"
    BY <1>3 DEF SaveInstance, Arrives, At, Goto, Types
  <2>2. UNCHANGED instance
    BY <1>3 DEF SaveInstance, instance
  <2> QED BY <1>0, <1>1, <2>1, <2>2, TunesApart DEF Apart, Saving
<1>4. CASE NextInstance(r)
  <2>1. req[r].pc = "next" /\ req'[r].pc = "set_row"
    BY <1>4, ListStep, Names DEF NextInstance, At
  <2>2. UNCHANGED <<stored, cached>>
    BY <1>4 DEF NextInstance
  <2>3. "instance" \notin tangled' => \A q \in Requests \ {r} : req[q].pc \notin Saving
    BY <1>4 DEF NextInstance
  <2> QED BY <1>0, <1>2, <2>1, <2>2, <2>3 DEF Tunes, At, Saving
<1>5. CASE SetRow(r)
  <2>1. req[r].pc = "set_row"
    BY <1>5 DEF SetRow, At
  <2>2. CASE stored' = req[r].list /\ Step(r, "set_cache") /\ UNCHANGED <<tangled, cached>>
    <3>1. req'[r].pc = "set_cache" /\ req'[r].list = req[r].list
      BY <2>1, <2>2, StepPc, Names
    <3> QED BY <1>2, <2>1, <2>2, <3>1 DEF Tunes, At, Saving
  <2>3. CASE "instance" \in tangled'
    BY <2>3 DEF Tunes
  <2>4. CASE Goto(r, Over) /\ UNCHANGED <<stored, cached, tangled>>
    <3>1. req'[r].pc = "over"
      BY <2>4, OverPc
    <3> QED BY <1>2, <2>1, <2>4, <3>1 DEF Tunes, At, Saving
  <2> QED BY <1>5, <2>2, <2>3, <2>4 DEF SetRow
<1>6. CASE SetCache(r)
  <2>1. req[r].pc = "set_cache" /\ req'[r].pc = "over"
    BY <1>6, OverPc DEF SetCache, At
  <2>2. cached' = req[r].list /\ UNCHANGED <<stored, tangled>>
    BY <1>6 DEF SetCache
  <2> QED BY <1>2, <2>1, <2>2 DEF Tunes, At, Saving
<1> QED BY <1>3, <1>4, <1>5, <1>6 DEF InstanceRequest

LEMMA TunesWorld ==
  ASSUME Types, Tunes,
         \/ \E r \in Requests : HangUp(r)
         \/ \E c \in Live : Save(c) /\ UNCHANGED <<wizard, instance, faults>>
         \/ Restart
  PROVE  Tunes'
<1>1. ASSUME NEW r \in Requests, HangUp(r) PROVE Tunes'
  <2>1. req'[r].pc = "over" /\ \A q \in Requests \ {r} : req'[q] = req[q]
    BY <1>1, OverPc, GotoTyped DEF HangUp
  <2>2. UNCHANGED <<stored, cached>> /\ tangled \subseteq tangled'
    BY <1>1, TangledStays DEF HangUp, instance
  <2>3. req[r].pc = "set_cache" => "instance" \in tangled'
    BY <1>1 DEF HangUp, At
  <2> QED BY <2>1, <2>2, <2>3 DEF Tunes, At, Saving
<1>2. ASSUME NEW c \in Live, Save(c), UNCHANGED <<wizard, instance>> PROVE Tunes'
  <2>1. UNCHANGED <<req, tangled, stored, cached>>
    BY <1>2 DEF Save, instance
  <2> QED BY <2>1 DEF Tunes, At
<1>3. CASE Restart
  <2>1. \A q \in Requests : req'[q].pc \in {"idle", "over"}
    BY <1>3, CutShortTyped DEF Restart
  <2>2. cached' = stored'
    BY <1>3 DEF Restart, Hydrate
  <2> QED BY <2>1, <2>2 DEF Tunes, At, Saving
<1> QED BY <1>1, <1>2, <1>3

LEMMA TunesStep == Types /\ Tunes /\ [Next]_vars => Tunes'
<1> SUFFICES ASSUME Types, Tunes, [Next]_vars PROVE Tunes'
  OBVIOUS
<1>1. CASE UNCHANGED vars
  BY <1>1 DEF vars, instance, Tunes, At
<1>2. ASSUME NEW r \in Requests,
             TgRequest(r) \/ Offer(r) \/ WizardRequest(r), UNCHANGED instance
      PROVE  Tunes'
  <2>1. Apart(r, Saving)
    BY <1>2, ClientApart, PoolApart, ListApart, SigningApart, WizardApart DEF TgRequest, Apart
  <2> QED BY <1>2, <2>1, RequestSteps, TangledStays, TunesApart
<1>3. ASSUME NEW r \in Requests, Answer(r), UNCHANGED instance PROVE Tunes'
  <2>1. UNCHANGED <<req, tangled, stored, cached>>
    BY <1>3 DEF Answer, instance
  <2> QED BY <2>1 DEF Tunes, At
<1> QED BY <1>1, <1>2, <1>3, TunesInstance, TunesWorld DEF Next

-----------------------------------------------------------------------------
(* The bots *)

LEMMA ListingApart ==
  ASSUME Types, Listing, NEW r \in Requests, NEW s \in Busy \cup {Over}, Goto(r, s),
         Apart(r, ListWriters), UNCHANGED <<botlist, wanted>>, tangled \subseteq tangled'
  PROVE  Listing'
<1>1. /\ \A q \in Requests : req[q].pc \in ListWriters => req'[q] = req[q]
      /\ \A q \in Requests : req'[q].pc \in ListWriters =>
           req[q].pc \in ListWriters /\ req'[q] = req[q]
  BY Away
<1> QED BY <1>1 DEF Listing

LEMMA ListingSteps ==
  ASSUME Types, Listing, NEW r \in Requests, ListRead(r) \/ ListWrite(r)
  PROVE  Listing'
<1>1. PICK s \in Busy \cup {Over} : Goto(r, s)
  BY RequestSteps DEF TgRequest
<1>2. \A q \in Requests \ {r} : req'[q] = req[q]
  BY <1>1, GotoTyped
<1>3. CASE ListRead(r)
  <2>1. /\ req[r].pc \in {"add_read", "remove_read"}
        /\ req'[r].pc \in ListWriters /\ req'[r].list = botlist
    <3>1. req[r] \in Records /\ req[r].pc \in {"add_read", "remove_read"}
      BY <1>3, AtBusy, Names DEF ListRead, At
    <3>2. PICK p \in ListWriters : Goto(r, [req[r] EXCEPT !.pc = p, !.list = botlist])
      BY <1>3 DEF ListRead, ListWriters
    <3> QED BY <3>1, <3>2 DEF Goto, Records, Types
  <2>2. UNCHANGED <<botlist, wanted>> /\ tangled \subseteq tangled'
    BY <1>3, TangledStays DEF ListRead, account
  <2>3. "bots" \notin tangled' => \A q \in Requests \ {r} : req[q].pc \notin ListWriters
    BY <1>3 DEF ListRead
  <2> QED BY <1>2, <2>1, <2>2, <2>3 DEF Listing
<1>4. CASE ListWrite(r)
  <2>1. req[r].pc \in ListWriters /\ tangled' = tangled
    BY <1>4 DEF ListWrite, At, ListWriters
  <2>2. req'[r].pc \notin ListWriters
    <3>1. CASE Goto(r, Over)
      BY <3>1, OverPc DEF ListWriters
    <3>2. CASE Step(r, "draft_check")
      BY <2>1, <3>2, StepPc, Names DEF ListWriters
    <3> QED BY <1>4, <3>1, <3>2 DEF ListWrite
  <2>3. \/ botlist' = req[r].list \cup {req[r].bot} /\ wanted' = wanted \cup {req[r].bot}
        \/ botlist' = req[r].list \ {req[r].bot} /\ wanted' = wanted \ {req[r].bot}
        \/ UNCHANGED <<botlist, wanted>>
    BY <1>4 DEF ListWrite
  <2> QED BY <1>2, <2>1, <2>2, <2>3 DEF Listing
<1> QED BY <1>3, <1>4

LEMMA ListingStep == Types /\ Listing /\ [Next]_vars => Listing'
<1> SUFFICES ASSUME Types, Listing, [Next]_vars PROVE Listing'
  OBVIOUS
<1>1. CASE UNCHANGED vars
  BY <1>1 DEF vars, account, Listing, At
<1>2. ASSUME NEW r \in Requests, TgRequest(r) \/ Offer(r) PROVE Listing'
  <2>1. CASE ListRead(r) \/ ListWrite(r)
    BY <2>1, ListingSteps
  <2>2. CASE ~(ListRead(r) \/ ListWrite(r))
    <3>1. Apart(r, ListWriters)
      BY <1>2, <2>2, ClientApart, PoolApart, SigningApart DEF TgRequest, Apart
    <3>2. UNCHANGED <<botlist, wanted>>
      BY <1>2, <2>2 DEF TgRequest, Ensure, Build, Connect, Use, Done, RemoveBot, DropBot,
                  BotSignIn, BotInsert, LogoutTake, LogoutClose, LogoutRow, LogoutBotRows,
                  ClaimTake, ClaimClose, ClaimFile, ClaimInsert, Offer, AddBot, account
    <3> QED BY <1>2, <3>1, <3>2, RequestSteps, TangledStays, ListingApart
  <2> QED BY <2>1, <2>2
<1>3. ASSUME NEW r \in Requests, WizardRequest(r) \/ InstanceRequest(r) PROVE Listing'
  <2>1. Apart(r, ListWriters)
    BY <1>3, WizardApart, InstanceApart DEF Apart
  <2>2. UNCHANGED <<botlist, wanted>>
    BY <1>3 DEF account, WizardRequest, Talk, Cancel, Browse, Ask, Hear, DraftWrite, GiveUp,
         Heard, DraftCheck, DraftClear, InstanceRequest, SaveInstance, NextInstance, SetRow, SetCache
  <2> QED BY <1>3, <2>1, <2>2, RequestSteps, TangledStays, ListingApart
<1>4. CASE \/ \E r \in Requests : Answer(r)
           \/ \E c \in Live : Save(c) /\ UNCHANGED <<wizard, instance, faults>>
  <2>1. UNCHANGED <<req, tangled, botlist, wanted>>
    BY <1>4 DEF Answer, Save, account
  <2> QED BY <2>1 DEF Listing, At
<1>5. ASSUME NEW r \in Requests, HangUp(r) PROVE Listing'
  <2>1. req'[r].pc = "over" /\ \A q \in Requests \ {r} : req'[q] = req[q]
    BY <1>5, OverPc, GotoTyped DEF HangUp
  <2>2. UNCHANGED <<botlist, wanted>> /\ tangled \subseteq tangled'
    BY <1>5, TangledStays DEF HangUp, account
  <2> QED BY <2>1, <2>2 DEF Listing, ListWriters
<1>6. CASE Restart
  <2>1. \A q \in Requests : req'[q].pc \in {"idle", "over"}
    BY <1>6, CutShortTyped DEF Restart
  <2>2. UNCHANGED <<botlist, wanted>> /\ ("bots" \in tangled => "bots" \in tangled')
    BY <1>6 DEF Restart, Boot
  <2> QED BY <2>1, <2>2 DEF Listing, ListWriters
<1> QED BY <1>1, <1>2, <1>3, <1>4, <1>5, <1>6 DEF Next

-----------------------------------------------------------------------------
(* The managers *)

LEMMA NotOver ==
  ASSUME Types, NEW r \in Requests,
         TgRequest(r) \/ Offer(r) \/ WizardRequest(r) \/ InstanceRequest(r) \/ HangUp(r)
  PROVE  req[r].pc # "over"
<1>1. CASE TgRequest(r)
  BY <1>1 DEF TgRequest, Ensure, Build, Connect, Use, Done, RemoveBot, Begin, DropBot, BotSignIn,
              BotInsert, ListRead, ListWrite, LogoutTake, LogoutClose, LogoutRow, LogoutBotRows,
              ClaimTake, ClaimClose, ClaimFile, ClaimInsert, Arrives, At, ListWriters
<1>2. CASE Offer(r) \/ InstanceRequest(r) \/ HangUp(r)
  BY <1>2 DEF Offer, AddBot, Begin, InstanceRequest, SaveInstance, NextInstance, SetRow, SetCache,
              HangUp, Active, Arrives, At
<1>3. CASE WizardRequest(r)
  BY <1>3 DEF WizardRequest, Talk, Cancel, Browse, Begin, Ask, Hear, DraftWrite, GiveUp, Heard,
              DraftCheck, DraftClear, Arrives, At
<1> QED BY <1>1, <1>2, <1>3

MadeNext(m) == m \in Requests => req'[m].pc = "over"

LEMMA MadeStays ==
  ASSUME Types, NEW r \in Requests,
         TgRequest(r) \/ Offer(r) \/ WizardRequest(r) \/ InstanceRequest(r) \/ HangUp(r)
  PROVE  \A m : Made(m) => MadeNext(m)
<1>1. req[r].pc # "over" /\ \A q \in Requests \ {r} : req'[q] = req[q]
  BY NotOver, RequestSteps, GotoTyped
<1> QED BY <1>1 DEF Made, MadeNext, At

\* What Managers asks of one request.
Mine(q) ==
  /\ Active(q) => Made(req[q].mgr) \/ (req[q].mgr = q /\ req[q].pc \in Signing)
  /\ At(q, "bot_insert") => \A c \in req[q].hold : c.mgr = req[q].mgr
  /\ req[q].pc \in Signing => req[q].hold = {}
  /\ req[q].pc \in {"row", "bot_rows", "claim_file", "claim_insert"} => req[q].mgr = q

MineNext(q) ==
  /\ Active(q)' => MadeNext(req'[q].mgr) \/ (req'[q].mgr = q /\ req'[q].pc \in Signing)
  /\ req'[q].pc = "bot_insert" => \A c \in req'[q].hold : c.mgr = req'[q].mgr
  /\ req'[q].pc \in Signing => req'[q].hold = {}
  /\ req'[q].pc \in {"row", "bot_rows", "claim_file", "claim_insert"} => req'[q].mgr = q

LEMMA ManagersParts ==
  Managers <=> /\ \A m \in hub : Made(m)
               /\ \A c \in held : Made(c.mgr)
               /\ \A q \in Requests : Mine(q)
BY DEF Managers, Mine

LEMMA ManagersNext ==
  ASSUME \A m \in hub' : MadeNext(m), \A c \in held' : MadeNext(c.mgr),
         \A q \in Requests : MineNext(q)
  PROVE  Managers'
BY DEF Managers, MineNext, MadeNext, Made, At

\* The steps of r disturb no other request.
LEMMA OthersMine ==
  ASSUME Types, Managers, NEW r \in Requests,
         TgRequest(r) \/ Offer(r) \/ WizardRequest(r) \/ InstanceRequest(r) \/ HangUp(r)
  PROVE  \A q \in Requests \ {r} : MineNext(q)
<1> SUFFICES ASSUME NEW q \in Requests \ {r} PROVE MineNext(q)
  OBVIOUS
<1>1. req'[q] = req[q] /\ Mine(q)
  BY RequestSteps, GotoTyped, ManagersParts
<1>2. Made(req[q].mgr) => MadeNext(req'[q].mgr)
  BY <1>1, MadeStays
<1>3. Active(q)' <=> Active(q)
  BY <1>1 DEF Active, At
<1> QED BY <1>1, <1>2, <1>3 DEF Mine, MineNext, At

\* A request outside a sign-in or a sign-out keeps its manager, or gets one of the hub's.
LEMMA MineKept ==
  ASSUME Types, Managers, NEW r \in Requests, Apart(r, Signing), req'[r].pc # "bot_insert",
         TgRequest(r) \/ Offer(r) \/ WizardRequest(r) \/ InstanceRequest(r) \/ HangUp(r),
         Active(r)' => \/ req[r].pc \in BusyPcs /\ req'[r].mgr = req[r].mgr
                       \/ req'[r].mgr \in hub
  PROVE  MineNext(r)
<1>1. Active(r)' => Made(req'[r].mgr)
  <2>1. CASE req[r].pc \in BusyPcs /\ req'[r].mgr = req[r].mgr
    BY <2>1, PcKinds, ManagersParts DEF Mine, Apart
  <2>2. CASE req'[r].mgr \in hub
    BY <2>2, ManagersParts
  <2> QED BY <2>1, <2>2
<1>2. Active(r)' => MadeNext(req'[r].mgr)
  BY <1>1, MadeStays
<1> QED BY <1>2 DEF MineNext, Apart, Signing, LogoutPcs, ClaimPcs

\* Where a request that begins or goes on has its manager from.
Keeps(r) ==
  /\ req'[r].pc # "bot_insert"
  /\ Active(r)' => \/ req[r].pc \in BusyPcs /\ req'[r].mgr = req[r].mgr
                   \/ req'[r].mgr \in hub

LEMMA OverKeeps ==
  ASSUME Types, NEW r \in Requests, Goto(r, Over)
  PROVE  Keeps(r)
<1>1. req'[r].pc = "over"
  BY OverPc
<1> QED BY <1>1 DEF Keeps, Active, At

LEMMA StepKeeps ==
  ASSUME Types, NEW r \in Requests, NEW p \in BusyPcs, Step(r, p), req[r].pc \in BusyPcs,
         p # "bot_insert"
  PROVE  Keeps(r)
BY StepPc DEF Keeps

LEMMA BeginKeeps ==
  ASSUME Types, NEW r \in Requests, NEW p, NEW do, NEW b, Begin(r, p, do, b), p # "bot_insert"
  PROVE  Keeps(r)
BY DEF Begin, Goto, Types, Keeps

LEMMA ClientKeeps ==
  ASSUME Types, NEW r \in Requests,
         Ensure(r) \/ Build(r) \/ Connect(r) \/ Use(r) \/ Done(r)
  PROVE  Keeps(r)
<1> USE Names
<1>1. CASE Ensure(r)
  <2>1. req[r] \in Records /\ req[r].pc = "ensure" /\ req[r].do \in Aims
    BY <1>1, AtBusy DEF Ensure, At
  <2>2. req'[r].pc \in {"build", "connect", req[r].do} /\ req'[r].mgr = req[r].mgr
    BY <1>1, <2>1 DEF Ensure, Goto, Types, Records
  <2> QED BY <2>1, <2>2 DEF Keeps, Aims
<1>2. CASE Build(r)
  <2>1. req[r] \in Records /\ req[r].pc = "build"
    BY <1>2, AtBusy DEF Build, At
  <2>2. req'[r].pc = "connect" /\ req'[r].mgr = req[r].mgr
    BY <1>2, <2>1 DEF Build, Goto, Types, Records
  <2> QED BY <2>1, <2>2 DEF Keeps
<1>3. CASE Connect(r)
  <2>1. req[r].pc = "connect" /\ req[r].do \in Aims
    BY <1>3, AtBusy DEF Connect, At
  <2> QED BY <1>3, <2>1, StepKeeps, OverKeeps DEF Connect, Aims
<1>4. CASE Use(r)
  <2>1. req'[r].pc \in {"ensure", "done"} /\ req'[r].mgr \in hub
    BY <1>4 DEF Use, Goto, Types
  <2> QED BY <2>1 DEF Keeps
<1>5. CASE Done(r)
  BY <1>5, OverKeeps DEF Done
<1> QED BY <1>1, <1>2, <1>3, <1>4, <1>5

LEMMA PoolKeeps ==
  ASSUME Types, NEW r \in Requests,
         \/ \E b \in botlist : RemoveBot(r, b)
         \/ Offer(r) \/ BotInsert(r) \/ DropBot(r) \/ ListRead(r) \/ ListWrite(r)
  PROVE  Keeps(r)
<1> USE Names
<1>1. CASE (\E b \in botlist : RemoveBot(r, b)) \/ Offer(r)
  BY <1>1, BeginKeeps DEF RemoveBot, Offer, AddBot
<1>3. CASE BotInsert(r)
  <2>1. req[r] \in Records /\ req[r].pc = "bot_insert"
    BY <1>3, AtBusy DEF BotInsert, At
  <2>2. req'[r].pc = "add_read" /\ req'[r].mgr = req[r].mgr
    BY <1>3, <2>1 DEF BotInsert, Goto, Types, Records
  <2> QED BY <2>1, <2>2 DEF Keeps
<1>4. CASE DropBot(r)
  BY <1>4, StepKeeps DEF DropBot, At
<1>5. CASE ListRead(r)
  <2>1. req[r] \in Records /\ req[r].pc \in {"add_read", "remove_read"}
    BY <1>5, AtBusy DEF ListRead, At
  <2>2. req'[r].pc \in ListWriters /\ req'[r].mgr = req[r].mgr
    BY <1>5, <2>1, ListStep DEF ListRead, ListWriters
  <2> QED BY <2>1, <2>2 DEF Keeps, ListWriters
<1>6. CASE ListWrite(r)
  <2>1. req[r].pc \in BusyPcs
    BY <1>6 DEF ListWrite, ListWriters, At
  <2> QED BY <1>6, <2>1, StepKeeps, OverKeeps DEF ListWrite
<1> QED BY <1>1, <1>3, <1>4, <1>5, <1>6

LEMMA WizardKeeps ==
  ASSUME Types, NEW r \in Requests, WizardRequest(r)
  PROVE  Keeps(r)
<1> USE Names
<1>1. CASE Talk(r)
  <2>1. req'[r].pc = "ensure" /\ req'[r].mgr \in hub
    BY <1>1 DEF Talk, Goto, Types
  <2> QED BY <2>1 DEF Keeps
<1>2. CASE Cancel(r) \/ Browse(r)
  BY <1>2, BeginKeeps DEF Cancel, Browse
<1>3. CASE Ask(r) \/ Hear(r)
  <2>1. req[r].pc \in {"talk", "cancel", "menu", "await"}
    BY <1>3 DEF Ask, Hear, At
  <2>2. req'[r].pc \in {"await", "draft_write"} /\ req'[r].mgr = req[r].mgr
    BY <1>3, <2>1, ListStep DEF Ask, Hear
  <2> QED BY <2>1, <2>2 DEF Keeps
<1>4. CASE DraftWrite(r) \/ GiveUp(r) \/ Heard(r)
  <2>1. req[r].pc \in BusyPcs
    BY <1>4 DEF DraftWrite, GiveUp, Heard, At
  <2> QED BY <1>4, <2>1, StepKeeps, OverKeeps DEF DraftWrite, GiveUp, Heard
<1>5. CASE DraftCheck(r) \/ DraftClear(r)
  <2>1. req[r] \in Records /\ req[r].pc \in BusyPcs
    BY <1>5, AtBusy DEF DraftCheck, DraftClear, At
  <2>2. Wire(r) => req'[r].pc = "ensure" /\ req'[r].mgr = req[r].mgr
    BY <2>1 DEF Wire, Goto, Types, Records
  <2>3. Wire(r) => Keeps(r)
    BY <2>1, <2>2 DEF Keeps
  <2> QED BY <1>5, <2>1, <2>3, StepKeeps, OverKeeps DEF DraftCheck, DraftClear
<1> QED BY <1>1, <1>2, <1>3, <1>4, <1>5 DEF WizardRequest

LEMMA InstanceKeeps ==
  ASSUME Types, NEW r \in Requests, InstanceRequest(r)
  PROVE  Keeps(r)
<1> USE Names
<1>1. CASE \E f \in Fields, v \in BOOLEAN : SaveInstance(r, f, v)
  <2>1. req'[r].pc = "ensure" /\ req'[r].mgr \in hub
    BY <1>1 DEF SaveInstance, Goto, Types
  <2> QED BY <2>1 DEF Keeps
<1>2. CASE NextInstance(r)
  <2>1. req[r].pc = "next"
    BY <1>2 DEF NextInstance, At
  <2>2. req'[r].pc = "set_row" /\ req'[r].mgr = req[r].mgr
    BY <1>2, <2>1, ListStep DEF NextInstance
  <2> QED BY <2>1, <2>2 DEF Keeps
<1>3. CASE SetRow(r) \/ SetCache(r)
  <2>1. req[r].pc \in BusyPcs
    BY <1>3 DEF SetRow, SetCache, At
  <2> QED BY <1>3, <2>1, StepKeeps, OverKeeps DEF SetRow, SetCache
<1> QED BY <1>1, <1>2, <1>3 DEF InstanceRequest

\* A sign-in or a sign-out has let go of its clients, and soon of its manager.
LEMMA SigningMine ==
  ASSUME Types, Managers, NEW r \in Requests,
         \/ LogoutTake(r) \/ LogoutClose(r) \/ LogoutRow(r) \/ LogoutBotRows(r)
         \/ ClaimTake(r) \/ ClaimClose(r) \/ ClaimFile(r) \/ ClaimInsert(r)
  PROVE  MineNext(r)
<1> USE Names
<1>0. TgRequest(r) /\ Mine(r) /\ \A m \in hub : MadeNext(m)
  BY ManagersParts, MadeStays DEF TgRequest
<1>1. CASE LogoutTake(r) \/ ClaimTake(r)
  <2>1. req'[r] = Took("close", r) \/ req'[r] = Took("claim_close", r)
    BY <1>1 DEF LogoutTake, ClaimTake, Goto, Types
  <2>2. /\ req'[r].pc \in {"close", "claim_close"} /\ req'[r].hold = {}
        /\ req'[r].mgr = r \/ req'[r].mgr \in hub
    BY <2>1, TookIs
  <2> QED BY <1>0, <2>2 DEF MineNext, Signing, LogoutPcs, ClaimPcs
<1>2. CASE LogoutClose(r) \/ ClaimClose(r)
  <2>1. req[r].pc \in {"close", "claim_close"}
    BY <1>2 DEF LogoutClose, ClaimClose, At
  <2>2. /\ req'[r].pc \in {"row", "claim_file"} /\ req'[r].mgr = r
        /\ req'[r].hold = req[r].hold
    <3>1. req[r] \in Records
      BY <2>1, AtBusy
    <3>2. PICK p \in {"row", "claim_file"} : Goto(r, [req[r] EXCEPT !.pc = p, !.mgr = r])
      BY <1>2 DEF LogoutClose, ClaimClose, LetGo
    <3> QED BY <3>1, <3>2 DEF Goto, Records, Types
  <2> QED BY <1>0, <2>1, <2>2 DEF Mine, MineNext, Signing, LogoutPcs, ClaimPcs
<1>3. CASE LogoutRow(r) \/ ClaimFile(r)
  <2>1. /\ req[r].pc \in {"row", "claim_file"} /\ req'[r].pc \in {"bot_rows", "claim_insert"}
        /\ req'[r].mgr = req[r].mgr /\ req'[r].hold = req[r].hold
    BY <1>3, StepPc DEF LogoutRow, ClaimFile, At
  <2> QED BY <1>0, <2>1 DEF Mine, MineNext, Signing, LogoutPcs, ClaimPcs
<1>4. CASE LogoutBotRows(r) \/ ClaimInsert(r)
  <2>1. req'[r].pc = "over"
    BY <1>4, OverPc DEF LogoutBotRows, ClaimInsert
  <2> QED BY <2>1 DEF MineNext, Active, At, Signing, LogoutPcs, ClaimPcs
<1> QED BY <1>1, <1>2, <1>3, <1>4

LEMMA SignInMine ==
  ASSUME Types, Managers, NEW r \in Requests, BotSignIn(r)
  PROVE  MineNext(r)
<1> USE Names
<1>1. req[r] \in Records /\ req[r].pc = "bot_in"
  BY AtBusy DEF BotSignIn, At
<1> DEFINE c == Client(req[r].mgr, r, req[r].bot)
<1>2. c.mgr = req[r].mgr
  BY DEF Client
<1>3. Made(req[r].mgr)
  BY <1>1, PcKinds, ManagersParts DEF Mine, Signing, LogoutPcs, ClaimPcs
<1>4. MadeNext(req[r].mgr)
  BY <1>3, MadeStays DEF TgRequest
<1>5. CASE Goto(r, Over)
  BY <1>5, OverPc DEF MineNext, Active, At, Signing, LogoutPcs, ClaimPcs
<1>6. CASE Goto(r, [req[r] EXCEPT !.pc = "bot_insert", !.hold = {c}])
  <2>1. req'[r].pc = "bot_insert" /\ req'[r].hold = {c} /\ req'[r].mgr = req[r].mgr
    BY <1>1, <1>6 DEF Goto, Records, Types
  <2> HIDE DEF c
  <2> QED BY <1>2, <1>4, <2>1 DEF MineNext, Signing, LogoutPcs, ClaimPcs
<1> QED BY <1>5, <1>6 DEF BotSignIn

LEMMA ManagersTg ==
  ASSUME Types, Managers, NEW r \in Requests, TgRequest(r) \/ Offer(r)
  PROVE  Managers'
<1> USE Names
<1>1. \A q \in Requests \ {r} : MineNext(q)
  BY OthersMine
<1>2. MineNext(r)
  <2>1. CASE \/ LogoutTake(r) \/ LogoutClose(r) \/ LogoutRow(r) \/ LogoutBotRows(r)
             \/ ClaimTake(r) \/ ClaimClose(r) \/ ClaimFile(r) \/ ClaimInsert(r)
    BY <2>1, SigningMine
  <2>2. CASE BotSignIn(r)
    BY <2>2, SignInMine
  <2>3. CASE Ensure(r) \/ Build(r) \/ Connect(r) \/ Use(r) \/ Done(r)
    BY <2>3, ClientApart, ClientKeeps, MineKept DEF Apart, Keeps, TgRequest
  <2>4. CASE \/ \E b \in botlist : RemoveBot(r, b)
             \/ Offer(r) \/ BotInsert(r) \/ DropBot(r) \/ ListRead(r) \/ ListWrite(r)
    BY <2>4, PoolApart, ListApart, PoolKeeps, MineKept DEF Apart, Keeps, TgRequest
  <2> QED BY <2>1, <2>2, <2>3, <2>4 DEF TgRequest
<1>3. /\ \A m \in hub : MadeNext(m)
      /\ \A c \in held : MadeNext(c.mgr)
  BY ManagersParts, MadeStays
<1>4. \A m \in hub' : MadeNext(m)
  <2>1. CASE hub' \subseteq hub
    BY <1>3, <2>1
  <2>2. CASE ClaimInsert(r)
    <3>1. hub' = {r} /\ req'[r].pc = "over"
      BY <2>2, OverPc DEF ClaimInsert
    <3> QED BY <3>1 DEF MadeNext
  <2>3. CASE ~ClaimInsert(r)
    <3>1. hub' = hub \/ hub' = {}
      BY <2>3 DEF TgRequest, Ensure, Build, Connect, Use, Done, RemoveBot, DropBot, BotSignIn,
                  BotInsert, ListRead, ListWrite, LogoutTake, LogoutClose, LogoutRow,
                  LogoutBotRows, ClaimTake, ClaimClose, ClaimFile, Offer, AddBot, account
    <3> QED BY <2>1, <3>1
  <2> QED BY <2>2, <2>3
<1>5. \A c \in held' : MadeNext(c.mgr)
  <2>1. CASE held' \subseteq held
    BY <1>3, <2>1
  <2>2. CASE Build(r)
    <3>1. req[r].pc = "build"
      BY <2>2 DEF Build, At
    <3>2. MadeNext(req[r].mgr)
      BY <2>2, <3>1, PcKinds, ManagersParts, MadeStays
         DEF Mine, Signing, LogoutPcs, ClaimPcs, TgRequest
    <3>3. Client(req[r].mgr, r, Owner).mgr = req[r].mgr
      BY DEF Client
    <3> QED BY <1>3, <2>2, <3>2, <3>3 DEF Build
  <2>3. CASE BotInsert(r)
    <3>1. req[r].pc = "bot_insert"
      BY <2>3 DEF BotInsert, At
    <3>2. MadeNext(req[r].mgr) /\ \A c \in req[r].hold : c.mgr = req[r].mgr
      BY <2>3, <3>1, PcKinds, ManagersParts, MadeStays
         DEF Mine, At, Signing, LogoutPcs, ClaimPcs, TgRequest
    <3> QED BY <1>3, <2>3, <3>2 DEF BotInsert
  <2>4. CASE ~Build(r) /\ ~BotInsert(r)
    <3>1. held' \subseteq held
      BY <2>4 DEF TgRequest, Ensure, Connect, Use, Done, RemoveBot, DropBot, BotSignIn,
                  ListRead, ListWrite, LogoutTake, LogoutClose, LogoutRow, LetGo, ClaimInsert,
                  LogoutBotRows, ClaimTake, ClaimClose, ClaimFile, Offer, AddBot, account
    <3> QED BY <2>1, <3>1
  <2> QED BY <2>2, <2>3, <2>4
<1> QED BY <1>1, <1>2, <1>4, <1>5, ManagersNext

LEMMA ManagersStep == Types /\ Managers /\ [Next]_vars => Managers'
<1> SUFFICES ASSUME Types, Managers, [Next]_vars PROVE Managers'
  OBVIOUS
<1>1. CASE UNCHANGED <<req, hub, held>>
  BY <1>1 DEF Managers, Made, Active, At
<1>2. ASSUME NEW r \in Requests, WizardRequest(r) \/ InstanceRequest(r) \/ HangUp(r)
      PROVE  Managers'
  <2>1. UNCHANGED <<hub, held>>
    BY <1>2 DEF account, WizardRequest, Talk, Cancel, Browse, Ask, Hear, DraftWrite, GiveUp,
         Heard, DraftCheck, DraftClear, InstanceRequest, SaveInstance, NextInstance, SetRow,
         SetCache, HangUp
  <2>2. MineNext(r)
    <3>1. CASE HangUp(r)
      BY <3>1, OverPc DEF HangUp, MineNext, Active, At, Signing, LogoutPcs, ClaimPcs
    <3>2. CASE WizardRequest(r)
      BY <3>2, WizardApart, WizardKeeps, MineKept DEF Apart, Keeps
    <3>3. CASE InstanceRequest(r)
      BY <3>3, InstanceApart, InstanceKeeps, MineKept DEF Apart, Keeps
    <3> QED BY <1>2, <3>1, <3>2, <3>3
  <2>3. \A q \in Requests \ {r} : MineNext(q)
    BY <1>2, OthersMine
  <2>4. /\ \A m \in hub : MadeNext(m)
        /\ \A c \in held : MadeNext(c.mgr)
    BY <1>2, ManagersParts, MadeStays
  <2> QED BY <2>1, <2>2, <2>3, <2>4, ManagersNext
<1>3. CASE \/ \E r \in Requests : Answer(r)
           \/ \E c \in Live : Save(c) /\ UNCHANGED <<wizard, instance, faults>>
  BY <1>1, <1>3 DEF Answer, Save, account
<1>4. CASE Restart
  <2>1. \A q \in Requests : req'[q].pc \in {"idle", "over"} /\ ~Active(q)'
    BY <1>4, CutShortTyped DEF Restart
  <2>2. \A q \in Requests : MineNext(q)
    BY <2>1 DEF MineNext, Signing, LogoutPcs, ClaimPcs
  <2>3. \A m \in hub' : m = 0
    BY <1>4 DEF Restart, Boot
  <2>4. \A c \in held' : c.mgr = 0
    BY <1>4 DEF Restart, Boot, Client
  <2>5. 0 \notin Requests
    BY DEF Requests
  <2> QED BY <2>2, <2>3, <2>4, <2>5, ManagersNext DEF MadeNext
<1>5. CASE UNCHANGED vars
  BY <1>1, <1>5 DEF vars, account
<1> QED BY <1>2, <1>3, <1>4, <1>5, ManagersTg DEF Next

-----------------------------------------------------------------------------
(* The session *)

\* A client that writes while the account is signed out, or while its bots' rows are being
\* dropped, outlived its manager: no other client is left.
Gone == "session" \notin tangled /\ (signedOut \/ \E q \in Requests : At(q, "bot_rows"))

LEMMA OnlyOutliving ==
  ASSUME Types, Managers, SignOut, Gone, NEW c \in Live
  PROVE  Outlives(c)
<1> USE Names
<1>1. hub = {}
  BY DEF SignOut, Gone, Signing, LogoutPcs, At
<1>2. CASE \E r \in Requests : Active(r) /\ c \in req[r].hold
  <2>1. PICK r \in Requests : Active(r) /\ c \in req[r].hold
    BY <1>2
  <2>2. req[r].pc \notin Signing
    BY <2>1 DEF Managers
  <2> QED BY <1>1, <2>1, <2>2 DEF Outlives, Signing
<1>3. CASE c \in held /\ c.mgr \in Alive
  <2>1. PICK r \in Requests : Active(r) /\ c.mgr = req[r].mgr
    BY <1>1, <1>3 DEF Alive
  <2>2. Made(c.mgr)
    BY <1>3 DEF Managers
  <2>3. req[r].mgr # r
    BY <2>1, <2>2 DEF Made, Active
  <2>4. req[r].pc \notin Signing
    <3>1. CASE signedOut
      BY <2>3, <3>1 DEF SignOut, Gone
    <3>2. CASE \E q \in Requests : At(q, "bot_rows")
      <4>1. PICK q \in Requests : At(q, "bot_rows")
        BY <3>2
      <4>2. req[q].mgr = q /\ req[q].pc \in Signing
        BY <4>1 DEF Managers, At, Signing, LogoutPcs
      <4> QED BY <2>3, <4>2 DEF SignOut, Gone
    <3> QED BY <3>1, <3>2 DEF Gone
  <2> QED BY <1>1, <2>1, <2>4 DEF Outlives, Signing
<1> QED BY <1>2, <1>3 DEF Live

\* The clients that connect are not live yet.
LEMMA OnlyOutlivingRequest ==
  ASSUME Types, SignOut, Gone, NEW r \in Requests, req[r].pc \in {"connect", "bot_in"}, NEW c,
         c \in req[r].hold \/ c.mgr = req[r].mgr
  PROVE  Outlives(c)
<1> USE Names
<1>1. hub = {}
  BY DEF SignOut, Gone, Signing, LogoutPcs, At
<1>2. Active(r) /\ req[r].pc \notin LogoutPcs \cup ClaimPcs
  BY DEF Active, At, LogoutPcs, ClaimPcs
<1> QED BY <1>1, <1>2 DEF Outlives

\* What SignOut needs of a step that is not one of a sign-in or a sign-out.
LEMMA SignOutApart ==
  ASSUME Types, SignOut, tangled \subseteq tangled', UNCHANGED <<hub, signedOut>>,
         \A q \in Requests : req'[q].pc \in Signing => req'[q] = req[q],
         \/ UNCHANGED <<sessions, leftover>>
         \/ \E a : sessions' = sessions \cup {a} /\ (Gone => leftover' = leftover \cup {a})
  PROVE  SignOut'
<1> SUFFICES ASSUME "session" \notin tangled' PROVE SignOut'
  BY DEF SignOut
<1>1. "session" \notin tangled
  OBVIOUS
<1>2. /\ \A q, r \in Requests : req'[q].pc \in Signing /\ req'[r].pc \in Signing => q = r
      /\ \A r \in Requests : req'[r].pc \in Signing => hub' = {}
      /\ signedOut' => /\ hub' = {}
                       /\ \A r \in Requests : req'[r].pc \in Signing => req'[r].mgr = r
  BY <1>1 DEF SignOut
<1>3. \A r \in Requests : req'[r].pc = "claim_insert" => ~signedOut'
  BY <1>1 DEF SignOut, At, Signing, ClaimPcs
<1>4. /\ \A r \in Requests : req'[r].pc = "bot_rows" => sessions' \cap {Owner} \subseteq leftover'
      /\ signedOut' => sessions' \subseteq leftover'
  <2>0. \A r \in Requests : req'[r].pc = "bot_rows" => At(r, "bot_rows")
    BY DEF At, Signing, LogoutPcs
  <2>1. /\ \A r \in Requests : req'[r].pc = "bot_rows" => sessions \cap {Owner} \subseteq leftover
        /\ signedOut' => sessions \subseteq leftover
    BY <1>1, <2>0 DEF SignOut
  <2>2. CASE UNCHANGED <<sessions, leftover>>
    BY <2>1, <2>2
  <2>3. ASSUME NEW a, sessions' = sessions \cup {a}, Gone => leftover' = leftover \cup {a}
        PROVE  /\ \A r \in Requests :
                    req'[r].pc = "bot_rows" => sessions' \cap {Owner} \subseteq leftover'
               /\ signedOut' => sessions' \subseteq leftover'
    <3>1. (\E r \in Requests : req'[r].pc = "bot_rows") \/ signedOut' =>
            leftover' = leftover \cup {a}
      BY <1>1, <2>0, <2>3 DEF Gone
    <3> QED BY <2>1, <2>3, <3>1
  <2> QED BY <2>2, <2>3
<1> QED BY <1>2, <1>3, <1>4 DEF SignOut, At

LEMMA SignOutTake ==
  ASSUME Types, SignOut, NEW r \in Requests, LogoutTake(r) \/ ClaimTake(r)
  PROVE  SignOut'
<1> SUFFICES ASSUME "session" \notin tangled' PROVE SignOut'
  BY DEF SignOut
<1>1. /\ "session" \notin tangled
      /\ \A q \in Requests \ {r} : req[q].pc \notin Signing
  BY DEF LogoutTake, ClaimTake, Crosses, Signing
<1>2. /\ req'[r].pc \in {"close", "claim_close"}
      /\ hub = {} => req'[r].mgr = r
      /\ \A q \in Requests \ {r} : req'[q] = req[q]
  <2>1. req'[r] = Took("close", r) \/ req'[r] = Took("claim_close", r)
    BY DEF LogoutTake, ClaimTake, Goto, Types
  <2>2. \A q \in Requests \ {r} : req'[q] = req[q]
    BY DEF LogoutTake, ClaimTake, Goto, Types
  <2> QED BY <2>1, <2>2, TookIs
<1>3. hub' = {} /\ UNCHANGED <<sessions, leftover>> /\ (signedOut' => signedOut /\ hub = {})
  <2>1. signedOut => hub = {}
    BY <1>1 DEF SignOut
  <2>2. hub' = {} /\ UNCHANGED <<sessions, leftover>>
    BY DEF LogoutTake, ClaimTake
  <2>3. signedOut' => signedOut
    <3>1. CASE LogoutTake(r)
      BY <3>1, Zenon DEF LogoutTake
    <3>2. CASE ClaimTake(r)
      BY <3>2 DEF ClaimTake
    <3> QED BY <3>1, <3>2
  <2> QED BY <2>1, <2>2, <2>3
<1>4. \A q \in Requests : req'[q].pc \in Signing => q = r
  BY <1>1, <1>2
<1>5. signedOut' => sessions' \subseteq leftover' /\ req'[r].mgr = r
  BY <1>1, <1>2, <1>3 DEF SignOut
<1>6. \A q \in Requests : req'[q].pc # "bot_rows" /\ req'[q].pc # "claim_insert"
  BY <1>2, <1>4 DEF Signing, LogoutPcs, ClaimPcs
<1> QED BY <1>3, <1>4, <1>5, <1>6 DEF SignOut, At

LEMMA SignOutSteps ==
  ASSUME Types, Managers, SignOut, NEW r \in Requests,
         \/ LogoutClose(r) \/ LogoutRow(r) \/ LogoutBotRows(r)
         \/ ClaimClose(r) \/ ClaimFile(r) \/ ClaimInsert(r)
  PROVE  SignOut'
<1> USE Names
<1> SUFFICES ASSUME "session" \notin tangled' PROVE SignOut'
  BY DEF SignOut
<1>1. "session" \notin tangled
  BY TangledStays DEF TgRequest
<1>2. \A q \in Requests \ {r} : req'[q] = req[q]
  BY RequestSteps, GotoTyped DEF TgRequest
<1>3. req[r].pc \in Signing
  BY DEF LogoutClose, LogoutRow, LogoutBotRows, ClaimClose, ClaimFile, ClaimInsert, At,
         Signing, LogoutPcs, ClaimPcs
<1>4. /\ \A q \in Requests \ {r} : req[q].pc \notin Signing
      /\ \A q \in Requests \ {r} : req'[q].pc \notin Signing
      /\ hub = {}
  BY <1>1, <1>2, <1>3 DEF SignOut
<1>5. CASE LogoutClose(r) \/ ClaimClose(r)
  <2>1. req[r] \in Records
    BY <1>5, AtBusy DEF LogoutClose, ClaimClose, At
  <2>2. PICK p \in {"row", "claim_file"} : Goto(r, [req[r] EXCEPT !.pc = p, !.mgr = r])
    BY <1>5 DEF LogoutClose, ClaimClose, LetGo
  <2>3. req'[r].pc \in {"row", "claim_file"} /\ req'[r].mgr = r
    BY <2>1, <2>2 DEF Goto, Records, Types
  <2>4. UNCHANGED <<hub, sessions, signedOut, leftover>>
    BY <1>5 DEF LogoutClose, ClaimClose
  <2> QED BY <1>1, <1>4, <2>3, <2>4 DEF SignOut, At, Signing, LogoutPcs, ClaimPcs
<1>6. CASE LogoutRow(r)
  <2>1. req[r].pc = "row" /\ req'[r].pc = "bot_rows" /\ req'[r].mgr = req[r].mgr
    BY <1>6, StepPc DEF LogoutRow, At
  <2>2. /\ UNCHANGED <<hub, signedOut>>
        /\ sessions' = sessions \ {Owner} /\ leftover' = leftover \ {Owner}
    BY <1>6 DEF LogoutRow
  <2>3. signedOut => sessions \subseteq leftover /\ req[r].mgr = r
    BY <1>1, <1>3 DEF SignOut
  <2> QED BY <1>4, <2>1, <2>2, <2>3 DEF SignOut, At, Signing, LogoutPcs, ClaimPcs
<1>7. CASE LogoutBotRows(r)
  <2>1. req[r].pc = "bot_rows" /\ req'[r].pc = "over"
    BY <1>7, OverPc DEF LogoutBotRows, At
  <2>2. /\ UNCHANGED hub
        /\ \/ sessions' = sessions \cap {Owner} /\ leftover' = leftover \cap {Owner}
           \/ sessions' = sessions /\ leftover' = leftover \cup (sessions \ {Owner})
    BY <1>7 DEF LogoutBotRows
  <2>3. sessions \cap {Owner} \subseteq leftover
    BY <1>1, <2>1 DEF SignOut, At
  <2> QED BY <1>4, <2>1, <2>2, <2>3 DEF SignOut, At, Signing, LogoutPcs, ClaimPcs
<1>8. CASE ClaimFile(r)
  <2>1. req[r].pc = "claim_file" /\ req'[r].pc = "claim_insert"
    BY <1>8, StepPc DEF ClaimFile, At
  <2>2. UNCHANGED hub /\ ~signedOut'
    BY <1>8 DEF ClaimFile
  <2> QED BY <1>4, <2>1, <2>2 DEF SignOut, At, Signing, LogoutPcs, ClaimPcs
<1>9. CASE ClaimInsert(r)
  <2>1. req[r].pc = "claim_insert" /\ req'[r].pc = "over"
    BY <1>9, OverPc DEF ClaimInsert, At
  <2>2. ~signedOut'
    BY <1>1, <1>9, <2>1 DEF ClaimInsert, SignOut, At
  <2> QED BY <1>4, <2>1, <2>2 DEF SignOut, At, Signing, LogoutPcs, ClaimPcs
<1> QED BY <1>5, <1>6, <1>7, <1>8, <1>9

LEMMA SignOutTg ==
  ASSUME Types, Managers, SignOut, NEW r \in Requests, TgRequest(r) \/ Offer(r)
  PROVE  SignOut'
<1> USE Names
<1>1. CASE \/ LogoutTake(r) \/ LogoutClose(r) \/ LogoutRow(r) \/ LogoutBotRows(r)
           \/ ClaimTake(r) \/ ClaimClose(r) \/ ClaimFile(r) \/ ClaimInsert(r)
  BY <1>1, SignOutTake, SignOutSteps
<1>2. CASE ~(\/ LogoutTake(r) \/ LogoutClose(r) \/ LogoutRow(r) \/ LogoutBotRows(r)
             \/ ClaimTake(r) \/ ClaimClose(r) \/ ClaimFile(r) \/ ClaimInsert(r))
  <2>1. Apart(r, Signing)
    BY <1>2, ClientApart, PoolApart, ListApart DEF TgRequest, Apart
  <2>2. \A q \in Requests : req'[q].pc \in Signing => req'[q] = req[q]
    BY <2>1, RequestSteps, Away
  <2>3. tangled \subseteq tangled' /\ UNCHANGED <<hub, signedOut>>
    <3>1. UNCHANGED <<hub, signedOut>>
      BY <1>2 DEF TgRequest, Ensure, Build, Connect, Use, Done, RemoveBot, DropBot, BotSignIn,
                  BotInsert, ListRead, ListWrite, Offer, AddBot, account
    <3> QED BY <3>1, TangledStays
  <2>4. CASE Connect(r)
    <3>1. PICK c \in req[r].hold : \/ Write(c)
                                   \/ UNCHANGED <<sessions, leftover>>
      BY <2>4 DEF Connect
    <3>2. req[r].pc = "connect"
      BY <2>4 DEF Connect, At
    <3>3. Gone => Outlives(c)
      BY <3>2, OnlyOutlivingRequest
    <3> QED BY <2>2, <2>3, <3>1, <3>3, SignOutApart DEF Write
  <2>5. CASE BotSignIn(r)
    <3> DEFINE c == Client(req[r].mgr, r, req[r].bot)
    <3>1. Write(c) \/ UNCHANGED <<sessions, leftover>>
      BY <2>5 DEF BotSignIn
    <3>2. req[r].pc = "bot_in" /\ c.mgr = req[r].mgr
      BY <2>5 DEF BotSignIn, At, Client
    <3>3. Gone => Outlives(c)
      BY <3>2, OnlyOutlivingRequest
    <3> HIDE DEF c
    <3> QED BY <2>2, <2>3, <3>1, <3>3, SignOutApart DEF Write
  <2>6. CASE ~Connect(r) /\ ~BotSignIn(r)
    <3>1. UNCHANGED <<sessions, leftover>>
      BY <1>2, <2>6 DEF TgRequest, Ensure, Build, Use, Done, RemoveBot, DropBot,
                  BotInsert, ListRead, ListWrite, Offer, AddBot, account
    <3> QED BY <2>2, <2>3, <3>1, SignOutApart
  <2> QED BY <2>4, <2>5, <2>6
<1> QED BY <1>1, <1>2

LEMMA SignOutStep == Types /\ Managers /\ SignOut /\ [Next]_vars => SignOut'
<1> SUFFICES ASSUME Types, Managers, SignOut, [Next]_vars PROVE SignOut'
  OBVIOUS
<1>1. CASE UNCHANGED <<req, account, tangled>>
  BY <1>1 DEF SignOut, account, At
<1>2. ASSUME NEW r \in Requests, WizardRequest(r) \/ InstanceRequest(r) \/ HangUp(r)
      PROVE  SignOut'
  <2>1. UNCHANGED account
    BY <1>2 DEF WizardRequest, Talk, Cancel, Browse, Ask, Hear, DraftWrite, GiveUp, Heard,
         DraftCheck, DraftClear, InstanceRequest, SaveInstance, NextInstance, SetRow,
         SetCache, HangUp
  <2>2. tangled \subseteq tangled'
    BY <1>2, TangledStays
  <2>3. \A q \in Requests : req'[q].pc \in Signing => req'[q] = req[q]
    <3>1. CASE HangUp(r)
      <4>1. req'[r].pc = "over" /\ \A q \in Requests \ {r} : req'[q] = req[q]
        BY <1>2, <3>1, OverPc, RequestSteps, GotoTyped DEF HangUp
      <4> QED BY <4>1 DEF Signing, LogoutPcs, ClaimPcs
    <3>2. CASE WizardRequest(r) \/ InstanceRequest(r)
      <4>1. Apart(r, Signing)
        BY <3>2, WizardApart, InstanceApart DEF Apart
      <4> QED BY <3>2, <4>1, RequestSteps, Away
    <3> QED BY <1>2, <3>1, <3>2
  <2> QED BY <2>1, <2>2, <2>3, SignOutApart DEF account
<1>3. ASSUME NEW r \in Requests, Answer(r) PROVE SignOut'
  BY <1>1, <1>3 DEF Answer
<1>4. ASSUME NEW c \in Live, Save(c) PROVE SignOut'
  <2>1. UNCHANGED <<req, hub, signedOut, tangled>> /\ Write(c)
    BY <1>4 DEF Save
  <2>2. Gone => Outlives(c)
    BY OnlyOutliving
  <2> QED BY <2>1, <2>2, SignOutApart DEF Write
<1>5. CASE Restart
  <2>1. \A q \in Requests : req'[q].pc \notin Signing
    BY <1>5, CutShortTyped DEF Restart, Signing, LogoutPcs, ClaimPcs
  <2>2. "session" \notin tangled' => "session" \notin tangled
    BY <1>5 DEF Restart
  <2>3. "session" \notin tangled' /\ signedOut' => hub' = {} /\ sessions' \subseteq leftover'
    BY <1>5, <2>2 DEF Restart, Boot, SignOut
  <2> QED BY <2>1, <2>3 DEF SignOut, At, Signing, LogoutPcs, ClaimPcs
<1>6. CASE UNCHANGED vars
  BY <1>1, <1>6 DEF vars
<1> QED BY <1>2, <1>3, <1>4, <1>5, <1>6, SignOutTg DEF Next

-----------------------------------------------------------------------------
(* The wizard *)

\* The requests that stand outside the conversation, and what their steps do to them.
Elsewhere == BusyPcs \ {"await", "draft_write", "draft_clear"}

Course(r) ==
    \/ req[r].pc = "idle" /\ req'[r].pc \in Elsewhere /\ req'[r].do \in {"done", "next"}
    \/ req[r].pc \in Elsewhere /\ req'[r].pc = "over"
    \/ /\ req[r].pc \in Elsewhere /\ req'[r].pc \in Elsewhere
       /\ req'[r].do = req[r].do /\ (req[r].do = "talk" => req'[r].list = req[r].list)

LEMMA Plain ==
  Elsewhere = {"ensure", "build", "connect", "done", "talk", "cancel", "menu",
               "next", "set_row", "set_cache",
               "bot_in", "bot_insert", "add_read", "add_write", "drop_bot", "remove_read",
               "remove_write", "draft_check", "close", "row", "bot_rows", "claim_close",
               "claim_file", "claim_insert"}
BY Names DEF Elsewhere

LEMMA OverCourse ==
  ASSUME Types, NEW r \in Requests, req[r].pc \in Elsewhere, Goto(r, Over)
  PROVE  Course(r)
BY OverPc DEF Course

LEMMA StepCourse ==
  ASSUME Types, NEW r \in Requests, NEW p \in Elsewhere, Step(r, p), req[r].pc \in Elsewhere
  PROVE  Course(r)
<1>1. p \in BusyPcs /\ req[r].pc \in BusyPcs
  BY DEF Elsewhere
<1> QED BY <1>1, StepPc DEF Course

LEMMA ClientCourse ==
  ASSUME Types, NEW r \in Requests,
         Ensure(r) \/ Build(r) \/ Connect(r) \/ Use(r) \/ Done(r)
  PROVE  Course(r)
<1> USE Names, Plain
<1>1. CASE Ensure(r)
  <2>1. req[r] \in Records /\ req[r].pc = "ensure" /\ req[r].do \in Aims
    BY <1>1, AtBusy DEF Ensure, At
  <2>2. /\ req'[r].pc \in {"build", "connect", req[r].do} /\ req'[r].do = req[r].do
        /\ req'[r].list = req[r].list
    BY <1>1, <2>1 DEF Ensure, Goto, Types, Records
  <2> QED BY <2>1, <2>2 DEF Course, Aims
<1>2. CASE Build(r)
  <2>1. req[r] \in Records /\ req[r].pc = "build"
    BY <1>2, AtBusy DEF Build, At
  <2>2. req'[r].pc = "connect" /\ req'[r].do = req[r].do /\ req'[r].list = req[r].list
    BY <1>2, <2>1 DEF Build, Goto, Types, Records
  <2> QED BY <2>1, <2>2 DEF Course
<1>3. CASE Connect(r)
  <2>1. req[r].pc = "connect" /\ req[r].do \in Aims
    BY <1>3, AtBusy DEF Connect, At
  <2> QED BY <1>3, <2>1, StepCourse, OverCourse DEF Connect, Aims
<1>4. CASE Use(r)
  <2>1. req[r].pc = "idle" /\ req'[r].pc \in {"ensure", "done"} /\ req'[r].do = "done"
    BY <1>4 DEF Use, Arrives, At, Goto, Types
  <2> QED BY <2>1 DEF Course
<1>5. CASE Done(r)
  BY <1>5, OverCourse DEF Done, At
<1> QED BY <1>1, <1>2, <1>3, <1>4, <1>5

LEMMA PoolCourse ==
  ASSUME Types, NEW r \in Requests,
         \/ \E b \in botlist : RemoveBot(r, b)
         \/ Offer(r) \/ BotSignIn(r) \/ BotInsert(r) \/ DropBot(r) \/ ListRead(r) \/ ListWrite(r)
  PROVE  Course(r)
<1> USE Names, Plain
<1>1. CASE (\E b \in botlist : RemoveBot(r, b)) \/ Offer(r)
  <2>1. /\ req[r].pc = "idle" /\ req'[r].pc \in {"bot_in", "drop_bot"}
        /\ req'[r].do = "done"
    BY <1>1 DEF RemoveBot, Offer, AddBot, Begin, Arrives, At, Goto, Types
  <2> QED BY <2>1 DEF Course
<1>2. CASE BotSignIn(r)
  <2>1. req[r] \in Records /\ req[r].pc = "bot_in"
    BY <1>2, AtBusy DEF BotSignIn, At
  <2>2. CASE Goto(r, Over)
    BY <2>1, <2>2, OverCourse
  <2>3. CASE Goto(r, [req[r] EXCEPT !.pc = "bot_insert",
                                    !.hold = {Client(req[r].mgr, r, req[r].bot)}])
    <3>1. req'[r].pc = "bot_insert" /\ req'[r].do = req[r].do /\ req'[r].list = req[r].list
      BY <2>1, <2>3 DEF Goto, Types, Records
    <3> QED BY <2>1, <3>1 DEF Course
  <2> QED BY <1>2, <2>2, <2>3 DEF BotSignIn
<1>3. CASE BotInsert(r)
  <2>1. req[r] \in Records /\ req[r].pc = "bot_insert"
    BY <1>3, AtBusy DEF BotInsert, At
  <2>2. req'[r].pc = "add_read" /\ req'[r].do = req[r].do /\ req'[r].list = req[r].list
    BY <1>3, <2>1 DEF BotInsert, Goto, Types, Records
  <2> QED BY <2>1, <2>2 DEF Course
<1>4. CASE DropBot(r)
  BY <1>4, StepCourse DEF DropBot, At
<1>5. CASE ListRead(r)
  <2>1. req[r] \in Records /\ req[r].pc \in {"add_read", "remove_read"} /\ req[r].do = "done"
    BY <1>5, AtBusy DEF ListRead, At, Proper
  <2>2. PICK p \in ListWriters : Goto(r, [req[r] EXCEPT !.pc = p, !.list = botlist])
    BY <1>5 DEF ListRead, ListWriters
  <2>3. req'[r].pc = p /\ req'[r].do = req[r].do
    BY <2>1, <2>2 DEF Goto, Records, Types
  <2> QED BY <2>1, <2>3 DEF Course, ListWriters
<1>6. CASE ListWrite(r)
  <2>1. req[r].pc \in {"add_write", "remove_write"}
    BY <1>6 DEF ListWrite, ListWriters, At
  <2> QED BY <1>6, <2>1, StepCourse, OverCourse DEF ListWrite
<1> QED BY <1>1, <1>2, <1>3, <1>4, <1>5, <1>6

LEMMA SigningCourse ==
  ASSUME Types, NEW r \in Requests,
         \/ LogoutTake(r) \/ LogoutClose(r) \/ LogoutRow(r) \/ LogoutBotRows(r)
         \/ ClaimTake(r) \/ ClaimClose(r) \/ ClaimFile(r) \/ ClaimInsert(r)
  PROVE  Course(r)
<1> USE Names, Plain
<1>1. CASE LogoutTake(r) \/ ClaimTake(r)
  <2>1. req'[r] = Took("close", r) \/ req'[r] = Took("claim_close", r)
    BY <1>1 DEF LogoutTake, ClaimTake, Goto, Types
  <2>2. req'[r].pc \in {"close", "claim_close"} /\ req'[r].do = "done"
    BY <2>1, TookIs
  <2>3. req[r].pc = "idle"
    BY <1>1 DEF LogoutTake, ClaimTake, Arrives, At
  <2> QED BY <2>2, <2>3 DEF Course
<1>2. CASE LogoutClose(r) \/ ClaimClose(r)
  <2>1. req[r] \in Records /\ req[r].pc \in {"close", "claim_close"}
    BY <1>2, AtBusy DEF LogoutClose, ClaimClose, At
  <2>2. PICK p \in {"row", "claim_file"} : Goto(r, [req[r] EXCEPT !.pc = p, !.mgr = r])
    BY <1>2 DEF LogoutClose, ClaimClose, LetGo
  <2>3. req'[r].pc = p /\ req'[r].do = req[r].do /\ req'[r].list = req[r].list
    BY <2>1, <2>2 DEF Goto, Records, Types
  <2> QED BY <2>1, <2>3 DEF Course
<1>3. CASE LogoutRow(r) \/ ClaimFile(r)
  BY <1>3, StepCourse DEF LogoutRow, ClaimFile, At
<1>4. CASE LogoutBotRows(r) \/ ClaimInsert(r)
  BY <1>4, OverCourse DEF LogoutBotRows, ClaimInsert, At
<1> QED BY <1>1, <1>2, <1>3, <1>4

LEMMA InstanceCourse ==
  ASSUME Types, NEW r \in Requests, InstanceRequest(r)
  PROVE  Course(r)
<1> USE Names, Plain
<1>1. CASE \E f \in Fields, v \in BOOLEAN : SaveInstance(r, f, v)
  <2>1. req[r].pc = "idle" /\ req'[r].pc = "ensure" /\ req'[r].do = "next"
    BY <1>1 DEF SaveInstance, Arrives, At, Goto, Types
  <2> QED BY <2>1 DEF Course
<1>2. CASE NextInstance(r)
  <2>1. req[r].pc = "next" /\ req[r].do = "next"
    BY <1>2, AtBusy DEF NextInstance, At, Proper, Aims
  <2>2. req'[r].pc = "set_row" /\ req'[r].do = req[r].do
    BY <1>2, <2>1, ListStep DEF NextInstance
  <2> QED BY <2>1, <2>2 DEF Course
<1>3. CASE SetRow(r) \/ SetCache(r)
  <2>1. req[r].pc \in {"set_row", "set_cache"}
    BY <1>3 DEF SetRow, SetCache, At
  <2> QED BY <1>3, <2>1, StepCourse, OverCourse DEF SetRow, SetCache
<1> QED BY <1>1, <1>2, <1>3 DEF InstanceRequest

\* BotFather issues bot r + 1 to request r.
LEMMA Numbers ==
  \A q, r \in Requests : /\ r \in Nat /\ r + 1 \in Nat /\ (q + 1 = r + 1 => q = r)
                         /\ r # 0 /\ r + 1 # 0 /\ r + 1 # FirstBot /\ (r + 1) - 1 = r
BY AccountAssumption DEF Requests, FirstBot

\* A request that does not move: what is said to others does not concern it.
LEMMA OthersHeeded ==
  ASSUME Types, Chat, NEW q \in Requests, req'[q] = req[q],
         newest' = newest \/ newest'.re # q,
         \A w \in Asks : <<q, w>> \in due' <=> <<q, w>> \in due,
         q + 1 \in issued' <=> q + 1 \in issued,
         settled \subseteq settled'
  PROVE  Heeded(q)'
<1>1. Heeded(q) /\ "talk" \in Asks
  BY DEF Chat, Asks
<1>2. /\ At(q, "idle")' <=> At(q, "idle")
      /\ Active(q)' <=> Active(q)
      /\ Talking(q)' <=> Talking(q)
  BY DEF At, Active, Talking
<1>3. newest'.re = q => newest' = newest
  OBVIOUS
<1>4. Fresh(q) => Fresh(q)'
  BY <1>3 DEF Fresh
<1> QED BY <1>1, <1>2, <1>3, <1>4 DEF Heeded, At

\* A request that ends.
LEMMA EndHeeded ==
  ASSUME Types, Chat, NEW r \in Requests, req[r].pc # "idle", req'[r].pc = "over",
         UNCHANGED <<newest, due, issued>>, settled \subseteq settled',
         <<r, "talk">> \in due => r + 1 \in settled'
  PROVE  Heeded(r)'
<1>1. Heeded(r) /\ "talk" \in Asks
  BY DEF Chat, Asks
<1>2. ~At(r, "idle")' /\ ~Active(r)' /\ ~Talking(r)'
  BY DEF At, Active, Talking
<1> QED BY <1>1, <1>2 DEF Heeded

\* A request that ends while it is no conversation, or before it said a thing.
LEMMA NothingOwed ==
  ASSUME Types, Chat, NEW r \in Requests, req[r].pc \in BusyPcs,
         req[r].do # "talk" \/ req[r].pc \notin {"await", "draft_write"}
  PROVE  /\ <<r, "talk">> \notin due
         /\ Talking(r) => r + 1 \notin issued
<1>1. Heeded(r) /\ Active(r) /\ "talk" \in Asks
  BY PcKinds DEF Chat, Asks
<1> QED BY <1>1 DEF Heeded, Talking, Fresh

LEMMA CourseHeeded ==
  ASSUME Types, Chat, NEW r \in Requests, Course(r), UNCHANGED wizard
  PROVE  Heeded(r)'
<1>0. /\ Heeded(r) /\ "talk" \in Asks
      /\ UNCHANGED <<newest, due, draft, issued, settled>>
  BY DEF Chat, Asks, wizard
<1>1. CASE req[r].pc = "idle" /\ req'[r].pc \in Elsewhere /\ req'[r].do \in {"done", "next"}
  <2>1. Fresh(r)'
    BY <1>0, <1>1 DEF Heeded, Fresh, At
  <2>2. ~At(r, "idle")' /\ ~Talking(r)'
    BY <1>1, Plain DEF At, Talking
  <2> QED BY <1>0, <2>1, <2>2 DEF Heeded, Fresh
<1>2. CASE req[r].pc \in Elsewhere /\ req'[r].pc = "over"
  <2>1. req[r].pc \in BusyPcs /\ req[r].pc \notin {"idle", "await", "draft_write"}
    BY <1>2, Plain, Names
  <2> QED BY <1>0, <1>2, <2>1, NothingOwed, EndHeeded
<1>3. CASE /\ req[r].pc \in Elsewhere /\ req'[r].pc \in Elsewhere
           /\ req'[r].do = req[r].do /\ (req[r].do = "talk" => req'[r].list = req[r].list)
  <2>1. /\ req[r].pc \in BusyPcs /\ req'[r].pc \in BusyPcs
        /\ req[r].pc \notin {"await", "draft_write"} /\ req'[r].pc \notin {"idle", "over"}
    BY <1>3, Plain, Names
  <2>2. Active(r) /\ Active(r)' /\ ~At(r, "idle")'
    BY <2>1, PcKinds DEF Active, At
  <2>3. <<r, "talk">> \notin due'
    BY <1>0, <2>1, NothingOwed
  <2>4. Talking(r)' <=> Talking(r)
    BY <1>3, <2>2 DEF Talking
  <2>5. Talking(r) => Fresh(r)' /\ Alone(req'[r].list)
    BY <1>0, <1>3, <2>1 DEF Heeded, Fresh, Talking
  <2> QED BY <2>2, <2>3, <2>4, <2>5 DEF Heeded, Fresh
<1> QED BY <1>1, <1>2, <1>3 DEF Course

LEMMA ChatCourse ==
  ASSUME Types, Chat, NEW r \in Requests, NEW s \in Busy \cup {Over}, Goto(r, s),
         Course(r), UNCHANGED wizard
  PROVE  Chat'
<1>1. UNCHANGED <<newest, due, draft, issued, settled>>
  BY DEF wizard
<1>2. \A q \in Requests \ {r} : req'[q] = req[q]
  BY GotoTyped
<1>3. \A q \in Requests \ {r} : Heeded(q)'
  BY <1>1, <1>2, OthersHeeded
<1>4. Heeded(r)'
  BY CourseHeeded
<1> QED BY <1>1, <1>3, <1>4 DEF Chat

LEMMA DraftsCourse ==
  ASSUME Types, Chat, Drafts, NEW r \in Requests, NEW s \in Busy \cup {Over}, Goto(r, s),
         Course(r), UNCHANGED wizard, tangled \subseteq tangled'
  PROVE  Drafts'
<1> SUFFICES ASSUME "draft" \notin tangled' PROVE Drafts'
  BY DEF Drafts
<1>1. UNCHANGED <<newest, due, draft, issued, settled>> /\ "draft" \notin tangled
  BY DEF wizard
<1>2. \A q \in Requests \ {r} : req'[q] = req[q]
  BY GotoTyped
<1>3. /\ req'[r].pc \notin {"await", "draft_write", "draft_clear"}
      /\ Talking(r)' => Talking(r) /\ req[r].pc # "draft_write" /\ req'[r].list = req[r].list
      /\ InWizard(r)' => InWizard(r)
  BY Plain, Names, PcKinds DEF Course, InWizard, Talking, Active, At
<1>4. \A q \in Requests \ {r} : /\ InWizard(q)' <=> InWizard(q)
                                /\ Talking(q)' <=> Talking(q)
                                /\ \A p : At(q, p)' <=> At(q, p)
  BY <1>2 DEF InWizard, Talking, Active, At
<1>5. Talking(r) => r + 1 \notin issued
  BY Plain, Names, NothingOwed DEF Course, Talking, Active, At
<1>6. \A p, q \in Requests : InWizard(p)' /\ InWizard(q)' => p = q
  BY <1>1, <1>3, <1>4 DEF Drafts
<1>7. ASSUME NEW q \in Requests
      PROVE  /\ At(q, "draft_clear")' /\ req'[q].do = "done" => draft' = {req'[q].bot}
             /\ Talking(q)' /\ req'[q].pc # "draft_write" => req'[q].list = draft'
             /\ Talking(q)' /\ At(q, "draft_write")' /\ q + 1 \in issued' \ settled' =>
                  req'[q].list = {q + 1}
             /\ q + 1 \in issued' \ settled' => draft' = {q + 1} \/ Talking(q)'
  <2>1. CASE q = r
    BY <1>1, <1>3, <1>5, <2>1 DEF Drafts, At
  <2>2. CASE q # r
    BY <1>1, <1>2, <1>4, <2>2 DEF Drafts
  <2> QED BY <2>1, <2>2
<1> QED BY <1>6, <1>7 DEF Drafts

\* The conversation as r leaves it, when r is the only one in it.
LEMMA DraftsAlone ==
  ASSUME Drafts, NEW r \in Requests,
         \A q \in Requests \ {r} : req'[q] = req[q] /\ ~InWizard(q),
         \A q \in Requests \ {r} : q + 1 \in issued' \ settled' => draft' = {q + 1},
         At(r, "draft_clear")' /\ req'[r].do = "done" => draft' = {req'[r].bot},
         Talking(r)' /\ req'[r].pc # "draft_write" => req'[r].list = draft',
         Talking(r)' /\ req'[r].pc = "draft_write" /\ r + 1 \in issued' \ settled' =>
           req'[r].list = {r + 1},
         r + 1 \in issued' \ settled' => draft' = {r + 1} \/ Talking(r)'
  PROVE  Drafts'
<1>1. \A q \in Requests \ {r} :
        ~InWizard(q)' /\ ~Talking(q)' /\ ~At(q, "draft_clear")'
  BY DEF InWizard, Talking, Active, At
<1>2. \A p, q \in Requests : InWizard(p)' /\ InWizard(q)' => p = q
  BY <1>1
<1>3. ASSUME NEW q \in Requests
      PROVE  /\ At(q, "draft_clear")' /\ req'[q].do = "done" => draft' = {req'[q].bot}
             /\ Talking(q)' /\ req'[q].pc # "draft_write" => req'[q].list = draft'
             /\ Talking(q)' /\ At(q, "draft_write")' /\ q + 1 \in issued' \ settled' =>
                  req'[q].list = {q + 1}
             /\ q + 1 \in issued' \ settled' => draft' = {q + 1} \/ Talking(q)'
  BY <1>1 DEF At
<1> QED BY <1>2, <1>3 DEF Drafts

LEMMA Held ==
  ASSUME Drafts, "draft" \notin tangled, NEW r \in Requests,
         \A q \in Requests \ {r} : ~InWizard(q)
  PROVE  \A q \in Requests \ {r} : q + 1 \in issued \ settled => draft = {q + 1}
BY DEF Drafts, InWizard, Talking

LEMMA AloneIn ==
  ASSUME Drafts, "draft" \notin tangled, NEW r \in Requests, InWizard(r)
  PROVE  \A q \in Requests \ {r} : ~InWizard(q)
BY DEF Drafts

LEMMA TalkKeeps ==
  ASSUME Types, Chat, Drafts, NEW r \in Requests, Talk(r)
  PROVE  Chat' /\ Drafts'
<1>1. /\ req[r].pc = "idle" /\ req'[r].pc = "ensure" /\ req'[r].do = "talk"
      /\ req'[r].list = draft
      /\ \A q \in Requests \ {r} : req'[q] = req[q]
  BY DEF Talk, Arrives, At, Goto, Types
<1>2. UNCHANGED <<newest, due, draft, issued, settled>>
  BY DEF Talk, wizard
<1>3. Fresh(r) /\ Fresh(r)' /\ Alone(draft) /\ "talk" \in Asks
  BY <1>1, <1>2 DEF Chat, Heeded, Fresh, At, Asks
<1>4. Talking(r)' /\ ~At(r, "idle")'
  BY <1>1 DEF Talking, Active, At
<1>5. Heeded(r)'
  BY <1>1, <1>3, <1>4 DEF Heeded, Fresh, Talking
<1>6. Chat'
  <2>1. \A q \in Requests \ {r} : Heeded(q)'
    BY <1>1, <1>2, OthersHeeded
  <2> QED BY <1>2, <1>5, <2>1 DEF Chat
<1>7. Drafts'
  <2> SUFFICES ASSUME "draft" \notin tangled' PROVE Drafts'
    BY DEF Drafts
  <2>1. "draft" \notin tangled /\ \A q \in Requests \ {r} : ~InWizard(q)
    BY DEF Talk, Meets
  <2>2. \A q \in Requests \ {r} : q + 1 \in issued' \ settled' => draft' = {q + 1}
    BY <1>2, <2>1, Held
  <2>3. r + 1 \notin issued'
    BY <1>3 DEF Fresh
  <2> QED BY <1>1, <1>2, <2>1, <2>2, <2>3, DraftsAlone DEF At
<1> QED BY <1>6, <1>7

LEMMA EnterKeeps ==
  ASSUME Types, Chat, Drafts, NEW r \in Requests, Cancel(r) \/ Browse(r)
  PROVE  Chat' /\ Drafts'
<1>1. /\ req[r].pc = "idle" /\ req'[r].pc \in {"ensure", "draft_clear"}
      /\ req'[r].do \in {"cancel", "menu"}
      /\ \A q \in Requests \ {r} : req'[q] = req[q]
  BY DEF Cancel, Browse, Begin, Arrives, At, Goto, Types
<1>2. UNCHANGED <<newest, due, draft, issued, settled>>
  BY DEF Cancel, Browse, wizard
<1>3. Fresh(r) /\ Fresh(r)' /\ "talk" \in Asks
  BY <1>1, <1>2 DEF Chat, Heeded, Fresh, At, Asks
<1>4. ~Talking(r)' /\ ~At(r, "idle")'
  BY <1>1 DEF Talking, Active, At
<1>5. Heeded(r)'
  BY <1>3, <1>4 DEF Heeded, Fresh
<1>6. Chat'
  <2>1. \A q \in Requests \ {r} : Heeded(q)'
    BY <1>1, <1>2, OthersHeeded
  <2> QED BY <1>2, <1>5, <2>1 DEF Chat
<1>7. Drafts'
  <2> SUFFICES ASSUME "draft" \notin tangled' PROVE Drafts'
    BY DEF Drafts
  <2>1. "draft" \notin tangled /\ \A q \in Requests \ {r} : ~InWizard(q)
    BY DEF Cancel, Browse, Meets
  <2>2. \A q \in Requests \ {r} : q + 1 \in issued' \ settled' => draft' = {q + 1}
    BY <1>2, <2>1, Held
  <2>3. r + 1 \notin issued'
    BY <1>3 DEF Fresh
  <2> QED BY <1>1, <1>4, <2>1, <2>2, <2>3, DraftsAlone
<1> QED BY <1>6, <1>7

LEMMA AskKeeps ==
  ASSUME Types, Chat, Drafts, NEW r \in Requests, Ask(r)
  PROVE  Chat' /\ Drafts'
<1> DEFINE w == req[r].pc
<1>1. /\ req[r] \in Records /\ Proper(req[r]) /\ w \in {"talk", "cancel", "menu"}
      /\ req[r].do = w
  BY AtBusy, Names DEF Ask, Proper, Aims
<1>2. /\ req'[r].pc = "await" /\ req'[r].do = w
      /\ w = "talk" => req'[r].list = req[r].list
      /\ \A q \in Requests \ {r} : req'[q] = req[q]
  <2> DEFINE l == IF req[r].pc = "talk" THEN req[r].list ELSE {}
  <2>1. Goto(r, [req[r] EXCEPT !.pc = "await", !.list = l])
    BY DEF Ask, At
  <2>2. w = "talk" => l = req[r].list
    OBVIOUS
  <2> HIDE DEF l
  <2>3. /\ req'[r].pc = "await" /\ req'[r].do = req[r].do /\ req'[r].list = l
        /\ \A q \in Requests \ {r} : req'[q] = req[q]
    BY <1>1, <2>1 DEF Goto, Records, Types
  <2> QED BY <1>1, <2>2, <2>3
<1>3. /\ newest' = Said(r) /\ due' = due \cup {<<r, w>>}
      /\ UNCHANGED <<draft, issued, settled, tangled>>
  BY DEF Ask
<1>4. newest'.re = 0 /\ \A q \in Requests : newest'.re # q
  BY <1>3, Numbers DEF Said
<1>5. Active(r) /\ Active(r)' /\ ~At(r, "idle")' /\ (Talking(r)' <=> w = "talk")
      /\ (Talking(r) <=> w = "talk")
  BY <1>1, <1>2 DEF Active, At, Talking
<1>6. w \in Asks /\ "talk" \in Asks /\ Heeded(r)
  BY <1>1 DEF Asks, Chat
<1>7. w = "talk" => Fresh(r) /\ Alone(req[r].list)
  BY <1>1, <1>5, <1>6 DEF Heeded
<1>8. w # "talk" => <<r, "talk">> \notin due
  BY <1>1, <1>5, <1>6 DEF Heeded
<1>9. Heeded(r)'
  <2>1. CASE w = "talk"
    <3>1. r + 1 \notin issued' /\ \A v \in Asks : <<r, v>> \in due' => v = "talk"
      BY <1>3, <1>7, <2>1 DEF Fresh
    <3> QED BY <1>2, <1>4, <1>5, <1>7, <2>1, <3>1 DEF Heeded, At
  <2>2. CASE w # "talk"
    <3>1. <<r, "talk">> \notin due'
      BY <1>3, <1>8, <2>2
    <3> QED BY <1>5, <2>2, <3>1 DEF Heeded
  <2> QED BY <2>1, <2>2
<1>10. Chat'
  <2>1. \A q \in Requests \ {r} : \A v \in Asks : <<q, v>> \in due' <=> <<q, v>> \in due
    BY <1>3
  <2>2. \A q \in Requests \ {r} : Heeded(q)'
    BY <1>2, <1>3, <1>4, <2>1, OthersHeeded
  <2>3. due' \subseteq Requests \X Asks
    BY <1>3, <1>6 DEF Chat
  <2> QED BY <1>3, <1>9, <2>2, <2>3 DEF Chat
<1>11. Drafts'
  <2> SUFFICES ASSUME "draft" \notin tangled' PROVE Drafts'
    BY DEF Drafts
  <2>1. InWizard(r)
    BY <1>1, <1>5 DEF InWizard
  <2>2. \A q \in Requests \ {r} : ~InWizard(q)
    BY <1>3, <2>1, AloneIn
  <2>3. \A q \in Requests \ {r} : q + 1 \in issued' \ settled' => draft' = {q + 1}
    BY <1>3, <2>2, Held
  <2>4. Talking(r)' => req'[r].list = draft'
    BY <1>1, <1>2, <1>3, <1>5 DEF Drafts
  <2>5. r + 1 \in issued' \ settled' => draft' = {r + 1} \/ Talking(r)'
    BY <1>3, <1>5, <1>7 DEF Drafts, Fresh
  <2> QED BY <1>2, <2>2, <2>3, <2>4, <2>5, DraftsAlone DEF At
<1> QED BY <1>10, <1>11

LEMMA HearKeeps ==
  ASSUME Types, Chat, Drafts, NEW r \in Requests, Hear(r)
  PROVE  Chat' /\ Drafts'
<1> DEFINE kept == IF req[r].list = {} THEN {0} ELSE req[r].list
           l == IF newest.bot # 0 THEN {newest.bot} ELSE kept
<1>1. req[r] \in Records /\ req[r].pc = "await" /\ req[r].do = "talk"
  BY AtBusy, Names DEF Hear, At
<1>2. Active(r) /\ Talking(r) /\ InWizard(r) /\ Heeded(r) /\ "talk" \in Asks
  BY <1>1 DEF Active, Talking, InWizard, At, Chat, Asks
<1>3. Alone(l)
  BY <1>2 DEF Heeded, Alone
<1>4. newest.bot = r + 1 => l = {r + 1}
  BY Numbers
<1>5. Goto(r, [req[r] EXCEPT !.pc = "draft_write", !.list = l])
  BY DEF Hear
<1> HIDE DEF kept, l
<1>6. /\ req'[r].pc = "draft_write" /\ req'[r].do = "talk" /\ req'[r].list = l
      /\ \A q \in Requests \ {r} : req'[q] = req[q]
  BY <1>1, <1>5 DEF Goto, Records, Types
<1>7. /\ UNCHANGED <<newest, due, draft, issued, tangled>> /\ settled \subseteq settled'
      /\ newest.re # r => r + 1 \in settled'
  BY DEF Hear
<1>8. Active(r)' /\ Talking(r)' /\ ~At(r, "idle")'
  BY <1>6 DEF Active, Talking, At
<1>9. Heeded(r)'
  <2>1. <<r, "talk">> \in due => r + 1 \notin issued /\ newest.re # r
    BY <1>2 DEF Heeded
  <2>2. \A w \in Asks : <<r, w>> \in due => w = "talk"
    BY <1>2 DEF Heeded
  <2>3. newest.re = r /\ r + 1 \in issued => newest.bot = r + 1
    BY <1>2 DEF Heeded
  <2> QED BY <1>3, <1>6, <1>7, <1>8, <2>1, <2>2, <2>3 DEF Heeded, Talking
<1>10. Chat'
  <2>1. \A q \in Requests \ {r} : Heeded(q)'
    BY <1>6, <1>7, OthersHeeded
  <2> QED BY <1>7, <1>9, <2>1 DEF Chat
<1>11. Drafts'
  <2> SUFFICES ASSUME "draft" \notin tangled' PROVE Drafts'
    BY DEF Drafts
  <2>1. \A q \in Requests \ {r} : ~InWizard(q)
    BY <1>2, <1>7, AloneIn
  <2>2. \A q \in Requests \ {r} : q + 1 \in issued' \ settled' => draft' = {q + 1}
    BY <1>7, <2>1, Held
  <2>3. r + 1 \in issued' \ settled' => req'[r].list = {r + 1}
    BY <1>2, <1>4, <1>6, <1>7 DEF Heeded
  <2> QED BY <1>6, <1>8, <2>1, <2>2, <2>3, DraftsAlone DEF At
<1> QED BY <1>10, <1>11

\* Where a request leaves the conversation with nothing left to remember, or nothing new.
LEMMA LeaveKeeps ==
  ASSUME Types, Chat, Drafts, NEW r \in Requests, NEW s \in Busy \cup {Over}, Goto(r, s),
         req[r].pc \in BusyPcs, InWizard(r), ~Talking(r)',
         s.pc = "over" \/ (s.pc = "draft_clear" /\ s.do = "cancel"),
         UNCHANGED <<newest, issued, draft, tangled>>, settled \subseteq settled',
         due' = due \/ (~Talking(r) /\ due' = due \cup {<<r, "press">>}),
         Talking(r) => r + 1 \in settled' /\ s.pc = "over"
  PROVE  Chat' /\ Drafts'
<1>1. req'[r] = s /\ \A q \in Requests \ {r} : req'[q] = req[q]
  BY GotoTyped
<1>2. Active(r) /\ Heeded(r) /\ "talk" \in Asks /\ "press" \in Asks
  BY PcKinds DEF Chat, Asks
<1>3. <<r, "talk">> \in due' => r + 1 \in settled' /\ due' = due /\ Talking(r)
  BY <1>2 DEF Heeded, Talking
<1>4. ~At(r, "idle")' /\ (Active(r)' => s.pc = "draft_clear")
  BY <1>1 DEF At, Active
<1>5. Heeded(r)'
  <2>1. CASE <<r, "talk">> \in due'
    <3>1. Talking(r) /\ due' = due /\ r + 1 \in settled'
      BY <1>3, <2>1
    <3>2. /\ r + 1 \notin issued /\ newest.re # r
          /\ \A w \in Asks : <<r, w>> \in due => w = "talk"
      BY <1>2, <2>1, <3>1 DEF Heeded
    <3>3. ~Active(r)'
      BY <1>4, <3>1
    <3> QED BY <1>4, <3>1, <3>2, <3>3 DEF Heeded, Talking
  <2>2. CASE <<r, "talk">> \notin due'
    BY <1>4, <2>2 DEF Heeded
  <2> QED BY <2>1, <2>2
<1>6. Chat'
  <2>1. \A q \in Requests \ {r} : \A w \in Asks : <<q, w>> \in due' <=> <<q, w>> \in due
    OBVIOUS
  <2>2. \A q \in Requests \ {r} : Heeded(q)'
    BY <1>1, <2>1, OthersHeeded
  <2>3. due' \subseteq Requests \X Asks
    BY <1>2 DEF Chat
  <2> QED BY <1>5, <2>2, <2>3 DEF Chat
<1>7. Drafts'
  <2> SUFFICES ASSUME "draft" \notin tangled' PROVE Drafts'
    BY DEF Drafts
  <2>1. \A q \in Requests \ {r} : ~InWizard(q)
    BY AloneIn
  <2>2. \A q \in Requests \ {r} : q + 1 \in issued' \ settled' => draft' = {q + 1}
    BY <2>1, Held
  <2>3. r + 1 \in issued' \ settled' => draft' = {r + 1}
    BY DEF Drafts
  <2>4. ~(At(r, "draft_clear")' /\ req'[r].do = "done")
    BY <1>1 DEF At
  <2> QED BY <1>1, <2>1, <2>2, <2>3, <2>4, DraftsAlone
<1> QED BY <1>6, <1>7

LEMMA WriteKeeps ==
  ASSUME Types, Chat, Drafts, NEW r \in Requests, DraftWrite(r)
  PROVE  Chat' /\ Drafts'
<1>1. req[r].pc = "draft_write" /\ req[r].do = "talk"
  BY AtBusy, Names DEF DraftWrite, At, Proper
<1>2. Active(r) /\ Talking(r) /\ InWizard(r) /\ Heeded(r) /\ "talk" \in Asks
  BY <1>1 DEF Active, Talking, InWizard, At, Chat, Asks
<1>3. req'[r].pc = "over" /\ \A q \in Requests \ {r} : req'[q] = req[q]
  BY OverPc, GotoTyped DEF DraftWrite
<1>0. CASE UNCHANGED draft /\ settled' = settled \cup {r + 1}
  <2>1. Over \in Busy \cup {Over} /\ Over.pc = "over" /\ Goto(r, Over) /\ req[r].pc \in BusyPcs
    BY <1>1 DEF DraftWrite, Over, BusyPcs
  <2>2. UNCHANGED <<newest, due, issued, tangled>>
    BY DEF DraftWrite
  <2>3. ~Talking(r)' /\ r + 1 \in settled' /\ settled \subseteq settled'
    BY <1>0, <1>3 DEF Talking, Active, At
  <2> QED BY <1>0, <1>2, <2>1, <2>2, <2>3, LeaveKeeps
<1> SUFFICES ASSUME ~(UNCHANGED draft /\ settled' = settled \cup {r + 1})
             PROVE  Chat' /\ Drafts'
  BY <1>0
<1>4. /\ UNCHANGED <<newest, due, issued, tangled>>
      /\ draft' = req[r].list /\ settled' = settled \cup (draft \ req[r].list)
  BY DEF DraftWrite
<1>5. Heeded(r)'
  <2>1. <<r, "talk">> \in due => r + 1 \in settled'
    BY <1>1, <1>2, <1>4 DEF Heeded, At
  <2> QED BY <1>1, <1>3, <1>4, <2>1, EndHeeded
<1>6. Chat'
  <2>1. \A q \in Requests \ {r} : Heeded(q)'
    BY <1>3, <1>4, OthersHeeded
  <2>2. Alone(draft')
    BY <1>2, <1>4 DEF Heeded
  <2> QED BY <1>4, <1>5, <2>1, <2>2 DEF Chat
<1>7. Drafts'
  <2> SUFFICES ASSUME "draft" \notin tangled' PROVE Drafts'
    BY DEF Drafts
  <2>1. \A q \in Requests \ {r} : ~InWizard(q)
    BY <1>2, <1>4, AloneIn
  <2>2. ASSUME NEW q \in Requests \ {r}, q + 1 \in issued' \ settled' PROVE draft' = {q + 1}
    <3>1. draft = {q + 1}
      BY <1>4, <2>1, <2>2, Held
    <3>2. q + 1 \in req[r].list /\ Alone(req[r].list)
      BY <1>2, <1>4, <2>2, <3>1 DEF Heeded
    <3> QED BY <1>4, <3>2 DEF Alone
  <2>3. r + 1 \in issued' \ settled' => draft' = {r + 1}
    BY <1>1, <1>2, <1>4 DEF Drafts, At
  <2>4. ~Talking(r)' /\ ~At(r, "draft_clear")'
    BY <1>3 DEF Talking, Active, At
  <2> QED BY <1>3, <2>1, <2>2, <2>3, <2>4, DraftsAlone
<1> QED BY <1>6, <1>7

LEMMA AwaitKeeps ==
  ASSUME Types, Chat, Drafts, NEW r \in Requests, GiveUp(r) \/ Heard(r)
  PROVE  Chat' /\ Drafts'
<1>1. req[r] \in Records /\ req[r].pc = "await" /\ req[r].pc \in BusyPcs
  BY AtBusy, Names DEF GiveUp, Heard, At
<1>2. Active(r)
  BY <1>1 DEF Active, At
<1>3. /\ UNCHANGED <<newest, issued, draft, tangled>> /\ settled \subseteq settled'
      /\ req[r].do \in {"talk", "cancel", "menu"}
      /\ due' = due \/ (req[r].do # "talk" /\ due' = due \cup {<<r, "press">>})
      /\ req[r].do = "talk" => r + 1 \in settled' /\ Goto(r, Over)
      /\ Goto(r, Over) \/ (Step(r, "draft_clear") /\ req[r].do = "cancel")
  BY DEF GiveUp, Heard
<1>4. InWizard(r) /\ (Talking(r) <=> req[r].do = "talk")
  BY <1>2, <1>3 DEF InWizard, Talking
<1>5. CASE Goto(r, Over)
  <2>1. Over \in Busy \cup {Over} /\ Over.pc = "over"
    BY DEF Over
  <2>2. ~Talking(r)'
    BY <1>5, OverPc DEF Talking, Active, At
  <2> QED BY <1>1, <1>3, <1>4, <1>5, <2>1, <2>2, LeaveKeeps
<1>6. CASE Step(r, "draft_clear") /\ req[r].do = "cancel"
  <2>1. PICK s \in Busy \cup {Over} : Goto(r, s)
    BY RequestSteps DEF WizardRequest
  <2>2. req'[r].pc = "draft_clear" /\ req'[r].do = "cancel" /\ req'[r] = s
    BY <1>1, <1>6, <2>1, StepPc, GotoTyped, Names
  <2>3. ~Talking(r)'
    BY <2>2 DEF Talking
  <2> QED BY <1>1, <1>3, <1>4, <1>6, <2>1, <2>2, <2>3, LeaveKeeps
<1> QED BY <1>3, <1>5, <1>6

LEMMA CheckKeeps ==
  ASSUME Types, Chat, Drafts, NEW r \in Requests, DraftCheck(r)
  PROVE  Chat' /\ Drafts'
<1>1. /\ req[r] \in Records /\ req[r].pc = "draft_check" /\ req[r].pc \in BusyPcs
      /\ req[r].do = "done"
  BY AtBusy, Names DEF DraftCheck, At, Proper
<1>2. PICK s \in Busy \cup {Over} : Goto(r, s)
  BY RequestSteps DEF WizardRequest
<1>3. UNCHANGED wizard /\ tangled \subseteq tangled'
  BY DEF DraftCheck, Meets
<1>4. CASE Wire(r)
  <2>1. req'[r].pc = "ensure" /\ req'[r].do = "done"
    BY <1>1, <1>4 DEF Wire, Goto, Types, Records
  <2>2. Course(r)
    BY <1>1, <2>1, Plain DEF Course
  <2> QED BY <1>2, <1>3, <2>2, ChatCourse, DraftsCourse
<1>5. CASE draft = {req[r].bot} /\ Step(r, "draft_clear")
  <2>1. /\ req'[r].pc = "draft_clear" /\ req'[r].do = "done" /\ req'[r].bot = req[r].bot
        /\ \A q \in Requests \ {r} : req'[q] = req[q]
    BY <1>1, <1>2, <1>5, StepPc, GotoTyped, Names
  <2>2. UNCHANGED <<newest, due, draft, issued, settled>>
    BY <1>3 DEF wizard
  <2>3. /\ Active(r) /\ ~Talking(r) /\ ~Talking(r)' /\ ~At(r, "idle")'
        /\ Heeded(r) /\ "talk" \in Asks
    BY <1>1, <2>1, PcKinds DEF Talking, Active, At, Chat, Asks
  <2>4. Heeded(r)'
    <3>1. <<r, "talk">> \notin due'
      BY <1>1, <2>2, <2>3 DEF Heeded
    <3> QED BY <2>3, <3>1 DEF Heeded
  <2>5. Chat'
    <3>1. \A q \in Requests \ {r} : Heeded(q)'
      BY <2>1, <2>2, OthersHeeded
    <3> QED BY <2>2, <2>4, <3>1 DEF Chat
  <2>6. Drafts'
    <3> SUFFICES ASSUME "draft" \notin tangled' PROVE Drafts'
      BY DEF Drafts
    <3>1. "draft" \notin tangled /\ \A q \in Requests \ {r} : ~InWizard(q)
      BY DEF DraftCheck, Meets
    <3>2. \A q \in Requests \ {r} : q + 1 \in issued' \ settled' => draft' = {q + 1}
      BY <2>2, <3>1, Held
    <3>3. r + 1 \in issued' \ settled' => draft' = {r + 1}
      BY <2>2, <2>3, <3>1 DEF Drafts
    <3> QED BY <1>5, <2>1, <2>2, <2>3, <3>1, <3>2, <3>3, DraftsAlone
  <2> QED BY <2>5, <2>6
<1> QED BY <1>4, <1>5 DEF DraftCheck

LEMMA ClearKeeps ==
  ASSUME Types, Chat, Drafts, NEW r \in Requests, DraftClear(r)
  PROVE  Chat' /\ Drafts'
<1>1. /\ req[r] \in Records /\ req[r].pc = "draft_clear" /\ req[r].pc \in BusyPcs
      /\ req[r].do \in {"cancel", "done"}
  BY AtBusy, Names DEF DraftClear, At, Proper
<1>2. PICK s \in Busy \cup {Over} : Goto(r, s)
  BY RequestSteps DEF WizardRequest
<1>3. /\ UNCHANGED <<newest, due, issued, tangled>> /\ draft' = {} /\ settled \subseteq settled'
      /\ \A q \in Requests \ {r} : req'[q] = req[q]
  BY <1>2, GotoTyped DEF DraftClear
<1>4. /\ Active(r) /\ ~Talking(r) /\ InWizard(r) /\ Heeded(r) /\ "talk" \in Asks
  BY <1>1 DEF Talking, Active, InWizard, At, Chat, Asks
<1>5. /\ req'[r].pc \in {"over", "ensure"} /\ ~Talking(r)'
  <2>1. CASE Goto(r, Over)
    BY <2>1, OverPc DEF Talking, Active, At
  <2>2. CASE Wire(r) /\ req[r].do = "done"
    <3>1. req'[r].pc = "ensure" /\ req'[r].do = "done"
      BY <1>1, <2>2 DEF Wire, Goto, Types, Records
    <3> QED BY <3>1 DEF Talking
  <2> QED BY <2>1, <2>2 DEF DraftClear
<1>6. Heeded(r)'
  <2>1. <<r, "talk">> \notin due'
    BY <1>1, <1>3, <1>4 DEF Heeded
  <2>2. ~At(r, "idle")'
    BY <1>5 DEF At
  <2> QED BY <1>5, <2>1, <2>2 DEF Heeded
<1>7. Chat'
  <2>1. \A q \in Requests \ {r} : Heeded(q)'
    BY <1>3, OthersHeeded
  <2> QED BY <1>3, <1>6, <2>1 DEF Chat, Alone
<1>8. Drafts'
  <2> SUFFICES ASSUME "draft" \notin tangled' PROVE Drafts'
    BY DEF Drafts
  <2>1. \A q \in Requests \ {r} : ~InWizard(q)
    BY <1>3, <1>4, AloneIn
  <2>2. \A q \in Requests : q + 1 \notin issued' \ settled'
    <3>1. CASE req[r].do = "cancel"
      BY <1>1, <1>3, <3>1 DEF DraftClear
    <3>2. CASE req[r].do = "done"
      <4>1. draft = {req[r].bot} /\ req[r].bot \in settled'
        BY <1>1, <1>3, <3>2 DEF Drafts, DraftClear, At
      <4>2. \A q \in Requests : ~Talking(q)
        BY <1>4, <2>1 DEF InWizard, Talking
      <4>3. \A q \in Requests : q + 1 \in issued \ settled => draft = {q + 1}
        BY <1>3, <4>2 DEF Drafts
      <4> QED BY <1>3, <4>1, <4>3
    <3> QED BY <1>1, <3>1, <3>2
  <2>3. ~At(r, "draft_clear")'
    BY <1>5 DEF At
  <2> QED BY <1>3, <1>5, <2>1, <2>2, <2>3, DraftsAlone
<1> QED BY <1>7, <1>8

\* BotFather answers a request that is still there or not.
LEMMA AnswerKeeps ==
  ASSUME Types, Chat, Drafts, NEW r \in Requests, Answer(r)
  PROVE  Chat' /\ Drafts'
<1>1. PICK w \in Asks, b \in {0, r + 1, FirstBot} :
        /\ <<r, w>> \in due /\ due' = due \ {<<r, w>>}
        /\ w # "talk" => b # r + 1
        /\ newest' = Reply(r, b)
        /\ issued' = IF b = r + 1 THEN issued \cup {b} ELSE issued
  <2>1. PICK w \in Asks :
          /\ <<r, w>> \in due /\ due' = due \ {<<r, w>>}
          /\ \E b \in CASE w = "talk" -> {0, r + 1} [] w = "press" -> {FirstBot}
                        [] OTHER -> {0} :
                /\ newest' = Reply(r, b)
                /\ issued' = IF b = r + 1 THEN issued \cup {b} ELSE issued
    BY DEF Answer, Asks
  <2>2. CASE w = "talk"
    <3>1. \E b \in {0, r + 1} : /\ newest' = Reply(r, b)
                                /\ issued' = IF b = r + 1 THEN issued \cup {b} ELSE issued
      BY <2>1, <2>2
    <3> QED BY <2>1, <2>2, <3>1
  <2>3. CASE w # "talk"
    <3>1. \E b \in {0, FirstBot} : /\ newest' = Reply(r, b)
                                   /\ issued' = IF b = r + 1 THEN issued \cup {b} ELSE issued
      BY <2>1, <2>3
    <3>2. 0 # r + 1 /\ FirstBot # r + 1
      BY Numbers
    <3> QED BY <2>1, <2>3, <3>1, <3>2
  <2> QED BY <2>2, <2>3
<1>2. UNCHANGED <<req, draft, settled, tangled>>
  BY DEF Answer
<1>3. newest'.re = r /\ newest'.bot = b
  BY <1>1 DEF Reply
<1>4. Heeded(r) /\ "talk" \in Asks
  BY DEF Chat, Asks
<1>5. \A q \in Requests : q # r => (q + 1 \in issued' <=> q + 1 \in issued)
  BY <1>1, Numbers
<1>6. b = r + 1 => w = "talk"
  BY <1>1
<1>7. ~At(r, "idle") /\ ~(Talking(r) /\ req[r].pc \notin {"await", "draft_write"})
  BY <1>1, <1>4 DEF Heeded, Fresh
<1>8. /\ Active(r)' <=> Active(r)
      /\ Talking(r)' <=> Talking(r)
      /\ \A p : At(r, p)' <=> At(r, p)
  BY <1>2 DEF Talking, Active, At
<1>9. <<r, "talk">> \notin due'
  <2>1. <<r, "talk">> \in due => w = "talk"
    BY <1>1, <1>4 DEF Heeded
  <2> QED BY <1>1, <2>1
<1>10. r + 1 \in issued' => newest'.bot = r + 1 \/ ~Talking(r)
  <2>1. CASE b = r + 1
    BY <1>3, <2>1
  <2>2. CASE b # r + 1
    <3>1. Talking(r) => w = "talk"
      BY <1>1, <1>4 DEF Heeded
    <3>2. w = "talk" => r + 1 \notin issued
      BY <1>1, <1>4 DEF Heeded
    <3> QED BY <1>1, <2>2, <3>1, <3>2
  <2> QED BY <2>1, <2>2
<1>11. Heeded(r)'
  <2>1. \A v \in Asks : <<r, v>> \in due' => <<r, v>> \in due
    BY <1>1
  <2>2. Talking(r) => \A v \in Asks : <<r, v>> \in due' => v = "talk"
    BY <1>4, <2>1 DEF Heeded
  <2>3. Talking(r)' => Alone(req'[r].list)
    BY <1>2, <1>4, <1>8 DEF Heeded
  <2> QED BY <1>2, <1>7, <1>8, <1>9, <1>10, <2>2, <2>3 DEF Heeded
<1>12. Chat'
  <2>1. \A q \in Requests \ {r} : \A v \in Asks : <<q, v>> \in due' <=> <<q, v>> \in due
    BY <1>1
  <2>2. \A q \in Requests \ {r} : Heeded(q)'
    BY <1>2, <1>3, <1>5, <2>1, OthersHeeded
  <2>3. due' \subseteq Requests \X Asks
    BY <1>1 DEF Chat
  <2>4. \A x \in issued' : \E q \in Requests : x = q + 1
    BY <1>1 DEF Chat
  <2> QED BY <1>2, <1>11, <2>2, <2>3, <2>4 DEF Chat
<1>13. Drafts'
  <2> SUFFICES ASSUME "draft" \notin tangled' PROVE Drafts'
    BY DEF Drafts
  <2>0. \A q \in Requests : /\ InWizard(q)' <=> InWizard(q)
                            /\ Talking(q)' <=> Talking(q)
                            /\ \A p : At(q, p)' <=> At(q, p)
    BY <1>2 DEF InWizard, Talking, Active, At
  <2>1. b = r + 1 => r + 1 \in settled \/ (Talking(r) /\ At(r, "await"))
    BY <1>1, <1>4, <1>6 DEF Heeded
  <2>2. r + 1 \in issued' \ settled' =>
          r + 1 \in issued \ settled \/ (Talking(r) /\ At(r, "await"))
    BY <1>1, <1>2, <2>1
  <2>3. \A p, q \in Requests : InWizard(p)' /\ InWizard(q)' => p = q
    BY <1>2, <2>0 DEF Drafts
  <2>4. ASSUME NEW q \in Requests
        PROVE  /\ At(q, "draft_clear")' /\ req'[q].do = "done" => draft' = {req'[q].bot}
               /\ Talking(q)' /\ req'[q].pc # "draft_write" => req'[q].list = draft'
               /\ Talking(q)' /\ At(q, "draft_write")' /\ q + 1 \in issued' \ settled' =>
                    req'[q].list = {q + 1}
               /\ q + 1 \in issued' \ settled' => draft' = {q + 1} \/ Talking(q)'
    <3>1. CASE q = r
      BY <1>2, <2>0, <2>2, <3>1 DEF Drafts, At
    <3>2. CASE q # r
      BY <1>2, <1>5, <2>0, <3>2 DEF Drafts
    <3> QED BY <3>1, <3>2
  <2> QED BY <2>3, <2>4 DEF Drafts
<1> QED BY <1>12, <1>13

\* Handlers that are dropped have their bots settled.
LEMMA DroppedKeeps ==
  ASSUME Types, Chat, Drafts, NEW R \in SUBSET Requests,
         \A q \in Requests \ R : req'[q] = req[q],
         \A q \in R : req'[q].pc \in {"idle", "over"} /\ (req[q].pc = "idle" <=> req'[q].pc = "idle"),
         UNCHANGED <<newest, due, draft, issued>>, settled \subseteq settled',
         \A q \in R : InWizard(q) => q + 1 \in settled',
         "draft" \in tangled => "draft" \in tangled'
  PROVE  Chat' /\ Drafts'
<1>1. \A q \in Requests : Heeded(q)
  BY DEF Chat
<1>2. ASSUME NEW q \in R PROVE Heeded(q)'
  <2>1. CASE req[q].pc = "idle"
    <3>1. Fresh(q) /\ ~Talking(q)' /\ ~Active(q)' /\ "talk" \in Asks
      BY <1>1, <1>2, <2>1 DEF Heeded, At, Talking, Active, Asks
    <3> QED BY <3>1 DEF Heeded, Fresh
  <2>2. CASE req[q].pc # "idle"
    <3>1. req'[q].pc = "over"
      BY <1>2, <2>2
    <3>2. <<q, "talk">> \in due => q + 1 \in settled'
      BY <1>1, <1>2 DEF Heeded, Talking, InWizard
    <3> QED BY <1>2, <2>2, <3>1, <3>2, EndHeeded
  <2> QED BY <2>1, <2>2
<1>3. \A q \in Requests \ R : Heeded(q)'
  BY OthersHeeded
<1>4. Chat'
  BY <1>2, <1>3 DEF Chat
<1>5. Drafts'
  <2> SUFFICES ASSUME "draft" \notin tangled' PROVE Drafts'
    BY DEF Drafts
  <2>1. \A q \in R : ~InWizard(q)' /\ ~Talking(q)' /\ ~At(q, "draft_clear")'
    BY DEF InWizard, Talking, Active, At
  <2>2. \A q \in Requests \ R : /\ InWizard(q)' <=> InWizard(q)
                                /\ Talking(q)' <=> Talking(q)
                                /\ \A p : At(q, p)' <=> At(q, p)
    BY DEF InWizard, Talking, Active, At
  <2>3. \A p, q \in Requests : InWizard(p)' /\ InWizard(q)' => p = q
    BY <2>1, <2>2 DEF Drafts
  <2>4. \A q \in Requests : Talking(q) => InWizard(q)
    BY DEF Talking, InWizard
  <2>5. ASSUME NEW q \in Requests
        PROVE  /\ At(q, "draft_clear")' /\ req'[q].do = "done" => draft' = {req'[q].bot}
               /\ Talking(q)' /\ req'[q].pc # "draft_write" => req'[q].list = draft'
               /\ Talking(q)' /\ At(q, "draft_write")' /\ q + 1 \in issued' \ settled' =>
                    req'[q].list = {q + 1}
               /\ q + 1 \in issued' \ settled' => draft' = {q + 1} \/ Talking(q)'
    <3>1. CASE q \in R
      BY <2>1, <2>4, <3>1 DEF Drafts
    <3>2. CASE q \notin R
      BY <2>2, <3>2 DEF Drafts
    <3> QED BY <3>1, <3>2
  <2> QED BY <2>3, <2>5 DEF Drafts
<1> QED BY <1>4, <1>5

LEMMA ChatStep == Types /\ Chat /\ Drafts /\ [Next]_vars => Chat' /\ Drafts'
<1> SUFFICES ASSUME Types, Chat, Drafts, [Next]_vars PROVE Chat' /\ Drafts'
  OBVIOUS
<1>1. CASE UNCHANGED <<req, wizard, tangled>>
  <2>1. UNCHANGED <<newest, due, draft, issued, settled>>
    BY <1>1 DEF wizard
  <2> QED BY <1>1, <2>1 DEF Chat, Drafts, Heeded, Fresh, InWizard, Talking, Active, At
<1>2. ASSUME NEW r \in Requests, TgRequest(r) \/ Offer(r) \/ InstanceRequest(r), UNCHANGED wizard
      PROVE  Chat' /\ Drafts'
  <2>1. Course(r)
    BY <1>2, ClientCourse, PoolCourse, SigningCourse, InstanceCourse DEF TgRequest
  <2>2. tangled \subseteq tangled'
    BY <1>2, TangledStays
  <2> QED BY <1>2, <2>1, <2>2, RequestSteps, ChatCourse, DraftsCourse
<1>3. ASSUME NEW r \in Requests, WizardRequest(r) \/ Answer(r) PROVE Chat' /\ Drafts'
  BY <1>3, TalkKeeps, EnterKeeps, AskKeeps, HearKeeps, WriteKeeps, AwaitKeeps, CheckKeeps,
     ClearKeeps, AnswerKeeps DEF WizardRequest
<1>4. ASSUME NEW r \in Requests, HangUp(r) PROVE Chat' /\ Drafts'
  <2>1. /\ req'[r].pc = "over" /\ \A q \in Requests \ {r} : req'[q] = req[q]
        /\ req[r].pc # "idle"
    BY <1>4, OverPc, GotoTyped DEF HangUp, Active, At
  <2>2. /\ UNCHANGED <<newest, due, draft, issued>> /\ settled \subseteq settled'
        /\ InWizard(r) => r + 1 \in settled'
    BY <1>4 DEF HangUp
  <2>3. tangled \subseteq tangled'
    BY <1>4, TangledStays
  <2> DEFINE R == {r}
  <2>4. /\ R \in SUBSET Requests
        /\ \A q \in Requests \ R : req'[q] = req[q]
        /\ \A q \in R : /\ req'[q].pc \in {"idle", "over"}
                        /\ req[q].pc = "idle" <=> req'[q].pc = "idle"
        /\ \A q \in R : InWizard(q) => q + 1 \in settled'
    BY <2>1, <2>2
  <2> HIDE DEF R
  <2> QED BY <2>2, <2>3, <2>4, DroppedKeeps
<1>5. CASE \E c \in Live : Save(c) /\ UNCHANGED <<wizard, instance, faults>>
  BY <1>1, <1>5 DEF Save
<1>6. CASE Restart
  <2>1. \A q \in Requests : /\ req'[q].pc \in {"idle", "over"}
                            /\ req[q].pc = "idle" <=> req'[q].pc = "idle"
    BY <1>6, CutShortTyped DEF Restart
  <2>2. /\ UNCHANGED <<newest, due, draft, issued>> /\ settled \subseteq settled'
        /\ \A q \in Requests : InWizard(q) => q + 1 \in settled'
        /\ "draft" \in tangled => "draft" \in tangled'
    BY <1>6 DEF Restart
  <2> QED BY <2>1, <2>2, DroppedKeeps
<1>7. CASE UNCHANGED vars
  BY <1>1, <1>7 DEF vars
<1> QED BY <1>2, <1>3, <1>4, <1>5, <1>6, <1>7 DEF Next

-----------------------------------------------------------------------------
(* The theorems *)

LEMMA IndInit == Init => IndInv
<1> SUFFICES ASSUME Init PROVE IndInv
  OBVIOUS
<1>1. \A r \in Requests : /\ req[r].pc = "idle" /\ ~Active(r) /\ ~InWizard(r) /\ ~Talking(r)
                          /\ \A p : At(r, p) => p = "idle"
  BY DEF Init, Idle, Active, InWizard, Talking, At
<1>2. Tunes
  BY <1>1 DEF Init, InstanceInit, Tunes, Saving
<1>3. Listing
  BY <1>1 DEF Init, TgInit, Listing, ListWriters
<1>4. Managers
  <2>1. 0 \notin Requests
    BY DEF Requests
  <2>2. (\A m \in hub : m = 0) /\ (\A c \in held : c.mgr = 0)
    BY DEF Init, TgInit, Client
  <2> QED BY <1>1, <2>1, <2>2 DEF Managers, Made, Signing, LogoutPcs, ClaimPcs
<1>5. SignOut
  BY <1>1 DEF Init, TgInit, SignOut, Signing, LogoutPcs, ClaimPcs
<1>6. Chat
  <2>1. newest.re = 0 /\ due = {} /\ draft = {} /\ issued = {}
    BY DEF Init, WizardInit, Reply
  <2>2. \A r \in Requests : Fresh(r)
    BY <2>1, Numbers DEF Fresh
  <2> QED BY <1>1, <2>1, <2>2 DEF Chat, Heeded, Alone
<1>7. Drafts
  BY <1>1 DEF Init, WizardInit, Drafts
<1> QED BY TypesInit, <1>2, <1>3, <1>4, <1>5, <1>6, <1>7 DEF IndInv

LEMMA IndStep == IndInv /\ [Next]_vars => IndInv'
BY TypesStep, TunesStep, ListingStep, ManagersStep, SignOutStep, ChatStep DEF IndInv

LEMMA Inductive == Spec => []IndInv
BY IndInit, IndStep, PTL DEF Spec

\* "A cache that outlived a failed write would report a setting the next restart silently
\* undoes" (AppState::set_instance): the copy in memory is the row, between two saves.
THEOREM CacheIsRow == Spec => []InstanceAgrees
<1>1. IndInv => InstanceAgrees
  BY DEF IndInv, Tunes, InstanceAgrees
<1> QED BY <1>1, Inductive, PTL

\* The stored list of bots (settings, add_bot, remove_bot) loses none that was written to
\* it and keeps none that was removed, unless two requests changed it at once.
THEOREM NoBotLost == Spec => []BotsKept
<1>1. IndInv => BotsKept
  BY DEF IndInv, Listing, BotsKept
<1> QED BY <1>1, Inductive, PTL

\* A sign-out (Hub::logout) leaves neither a manager nor a session row behind, for any
\* requests still at work with the account and any number of restarts, but for the rows
\* that a client which outlived its manager wrote afterwards and those of the bots when
\* their deletion failed.
THEOREM SignOutIsFinal == Spec => []SignedOutStaysOut
<1>1. IndInv => SignedOutStaysOut
  BY DEF IndInv, SignOut, SignedOutStaysOut
<1> QED BY <1>1, Inductive, PTL

\* The draft (db/settings.rs) keeps a token BotFather issued until its bot joined the pool,
\* the user cancelled or a later token took its place, whenever the answer comes.
THEOREM TokenKept == Spec => []IssuedTokenKept
<1>1. IndInv => IssuedTokenKept
  <2> SUFFICES ASSUME IndInv, "draft" \notin tangled, NEW b \in issued \ settled
               PROVE  draft = {b} \/ (Active(b - 1) /\ req[b - 1].do = "talk")
    BY DEF IssuedTokenKept
  <2>1. PICK r \in Requests : b = r + 1
    BY DEF IndInv, Chat
  <2>2. draft = {r + 1} \/ Talking(r)
    BY <2>1 DEF IndInv, Drafts
  <2>3. b - 1 = r
    BY <2>1, Numbers
  <2> QED BY <2>1, <2>2, <2>3 DEF Talking
<1> QED BY <1>1, Inductive, PTL

================================================================================
