------------------------------ MODULE BotFather ------------------------------
(***************************************************************************)
(* The wizard that makes a bot by talking to @BotFather in the account's   *)
(* chat, and the draft of that conversation in the settings.  A handler    *)
(* posts a message and polls the chat for a newer one: it takes the newest *)
(* message for the reply, whoever wrote it and whatever it answers.        *)
(***************************************************************************)
EXTENDS TgAccount

VARIABLES
    newest,     \* the newest message of the chat, all a poll looks at
    due,        \* what BotFather has not answered yet
    draft,      \* the stored draft: {}, or the token it holds (0 for none yet)
    issued,     \* history: the bots issued to the wizard
    settled     \* history: issued bots the wizard need not remember any more

wizard == <<newest, due, draft, issued, settled>>

Said(r) == [from |-> r, re |-> 0, bot |-> 0]
Reply(r, b) == [from |-> 0, re |-> r, bot |-> b]
Newer(r) == newest # Said(r)          \* each request says one thing

WizardInit == newest = Reply(0, 0) /\ due = {} /\ draft = {} /\ issued = {} /\ settled = {}

(* Requests that touch the conversation or the draft. *)
InWizard(r) ==
    \/ Active(r) /\ req[r].do \in {"talk", "cancel", "menu"}
    \/ At(r, "draft_clear")
Meets(r) ==
    tangled' = IF \E q \in Requests \ {r} : InWizard(q) THEN tangled \cup {"draft"} ELSE tangled

-----------------------------------------------------------------------------
(* POST /botfather reads the draft before it asks; so does its cancelling,  *)
(* which says /cancel only if no token was issued.  The list holds the      *)
(* draft a handler read.                                                    *)
Talk(r) ==
    /\ Arrives(r)
    /\ \E m \in hub : Goto(r, [pc |-> "ensure", do |-> "talk", mgr |-> m, hold |-> {},
                               bot |-> 0, list |-> draft])
    /\ Meets(r)
    /\ UNCHANGED <<account, wizard>>

Cancel(r) ==
    /\ draft # {}
    /\ Begin(r, IF draft = {0} THEN "ensure" ELSE "draft_clear", "cancel", FirstBot)
    /\ Meets(r)
    /\ UNCHANGED <<account, wizard>>

(* GET /botfather/bots, and the walk through the same menu to a bot's token. *)
Browse(r) ==
    /\ Begin(r, "ensure", "menu", FirstBot)
    /\ Meets(r)
    /\ UNCHANGED <<account, wizard>>

Ask(r) ==
    /\ req[r].pc \in {"talk", "cancel", "menu"}
    /\ newest' = Said(r)
    /\ due' = due \cup {<<r, req[r].pc>>}
    /\ Goto(r, [req[r] EXCEPT !.pc = "await", !.list = IF At(r, "talk") THEN @ ELSE {}])
    /\ UNCHANGED <<account, tangled, draft, issued, settled>>

(* @BotFather answers once, when it likes: with a question or with a token. *)
Answer(r) ==
    /\ \E what \in {"talk", "cancel", "menu", "press"} :
          /\ <<r, what>> \in due
          /\ due' = due \ {<<r, what>>}
          /\ \E b \in CASE what = "talk" -> {0, r + 1} [] what = "press" -> {FirstBot}
                        [] OTHER -> {0} :
                /\ newest' = Reply(r, b)
                /\ issued' = IF b = r + 1 THEN issued \cup {b} ELSE issued
    /\ UNCHANGED <<account, tangled, req, draft, settled>>

(* The poll.  The token in the reply is captured; without one the draft     *)
(* keeps the token it had when it was read.                                 *)
Hear(r) ==
    /\ At(r, "await") /\ req[r].do = "talk" /\ Newer(r)
    /\ LET kept == IF req[r].list = {} THEN {0} ELSE req[r].list
       IN  Goto(r, [req[r] EXCEPT !.pc = "draft_write",
                                  !.list = IF newest.bot # 0 THEN {newest.bot} ELSE kept])
    /\ settled' = IF newest.re = r THEN settled ELSE settled \cup {r + 1}
    /\ UNCHANGED <<account, tangled, newest, due, draft, issued>>

(* The query may fail: the client sees an error and no token. *)
DraftWrite(r) ==
    /\ At(r, "draft_write")
    /\ \/ draft' = req[r].list /\ settled' = settled \cup (draft \ req[r].list)
       \/ settled' = settled \cup {r + 1} /\ UNCHANGED draft
    /\ Goto(r, Over)
    /\ UNCHANGED <<account, tangled, newest, due, issued>>

(* After 8 s the handler gives up; the answer may still come. *)
GiveUp(r) ==
    /\ At(r, "await")
    /\ \/ req[r].do = "talk" /\ settled' = settled \cup {r + 1} /\ Goto(r, Over)
       \/ req[r].do = "cancel" /\ Step(r, "draft_clear") /\ UNCHANGED settled
       \/ req[r].do = "menu" /\ Goto(r, Over) /\ UNCHANGED settled
    /\ UNCHANGED <<account, tangled, newest, due, draft, issued>>

(* The other askers only need some newer message; the walk to a token goes  *)
(* on to press a button of it, whose effect is one more message.            *)
Heard(r) ==
    /\ At(r, "await") /\ Newer(r)
    /\ \/ req[r].do = "cancel" /\ Step(r, "draft_clear") /\ UNCHANGED due
       \/ /\ req[r].do = "menu" /\ Goto(r, Over)
          /\ \/ newest.from = 0 /\ due' = due \cup {<<r, "press">>}
             \/ UNCHANGED due
    /\ UNCHANGED <<account, tangled, newest, draft, issued, settled>>

-----------------------------------------------------------------------------
(* The end of POST /bot: a draft that holds the token of the bot is dropped. *)
Wire(r) == Goto(r, [req[r] EXCEPT !.pc = "ensure", !.bot = FirstBot, !.list = {}])

DraftCheckAlways(r) ==            \* mutant: whatever token the draft holds
    /\ At(r, "draft_check")
    /\ IF draft # {} THEN Step(r, "draft_clear") ELSE Wire(r)
    /\ Meets(r)
    /\ UNCHANGED <<account, wizard>>

DraftCheck(r) ==
    /\ At(r, "draft_check")
    /\ IF draft = {req[r].bot} THEN Step(r, "draft_clear") ELSE Wire(r)
    /\ Meets(r)
    /\ UNCHANGED <<account, wizard>>

DraftClear(r) ==
    /\ At(r, "draft_clear")
    /\ draft' = {}
    /\ \/ req[r].do = "cancel" /\ settled' = settled \cup draft \cup issued /\ Goto(r, Over)
       \/ req[r].do = "done" /\ settled' = settled \cup {req[r].bot} /\ Wire(r)
    /\ UNCHANGED <<account, tangled, newest, due, issued>>

WizardRequest(r) ==
    \/ Talk(r) \/ Cancel(r) \/ Browse(r) \/ Ask(r) \/ Hear(r) \/ DraftWrite(r)
    \/ GiveUp(r) \/ Heard(r) \/ DraftCheck(r) \/ DraftClear(r)

(* A token BotFather issued to the wizard stays in the draft until its bot  *)
(* joined the pool, the user cancelled, or a later token took its place     *)
(* (db/settings.rs:138-139), unless the handler had given up by then, took  *)
(* another message for the answer, could not save it, or overlapped with    *)
(* another handler.                                                         *)
IssuedTokenKept ==
    "draft" \notin tangled =>
        \A b \in issued \ settled :
            draft = {b} \/ (Active(b - 1) /\ req[b - 1].do = "talk")
=============================================================================
