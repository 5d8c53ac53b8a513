------------------------------- MODULE Account -------------------------------
(***************************************************************************)
(* The account, the wizard and the instance settings together: the same    *)
(* requests, the same manager and client, one process.                     *)
(***************************************************************************)
EXTENDS BotFather, InstanceSettings

CONSTANT MaxFaults      \* bound on restarts of the process and hang-ups of clients

ASSUME AccountAssumption == MaxRequests \in Nat /\ MaxFaults \in Nat

VARIABLE faults

instance == <<stored, cached>>
vars == <<req, account, tangled, wizard, instance, faults>>

Init ==
    /\ req = [r \in Requests |-> Idle]
    /\ TgInit /\ WizardInit /\ InstanceInit
    /\ faults = 0

(* The bots a client can name: one whose token it has seen. *)
Offer(r) == \E b \in {FirstBot} \cup issued : AddBot(r, b)

(* hyper drops a handler whose client hangs up, at whatever await it stands. *)
HangUp(r) ==
    /\ Active(r) /\ faults < MaxFaults
    /\ faults' = faults + 1
    /\ Goto(r, Over)
    /\ settled' = IF InWizard(r) THEN settled \cup {r + 1} ELSE settled
    /\ tangled' = IF At(r, "set_cache") THEN tangled \cup {"instance"} ELSE tangled
    /\ UNCHANGED <<account, newest, due, draft, issued, instance>>

Restart ==
    /\ faults < MaxFaults
    /\ faults' = faults + 1
    /\ CutShort /\ Boot /\ Hydrate
    /\ settled' = settled \cup {r + 1 : r \in {q \in Requests : InWizard(q)}}
    /\ tangled' = tangled \ {"instance"}
    /\ UNCHANGED <<newest, due, draft, issued>>

Next ==
    \/ \E r \in Requests :
          \/ (TgRequest(r) \/ Offer(r)) /\ UNCHANGED <<wizard, instance, faults>>
          \/ (WizardRequest(r) \/ Answer(r)) /\ UNCHANGED <<instance, faults>>
          \/ InstanceRequest(r) /\ UNCHANGED <<wizard, faults>>
          \/ HangUp(r)
    \/ \E c \in Live : Save(c) /\ UNCHANGED <<wizard, instance, faults>>
    \/ Restart

Spec == Init /\ [][Next]_vars

=============================================================================
