------------------------------ MODULE LoginProofs ------------------------------
(***************************************************************************)
(* What TLAPS proves of Login, for every number of requests and of logins, *)
(* and every MAX_LOGIN_ATTEMPTS.                                           *)
(*                                                                         *)
(* Two ideas carry the proofs.  A login is its lock holder's: the guard on *)
(* Login.pending is held from the moment the flow is taken to the end of   *)
(* the claim, so what is true of a flow stays true under a request that    *)
(* waits.  And while the block holds nobody passes gate(), so the secrets  *)
(* that may still be tested are those of the requests already past it.     *)
(***************************************************************************)
EXTENDS Login, FiniteSetTheorems, TLAPS

Waiting == {"lock", "ask"}       \* past gate(), with a secret to submit
Holding == {"fail"} \union AskPCs \union ClaimPCs
Bound   == {"gate", "lock"} \union SendPCs \union Holding
PCs     == {"idle", "reserve"} \union Bound \union LogoutPCs

Types ==
  /\ failed \in 0..(MaxAttempts - 1)
  /\ login \in [Logins -> {"none", "sending", "open", "over"}]
  /\ flow \in [Logins -> {"idle", "code", "password"}]
  /\ row \in [Logins -> BOOLEAN]
  /\ lock \in [Logins -> Handlers \union {None}]
  /\ pc \in [Handlers -> PCs]
  /\ at \in [Handlers -> Logins \union {None}]
  /\ kind \in [Handlers -> {"code", "password"}]
  /\ account \in Logins \union {None}
  /\ filed \in [Logins -> Nat]
  /\ tested \in Nat /\ sent \in Nat /\ late \in Nat

\* A request is about a login from its reservation, or from its lookup, on.
Aims == \A h \in Handlers : pc[h] \in Bound <=> at[h] \in Logins

\* The guard on Login.pending lives from the taking of the flow to the answer.
Locks == \A l \in Logins, h \in Handlers :
           lock[l] = h <=> pc[h] \in Holding /\ at[h] = l

\* A login whose code is being sent is known to that request only.
Sends ==
  /\ \A h \in Handlers : pc[h] \in SendPCs => login[at[h]] = "sending"
  /\ \A l \in Logins : login[l] \in {"none", "sending"} =>
       /\ flow[l] = "idle" /\ filed[l] = 0
       /\ \A h \in Handlers : at[h] = l => pc[h] \in SendPCs
  /\ \A h, k \in Handlers :
       pc[h] \in SendPCs /\ pc[k] \in SendPCs /\ at[h] = at[k] => h = k

\* The flow of a filed login is spent, and so is that of a login being claimed.
Claims ==
  /\ \A l \in Logins : filed[l] <= 1 /\ (filed[l] # 0 => flow[l] = "idle")
  /\ \A h \in Handlers :
       /\ pc[h] \in AskPCs \union ClaimPCs => flow[at[h]] = "idle"
       /\ pc[h] \in Holding \ {"fail", "clear", "insert"} => filed[at[h]] = 0

\* A login that is over and still has its row has somebody to delete it.
Rows ==
  \A l \in Logins : login[l] = "over" /\ row[l] =>
    \/ l \in pruning \union orphaned
    \/ \E h \in Handlers :
         at[h] = l /\ pc[h] \in {"success", "detach", "read", "file", "clear"}

\* What a logout and a claim leave to each other.
Agreed ==
  /\ ~crossed =>
       /\ \A h \in Handlers : pc[h] \in LogoutPCs => ~manager
       /\ \A h \in Handlers : pc[h] \in {"clear", "insert"} => account # None
       /\ manager => account # None
  /\ ~crossed /\ ~unfiled /\ ~revived /\ account # None =>
       manager \/ \E h \in Handlers :
                    pc[h] \in {"read", "file", "clear", "insert"} \union LogoutPCs

Those(X) == {h \in Handlers : pc[h] \in X}

\* A booked send is asked for once, and a cooldown has one booking: what was asked and
\* what is about to be is that booking, and those left over from earlier cooldowns.
Window == sent + Cardinality(Those({"send"})) <= late + (IF cooling THEN 1 ELSE 0)

\* Every secret refused since the counter was forgiven is in the counter or about
\* to be; once the block fell, only who waits past the gate can add to them, and
\* the one that made it fall does not.
Attempts ==
  /\ ~blocked => tested <= failed + Cardinality(Those({"fail"}))
  /\ blocked =>
       tested + Cardinality(Those(Waiting)) <= MaxAttempts + Cardinality(Handlers) - 1

IndInv == Types /\ Aims /\ Locks /\ Sends /\ Claims /\ Rows /\ Agreed /\ Window /\ Attempts

-----------------------------------------------------------------------------
(* Types *)

\* What lies outside the requests: time, the pruner, a restart.
World ==
  Lapse \/ CoolDown \/ Forget \/ PruneTake \/ Restart \/ LingerSaves
    \/ \E l \in Logins : PruneClose(l)

LEMMA TypesInit == Init => Types
BY MaxAttemptsAssumption DEF Init, Types, PCs

LEMMA TypesWorld ==
  ASSUME Types, World
  PROVE  Types'
<1> USE DEF throttle, flows, requests, accounts, history, codes, broken
<1>1. CASE Lapse \/ LingerSaves
  BY <1>1 DEF Lapse, LingerSaves, Types
<1>6. CASE CoolDown
  <2>1. Cardinality({h \in Handlers : pc[h] = "send"}) \in Nat
    BY SetsAssumption, FS_Subset, FS_CardinalityType
  <2> QED BY <1>6, <2>1 DEF CoolDown, Types
<1>2. CASE Forget
  BY <1>2, MaxAttemptsAssumption DEF Forget, Types
<1>3. CASE PruneTake
  BY <1>3 DEF PruneTake, Types
<1>4. CASE Restart
  <2>1. failed' \in 0..(MaxAttempts - 1) /\ tested' \in Nat /\ sent' \in Nat /\ late' \in Nat
    BY <1>4, MaxAttemptsAssumption DEF Restart
  <2>2. row' \in [Logins -> BOOLEAN]
    BY <1>4 DEF Restart
  <2> QED BY <1>4, <2>1, <2>2 DEF Restart, Types, PCs
<1>5. CASE \E l \in Logins : PruneClose(l)
  BY <1>5 DEF PruneClose, Types
<1> QED BY <1>1, <1>2, <1>3, <1>4, <1>5, <1>6 DEF World

LEMMA AnswerTyped ==
  ASSUME Types, NEW h \in Handlers, Answer(h)
  PROVE  /\ pc' \in [Handlers -> PCs]
         /\ at' \in [Handlers -> Logins \union {None}]
         /\ kind' \in [Handlers -> {"code", "password"}]
         /\ lock' \in [Logins -> Handlers \union {None}]
BY DEF Types, Answer, PCs

LEMMA GoTyped ==
  ASSUME Types, NEW h \in Handlers, NEW p \in PCs, Go(h, p)
  PROVE  /\ pc' \in [Handlers -> PCs]
         /\ at' \in [Handlers -> Logins \union {None}]
         /\ kind' \in [Handlers -> {"code", "password"}]
BY DEF Types, Go

LEMMA TypesStart ==
  ASSUME Types, Aims, NEW h \in Handlers, Start(h)
  PROVE  Types'
<1> USE DEF PCs, Bound, SendPCs, throttle, flows, requests, accounts, history, codes
<1>1. CASE StartGate(h)
  BY <1>1, GoTyped DEF StartGate, Types
<1>2. CASE Reserve(h)
  BY <1>2 DEF Reserve, Types
<1>3. CASE ReserveRefused(h)
  BY <1>3, AnswerTyped DEF ReserveRefused, Types
<1>4. CASE SendConnect(h)
  BY <1>4 DEF SendConnect, Types
<1>5. CASE SendOk(h)
  BY <1>5, AnswerTyped DEF SendOk, Types
<1>6. CASE SendFails(h)
  BY <1>6, AnswerTyped DEF SendFails, Types
<1>7. CASE AskCode(h)
  BY <1>7, GoTyped DEF AskCode, Types
<1> QED BY <1>1, <1>2, <1>3, <1>4, <1>5, <1>6, <1>7 DEF Start

LEMMA TypesAnswering ==
  ASSUME Types, Aims, NEW h \in Handlers, Answering(h)
  PROVE  Types'
<1> USE DEF PCs, Bound, Holding, AskPCs, SendPCs, ClaimPCs, throttle, flows, requests, accounts, history, codes
<1>1. CASE Submit(h)
  BY <1>1 DEF Submit, Types
<1>2. CASE SubmitGate(h) \/ AskUser(h) \/ Accepted(h)
  BY <1>2, GoTyped DEF SubmitGate, AskUser, Accepted, Types
<1>3. CASE SubmitRefused(h) \/ Misuse(h) \/ Spent(h)
  BY <1>3, AnswerTyped DEF SubmitRefused, Misuse, Spent, Types
<1>4. CASE Ask(h)
  BY <1>4, GoTyped DEF Ask, TakeFlow, Types
<1>5. CASE PasswordRequired(h)
  BY <1>5, AnswerTyped DEF PasswordRequired, Types
<1>6. CASE Refused(h)
  BY <1>6, GoTyped DEF Refused, Types
<1>7. CASE RecordFailure(h)
  BY <1>7, AnswerTyped, MaxAttemptsAssumption DEF RecordFailure, Types
<1> QED BY <1>1, <1>2, <1>3, <1>4, <1>5, <1>6, <1>7 DEF Answering

LEMMA TypesClaim ==
  ASSUME Types, Aims, NEW h \in Handlers, Claim(h)
  PROVE  Types'
<1> USE DEF PCs, Bound, Holding, AskPCs, SendPCs, ClaimPCs, throttle, flows, requests, accounts, history, codes
<1>1. CASE ClaimForget(h)
  BY <1>1, GoTyped DEF ClaimForget, Types
<1>2. CASE RecordSuccess(h)
  <2>1. failed' \in 0..(MaxAttempts - 1) /\ tested' \in Nat
    BY <1>2, MaxAttemptsAssumption DEF RecordSuccess
  <2> QED BY <1>2, <2>1, GoTyped DEF RecordSuccess, Types
<1>3. CASE ClaimDetach(h) \/ ClaimRead(h)
  BY <1>3, GoTyped DEF ClaimDetach, ClaimRead, Types
<1>4. CASE ClaimFails(h) \/ ClaimInsert(h)
  BY <1>4, AnswerTyped DEF ClaimFails, ClaimInsert, Types
<1>5. CASE ClaimFile(h)
  BY <1>5, GoTyped DEF ClaimFile, Types, Aims
<1>6. CASE ClaimClear(h)
  BY <1>6, GoTyped DEF ClaimClear, Types
<1> QED BY <1>1, <1>2, <1>3, <1>4, <1>5, <1>6 DEF Claim

LEMMA TypesRest ==
  ASSUME Types, Aims, NEW h \in Handlers, LogoutDetach(h) \/ LogoutDelete(h) \/ Dropped(h)
  PROVE  Types'
<1> USE DEF PCs, LogoutPCs, throttle, flows, requests, accounts, history, codes
<1>1. CASE LogoutDetach(h)
  BY <1>1, GoTyped DEF LogoutDetach, Types
<1>2. CASE LogoutDelete(h)
  BY <1>2, AnswerTyped DEF LogoutDelete, Types
<1>3. CASE Dropped(h)
  <2>1. tested' \in Nat
    BY <1>3 DEF Dropped, Types
  <2>2. login' \in [Logins -> {"none", "sending", "open", "over"}]
    BY <1>3 DEF Dropped, Types
  <2> QED BY <1>3, <2>1, <2>2, AnswerTyped DEF Dropped, Types
<1> QED BY <1>1, <1>2, <1>3

-----------------------------------------------------------------------------
(* What a handler's step does to its place, its login and the locks *)

\* A handler that answers.
LEMMA AnswerMoves ==
  ASSUME Types, NEW h \in Handlers, Answer(h)
  PROVE  /\ pc'[h] = "idle" /\ at'[h] = None
         /\ \A k \in Handlers \ {h} : pc'[k] = pc[k] /\ at'[k] = at[k]
         /\ \A l \in Logins : lock'[l] = IF lock[l] = h THEN None ELSE lock[l]
BY DEF Types, Answer

\* What Aims and Locks need to know of a step.
Steady(h) ==
  /\ \A k \in Handlers \ {h} : pc'[k] = pc[k] /\ at'[k] = at[k]
  /\ \/ /\ at'[h] = at[h] /\ lock' = lock
        /\ pc[h] \in Bound <=> pc'[h] \in Bound
        /\ pc[h] \in Holding <=> pc'[h] \in Holding
     \/ /\ pc[h] \notin Bound /\ pc'[h] \in Bound \ Holding /\ at'[h] \in Logins
        /\ lock' = lock
     \/ /\ pc[h] = "lock" /\ pc'[h] = "ask" /\ at'[h] = at[h]
        /\ lock[at[h]] = None /\ lock' = [lock EXCEPT ![at[h]] = h]
     \/ Answer(h)

LEMMA StartSteady ==
  ASSUME Types, Aims, NEW h \in Handlers, Start(h)
  PROVE  Steady(h)
<1> USE DEF Steady, PCs, Bound, Holding, AskPCs, SendPCs, ClaimPCs, LogoutPCs
<1>1. CASE StartGate(h)
  BY <1>1 DEF StartGate, Types, Go, flows
<1>2. CASE Reserve(h)
  BY <1>2 DEF Reserve, Types
<1>3. CASE ReserveRefused(h) \/ SendOk(h) \/ SendFails(h)
  BY <1>3, AnswerMoves DEF ReserveRefused, SendOk, SendFails
<1>4. CASE SendConnect(h)
  BY <1>4 DEF SendConnect, requests
<1>5. CASE AskCode(h)
  BY <1>5 DEF AskCode, Types, Go, flows
<1> QED BY <1>1, <1>2, <1>3, <1>4, <1>5 DEF Start

LEMMA AnsweringSteady ==
  ASSUME Types, Aims, NEW h \in Handlers, Answering(h)
  PROVE  Steady(h)
<1> USE DEF Steady, PCs, Bound, Holding, AskPCs, SendPCs, ClaimPCs, LogoutPCs, flows
<1>1. CASE Submit(h)
  BY <1>1 DEF Submit, Types
<1>2. CASE SubmitGate(h) \/ AskUser(h) \/ Accepted(h) \/ Refused(h)
  BY <1>2 DEF SubmitGate, AskUser, Accepted, Refused, Types, Go
<1>3. CASE SubmitRefused(h) \/ Misuse(h) \/ Spent(h) \/ PasswordRequired(h) \/ RecordFailure(h)
  BY <1>3, AnswerMoves DEF SubmitRefused, Misuse, Spent, PasswordRequired, RecordFailure
<1>4. CASE Ask(h)
  BY <1>4 DEF Ask, Types, Go
<1> QED BY <1>1, <1>2, <1>3, <1>4 DEF Answering

LEMMA ClaimSteady ==
  ASSUME Types, Aims, NEW h \in Handlers, Claim(h)
  PROVE  Steady(h)
<1> USE DEF Steady, PCs, Bound, Holding, AskPCs, SendPCs, ClaimPCs, LogoutPCs, flows
<1>1. CASE ClaimForget(h) \/ RecordSuccess(h) \/ ClaimDetach(h) \/ ClaimRead(h)
             \/ ClaimFile(h) \/ ClaimClear(h)
  BY <1>1 DEF ClaimForget, RecordSuccess, ClaimDetach, ClaimRead, ClaimFile, ClaimClear,
              Types, Go
<1>2. CASE ClaimFails(h) \/ ClaimInsert(h)
  BY <1>2, AnswerMoves DEF ClaimFails, ClaimInsert
<1> QED BY <1>1, <1>2 DEF Claim

LEMMA RestSteady ==
  ASSUME Types, Aims, NEW h \in Handlers, LogoutDetach(h) \/ LogoutDelete(h) \/ Dropped(h)
  PROVE  Steady(h)
<1> USE DEF Steady, PCs, Bound, Holding, AskPCs, SendPCs, ClaimPCs, LogoutPCs, flows
<1>1. CASE LogoutDetach(h)
  BY <1>1 DEF LogoutDetach, Types, Go
<1>2. CASE LogoutDelete(h) \/ Dropped(h)
  BY <1>2, AnswerMoves DEF LogoutDelete, Dropped
<1> QED BY <1>1, <1>2

LEMMA AimsKept ==
  ASSUME Types, Aims, Locks, NEW h \in Handlers, Steady(h)
  PROVE  Aims' /\ Locks'
<1>1. None \notin Logins /\ None \notin Handlers
  BY NoneAssumption
<1>2. /\ DOMAIN lock = Logins /\ \A l \in Logins : lock[l] \in Handlers \union {None}
      /\ \A k \in Handlers : at[k] \in Logins \union {None}
  BY DEF Types
<1>3. CASE Answer(h)
  BY <1>1, <1>2, <1>3, AnswerMoves
     DEF Aims, Locks, Bound, Holding, AskPCs, SendPCs, ClaimPCs
<1>4. CASE ~Answer(h)
  BY <1>1, <1>2, <1>4 DEF Steady, Aims, Locks, Bound, Holding, AskPCs, SendPCs, ClaimPCs
<1> QED BY <1>3, <1>4

LEMMA AimsWorld ==
  ASSUME Types, Aims, Locks, World
  PROVE  Aims' /\ Locks'
<1>1. CASE Restart
  BY <1>1, NoneAssumption DEF Restart, Aims, Locks, Bound, Holding, AskPCs, SendPCs, ClaimPCs
<1>2. CASE ~Restart
  <2>1. UNCHANGED <<pc, at, lock>>
    BY <1>2 DEF World, Lapse, CoolDown, Forget, PruneTake, PruneClose, LingerSaves, requests,
                flows
  <2> QED BY <2>1 DEF Aims, Locks
<1> QED BY <1>1, <1>2

\* Who is where, about which login, and holds which lock.
Core == Types /\ Aims /\ Locks

HandlerStep(h) ==
  Start(h) \/ Answering(h) \/ Claim(h) \/ LogoutDetach(h) \/ LogoutDelete(h) \/ Dropped(h)

LEMMA CoreInit == Init => Core
<1> SUFFICES ASSUME Init PROVE Core
  OBVIOUS
<1>1. Types
  BY TypesInit
<1>2. Aims /\ Locks
  BY NoneAssumption DEF Init, Aims, Locks, Bound, Holding, AskPCs, SendPCs, ClaimPCs
<1> QED BY <1>1, <1>2 DEF Core

LEMMA CoreHandler ==
  ASSUME Core, NEW h \in Handlers, HandlerStep(h)
  PROVE  Core' /\ Steady(h)
<1>1. Types'
  BY TypesStart, TypesAnswering, TypesClaim, TypesRest DEF Core, HandlerStep
<1>2. Steady(h)
  BY StartSteady, AnsweringSteady, ClaimSteady, RestSteady DEF Core, HandlerStep
<1>3. Aims' /\ Locks'
  BY <1>2, AimsKept DEF Core
<1> QED BY <1>1, <1>2, <1>3 DEF Core

LEMMA CoreWorld == Core /\ World => Core'
BY TypesWorld, AimsWorld DEF Core

-----------------------------------------------------------------------------
(* One flow, one claim *)

\* The two conjuncts that follow a login from its first code to its filing.
Flows == Sends /\ Claims

\* A step that touches no flow, no login and no filing, and takes h no nearer to a claim.
Still(h) ==
  /\ UNCHANGED <<login, flow, filed>>
  /\ \/ at'[h] = None
     \/ /\ at'[h] = at[h]
        /\ pc'[h] \in SendPCs <=> pc[h] \in SendPCs
        /\ pc'[h] \in AskPCs \union ClaimPCs => pc[h] \in AskPCs \union ClaimPCs
        /\ pc'[h] \in Holding \ {"fail", "clear", "insert"} =>
             pc[h] \in Holding \ {"fail", "clear", "insert"}

LEMMA FlowsStill ==
  ASSUME Core, Core', Flows, NEW h \in Handlers, Steady(h), Still(h)
  PROVE  Flows'
<1>1. \A k \in Handlers \ {h} : pc'[k] = pc[k] /\ at'[k] = at[k]
  BY DEF Steady
<1>2. at'[h] = None => pc'[h] \notin SendPCs \union Holding
  BY NoneAssumption DEF Core, Aims, Bound
<1>3. Sends'
  BY <1>1, <1>2, NoneAssumption DEF Still, Flows, Sends
<1>4. Claims'
  BY <1>1, <1>2, NoneAssumption DEF Still, Flows, Claims, Holding, AskPCs, SendPCs, ClaimPCs
<1> QED BY <1>3, <1>4 DEF Flows

LEMMA FlowsStart ==
  ASSUME Core, Core', Flows, NEW h \in Handlers, Steady(h), Start(h)
  PROVE  Flows'
<1> USE DEF Flows, Sends, Claims, Core, Types, Holding, AskPCs, SendPCs, ClaimPCs, Bound
<1>1. CASE StartGate(h) \/ ReserveRefused(h) \/ SendConnect(h) \/ AskCode(h)
  <2>1. Still(h)
    BY <1>1, AnswerMoves
       DEF StartGate, ReserveRefused, SendConnect, AskCode, Still, Go, flows, history,
           requests, Aims
  <2> QED BY <2>1, FlowsStill
<1>2. CASE Reserve(h)
  <2>1. PICK l \in Logins :
          /\ login[l] = "none" /\ login' = [login EXCEPT ![l] = "sending"]
          /\ at' = [at EXCEPT ![h] = l] /\ pc' = [pc EXCEPT ![h] = "send"]
          /\ UNCHANGED <<flow, filed>>
    BY <1>2 DEF Reserve, history
  <2>2. \A k \in Handlers : at[k] # l
    <3>1. \A k \in Handlers : at[k] = l => pc[k] \in SendPCs /\ login[at[k]] = "sending"
      BY <2>1
    <3> QED BY <2>1, <3>1
  <2>3. Sends'
    BY <2>1, <2>2, NoneAssumption DEF Aims
  <2>4. Claims'
    BY <2>1, <2>2, NoneAssumption DEF Aims
  <2> QED BY <2>3, <2>4
<1>3. CASE SendOk(h)
  <2>1. /\ pc[h] \in SendPCs /\ at[h] \in Logins /\ login[at[h]] = "sending"
        /\ \A k \in Handlers \ {h} : at[k] # at[h]
    BY <1>3 DEF SendOk, Aims
  <2>2. Sends'
    BY <1>3, <2>1, AnswerMoves, NoneAssumption DEF SendOk, Aims, history
  <2>3. Claims'
    BY <1>3, <2>1, AnswerMoves, NoneAssumption DEF SendOk, Aims, history
  <2> QED BY <2>2, <2>3
<1>4. CASE SendFails(h)
  BY <1>4, AnswerMoves, NoneAssumption DEF SendFails, Aims, history
<1> QED BY <1>1, <1>2, <1>3, <1>4 DEF Start

LEMMA FlowsAnswering ==
  ASSUME Core, Core', Flows, NEW h \in Handlers, Steady(h), Answering(h)
  PROVE  Flows'
<1> USE DEF Core, Types, Holding, AskPCs, SendPCs, ClaimPCs, Bound
<1>1. CASE SubmitGate(h) \/ SubmitRefused(h) \/ Misuse(h) \/ AskUser(h) \/ Spent(h)
             \/ RecordFailure(h)
  <2>1. Still(h)
    BY <1>1, AnswerMoves
       DEF SubmitGate, SubmitRefused, Misuse, AskUser, Spent, RecordFailure, Still, Go, flows,
           history, requests
  <2> QED BY <2>1, FlowsStill
<1>2. CASE Submit(h)
  BY <1>2, NoneAssumption DEF Submit, Aims, Flows, Sends, Claims, flows, history
<1>3. CASE Ask(h)
  BY <1>3, NoneAssumption DEF Ask, TakeFlow, Go, Aims, Flows, Sends, Claims, history
<1>4. CASE Accepted(h)
  BY <1>4, NoneAssumption DEF Accepted, Go, Aims, Locks, Flows, Sends, Claims, flows, history
<1>5. CASE PasswordRequired(h)
  BY <1>5, AnswerMoves, NoneAssumption DEF PasswordRequired, Aims, Locks, Flows, Sends, Claims, history
<1>6. CASE Refused(h)
  BY <1>6, NoneAssumption DEF Refused, Go, Aims, Locks, Flows, Sends, Claims
<1> QED BY <1>1, <1>2, <1>3, <1>4, <1>5, <1>6 DEF Answering

LEMMA FlowsClaim ==
  ASSUME Core, Core', Flows, NEW h \in Handlers, Steady(h), Claim(h)
  PROVE  Flows'
<1> USE DEF Core, Types, Holding, AskPCs, SendPCs, ClaimPCs, Bound
<1>1. CASE RecordSuccess(h) \/ ClaimDetach(h) \/ ClaimRead(h) \/ ClaimFails(h)
             \/ ClaimClear(h) \/ ClaimInsert(h)
  <2>1. Still(h)
    BY <1>1, AnswerMoves
       DEF RecordSuccess, ClaimDetach, ClaimRead, ClaimFails, ClaimClear, ClaimInsert,
           Still, Go, flows, history
  <2> QED BY <2>1, FlowsStill
<1>2. CASE ClaimForget(h)
  BY <1>2, NoneAssumption DEF ClaimForget, Go, Aims, Locks, Flows, Sends, Claims, history
<1>3. CASE ClaimFile(h)
  <2>1. /\ at[h] \in Logins /\ filed[at[h]] = 0 /\ flow[at[h]] = "idle" /\ lock[at[h]] = h
        /\ login[at[h]] \notin {"none", "sending"}
    BY <1>3 DEF ClaimFile, Aims, Locks, Flows, Sends, Claims
  <2>2. \A k \in Handlers \ {h} : pc[k] \in Holding => at[k] # at[h]
    BY <2>1, NoneAssumption DEF Locks
  <2>3. /\ filed' = [filed EXCEPT ![at[h]] = 1] /\ UNCHANGED <<flow, login, at>>
        /\ pc' = [pc EXCEPT ![h] = "clear"] /\ pc[h] = "file"
    BY <1>3, <2>1 DEF ClaimFile, Go, flows
  <2>4. Sends'
    BY <2>1, <2>3 DEF Flows, Sends
  <2>5. Claims'
    BY <2>1, <2>2, <2>3, NoneAssumption DEF Flows, Claims, Aims
  <2> QED BY <2>4, <2>5 DEF Flows
<1> QED BY <1>1, <1>2, <1>3 DEF Claim

LEMMA FlowsRest ==
  ASSUME Core, Core', Flows, NEW h \in Handlers, Steady(h),
         LogoutDetach(h) \/ LogoutDelete(h) \/ Dropped(h)
  PROVE  Flows'
<1> USE DEF Core, Types, Holding, AskPCs, SendPCs, ClaimPCs, LogoutPCs, Bound
<1>1. CASE LogoutDetach(h) \/ LogoutDelete(h)
  <2>1. Still(h)
    BY <1>1, AnswerMoves DEF LogoutDetach, LogoutDelete, Still, Go, flows, history
  <2> QED BY <2>1, FlowsStill
<1>2. CASE Dropped(h)
  BY <1>2, AnswerMoves, NoneAssumption DEF Dropped, Aims, Flows, Sends, Claims
<1> QED BY <1>1, <1>2

LEMMA FlowsWorld ==
  ASSUME Core, Core', Flows, World
  PROVE  Flows'
<1>1. CASE Restart
  BY <1>1, NoneAssumption DEF Restart, Flows, Sends, Claims, Core, Types, Holding, AskPCs, SendPCs, ClaimPCs
<1>2. CASE PruneTake
  <2>1. /\ UNCHANGED <<flow, filed, pc, at>>
        /\ \A l \in Logins : login'[l] = login[l] \/ (login[l] = "open" /\ login'[l] = "over")
    BY <1>2 DEF PruneTake, Core, Types, requests, history
  <2> QED BY <2>1 DEF Flows, Sends, Claims, Core, Aims, Bound
<1>3. CASE ~Restart /\ ~PruneTake
  <2>1. UNCHANGED <<login, flow, filed, pc, at>>
    BY <1>3 DEF World, Lapse, CoolDown, Forget, PruneClose, LingerSaves, requests, flows,
                history
  <2> QED BY <2>1 DEF Flows, Sends, Claims
<1> QED BY <1>1, <1>2, <1>3

LEMMA FlowsInit == Init => Flows
BY NoneAssumption DEF Init, Flows, Sends, Claims, Holding, AskPCs, SendPCs, ClaimPCs

-----------------------------------------------------------------------------
(* Rows of ended logins *)

Cleaning == {"success", "detach", "read", "file", "clear"}

LEMMA RowsHandler ==
  ASSUME Core, Flows, Rows, NEW h \in Handlers, Steady(h), HandlerStep(h)
  PROVE  Rows'
<1> USE DEF Core, Types
<1>a. \A k \in Handlers \ {h} : pc'[k] = pc[k] /\ at'[k] = at[k]
  BY DEF Steady
<1>1. CASE /\ UNCHANGED <<login, row, pruning>> /\ orphaned \subseteq orphaned'
           /\ \/ pc[h] \notin Cleaning
              \/ at[h] \in orphaned'
              \/ at'[h] = at[h] /\ pc'[h] \in Cleaning
  BY <1>1, <1>a DEF Rows, Cleaning
<1>2. CASE SendConnect(h)
  BY <1>2, <1>a DEF SendConnect, Rows, Flows, Sends, SendPCs, requests, history, broken
<1>11. CASE AskUser(h)
  BY <1>11, <1>a DEF AskUser, Go, Rows
<1>3. CASE SendOk(h) \/ SendFails(h)
  BY <1>3, <1>a DEF SendOk, SendFails, Rows, history, broken
<1>4. CASE Reserve(h)
  BY <1>4, <1>a DEF Reserve, Rows, history, broken
<1>5. CASE ClaimForget(h)
  BY <1>5, <1>a DEF ClaimForget, Go, Rows, history, broken
<1>6. CASE ClaimClear(h)
  BY <1>6, <1>a, NoneAssumption DEF ClaimClear, Go, Rows, Locks, history, broken
<1>7. CASE Dropped(h)
  BY <1>7, <1>a, NoneAssumption DEF Dropped, Rows, Aims, Bound, Holding, AskPCs, SendPCs, ClaimPCs
<1>8. CASE StartGate(h) \/ ReserveRefused(h) \/ AskCode(h) \/ (Answering(h) /\ ~AskUser(h))
  BY <1>8, <1>1 DEF StartGate, ReserveRefused, AskCode, Answering, Submit, SubmitGate,
     SubmitRefused, Ask, Misuse, Accepted, PasswordRequired, Refused, Spent, RecordFailure,
     AskPCs, Cleaning, flows, history, broken
<1>9. CASE RecordSuccess(h) \/ ClaimDetach(h) \/ ClaimRead(h) \/ ClaimFails(h)
             \/ ClaimFile(h) \/ ClaimInsert(h)
  BY <1>9, <1>1 DEF RecordSuccess, ClaimDetach, ClaimRead, ClaimFails, ClaimFile, ClaimInsert,
     Go, Cleaning, flows, history, broken
<1>10. CASE LogoutDetach(h) \/ LogoutDelete(h)
  BY <1>10, <1>1 DEF LogoutDetach, LogoutDelete, LogoutPCs, Cleaning, flows, history, broken
<1> QED BY <1>2, <1>3, <1>4, <1>5, <1>6, <1>7, <1>8, <1>9, <1>10, <1>11
        DEF HandlerStep, Start, Claim

LEMMA RowsWorld ==
  ASSUME Core, Rows, World
  PROVE  Rows'
<1> USE DEF Core, Types, Rows, flows, requests, history, broken
<1>1. CASE Restart
  <2>1. PICK kept \in SUBSET Logins :
          row' = [l \in Logins |-> l \in kept] /\ orphaned' = kept
    BY <1>1 DEF Restart
  <2> QED BY <2>1
<1>2. CASE PruneTake
  BY <1>2 DEF PruneTake
<1>3. CASE \E l \in Logins : PruneClose(l)
  BY <1>3 DEF PruneClose
<1>4. CASE Lapse \/ CoolDown \/ Forget \/ LingerSaves
  BY <1>4 DEF Lapse, CoolDown, Forget, LingerSaves
<1> QED BY <1>1, <1>2, <1>3, <1>4 DEF World

-----------------------------------------------------------------------------
(* Manager and session row *)

LEMMA AgreedHandler ==
  ASSUME Core, Agreed, NEW h \in Handlers, Steady(h), HandlerStep(h)
  PROVE  Agreed'
<1> USE DEF Core, Types
<1>a. \A k \in Handlers \ {h} : pc'[k] = pc[k]
  BY DEF Steady
<1>1. CASE Start(h) \/ Answering(h) \/ ClaimForget(h) \/ RecordSuccess(h)
  <2>1. /\ pc[h] \notin {"read", "file", "clear", "insert"} \union LogoutPCs
        /\ pc'[h] \notin {"read", "file", "clear", "insert"} \union LogoutPCs
        /\ UNCHANGED <<manager, account, crossed, unfiled, revived>>
    BY <1>1, AnswerMoves
       DEF Start, StartGate, Reserve, ReserveRefused, SendConnect, AskCode, SendOk, SendFails,
           Answering, Submit, SubmitGate, SubmitRefused, Ask, Misuse, AskUser, Accepted,
           PasswordRequired, Refused, Spent, RecordFailure, ClaimForget, RecordSuccess,
           Go, AskPCs, SendPCs, LogoutPCs, accounts, history, broken, requests
  <2> QED BY <1>a, <2>1 DEF Agreed
<1>2. CASE ClaimDetach(h) \/ ClaimRead(h)
  BY <1>2, <1>a DEF ClaimDetach, ClaimRead, LetGo, Go, Agreed, LogoutPCs, accounts, history,
                    broken
<1>3. CASE ClaimFails(h)
  BY <1>3, <1>a, AnswerMoves DEF ClaimFails, Agreed, LogoutPCs, accounts
<1>4. CASE ClaimFile(h)
  BY <1>4, <1>a, NoneAssumption
     DEF ClaimFile, Go, Agreed, Aims, Bound, Holding, AskPCs, SendPCs, ClaimPCs, LogoutPCs, broken
<1>5. CASE ClaimClear(h)
  BY <1>5, <1>a DEF ClaimClear, Go, Agreed, LogoutPCs, accounts, history, broken
<1>6. CASE ClaimInsert(h)
  BY <1>6, <1>a, AnswerMoves DEF ClaimInsert, Agreed, LogoutPCs
<1>7. CASE LogoutDetach(h)
  BY <1>7, <1>a DEF LogoutDetach, LetGo, Go, Agreed, LogoutPCs, history, broken
<1>8. CASE LogoutDelete(h)
  BY <1>8, <1>a, AnswerMoves DEF LogoutDelete, Agreed, LogoutPCs
<1>9. CASE Dropped(h)
  BY <1>9, <1>a, AnswerMoves DEF Dropped, Agreed, LogoutPCs, ClaimPCs, accounts
<1> QED BY <1>1, <1>2, <1>3, <1>4, <1>5, <1>6, <1>7, <1>8, <1>9 DEF HandlerStep, Claim

LEMMA AgreedWorld ==
  ASSUME Core, Agreed, World
  PROVE  Agreed'
<1>1. CASE Restart
  BY <1>1 DEF Restart, Agreed, LogoutPCs
<1>2. CASE LingerSaves
  <2>1. /\ account' # None /\ UNCHANGED <<pc, manager, crossed, unfiled>>
        /\ revived' = (revived \/ account = None)
    BY <1>2, NoneAssumption DEF LingerSaves, requests
  <2> QED BY <2>1 DEF Agreed
<1>3. CASE ~Restart /\ ~LingerSaves
  <2>1. UNCHANGED <<pc, manager, account, crossed, unfiled, revived>>
    BY <1>3 DEF World, Lapse, CoolDown, Forget, PruneTake, PruneClose, requests, accounts,
                history, broken
  <2> QED BY <2>1 DEF Agreed
<1> QED BY <1>1, <1>2, <1>3

-----------------------------------------------------------------------------
(* The throttle *)

\* A set of handlers when one of them moves.
LEMMA Counted ==
  ASSUME Core, NEW h \in Handlers, NEW X,
         Core', \A k \in Handlers \ {h} : pc'[k] = pc[k]
  PROVE  LET n == Cardinality(Those(X))  m == Cardinality(Those(X)') IN
         /\ n \in Nat /\ m \in Nat
         /\ pc[h] \in X /\ pc'[h] \notin X => m = n - 1
         /\ pc[h] \notin X /\ pc'[h] \in X => m = n + 1
         /\ (pc[h] \in X <=> pc'[h] \in X) => m = n
<1> DEFINE A == Those(X)
           B == Those(X)'
<1>1. IsFiniteSet(A) /\ IsFiniteSet(B)
  BY SetsAssumption, FS_Subset DEF Those
<1>2. Cardinality(A) \in Nat /\ Cardinality(B) \in Nat
  BY <1>1, FS_CardinalityType
<1>3. CASE pc[h] \in X /\ pc'[h] \notin X
  <2>1. B = A \ {h} /\ h \in A
    BY <1>3 DEF Those
  <2> QED BY <1>1, <1>2, <1>3, <2>1, FS_RemoveElement
<1>4. CASE pc[h] \notin X /\ pc'[h] \in X
  <2>1. B = A \union {h} /\ h \notin A
    BY <1>4 DEF Those
  <2> QED BY <1>1, <1>2, <1>4, <2>1, FS_AddElement
<1>5. CASE pc[h] \in X <=> pc'[h] \in X
  <2>1. B = A
    BY <1>5 DEF Those
  <2> QED BY <1>2, <1>5, <2>1
<1> QED BY <1>2, <1>3, <1>4, <1>5

\* A request that counts a failure neither waits nor counts twice.
LEMMA Separate ==
  ASSUME NEW h \in Handlers, pc[h] = "fail"
  PROVE  Cardinality(Those(Waiting)) + Cardinality(Those({"fail"})) <= Cardinality(Handlers)
<1> DEFINE W == Those(Waiting)
           F == Those({"fail"})
<1>1. IsFiniteSet(W) /\ IsFiniteSet(F) /\ IsFiniteSet(Handlers)
  BY SetsAssumption, FS_Subset DEF Those
<1>2. W \cap F = {} /\ W \union F \subseteq Handlers
  BY DEF Those, Waiting
<1>3. Cardinality(W \union F) = Cardinality(W) + Cardinality(F) - Cardinality(W \cap F)
  BY <1>1, FS_Union
<1>4. Cardinality(W \cap F) = 0
  BY <1>2, FS_EmptySet
<1>5. Cardinality(W \union F) <= Cardinality(Handlers)
  BY <1>1, <1>2, FS_Subset
<1>6. /\ Cardinality(W) \in Nat /\ Cardinality(F) \in Nat
  BY <1>1, FS_CardinalityType
<1> QED BY <1>3, <1>4, <1>5, <1>6

LEMMA AttemptsHandler ==
  ASSUME Core, Core', Attempts, NEW h \in Handlers, Steady(h), HandlerStep(h)
  PROVE  Attempts'
<1> DEFINE w == Cardinality(Those(Waiting))
           f == Cardinality(Those({"fail"}))
           ww == Cardinality(Those(Waiting)')
           ff == Cardinality(Those({"fail"})')
           all == Cardinality(Handlers)
<1>a. \A k \in Handlers \ {h} : pc'[k] = pc[k]
  BY DEF Steady
<1>b. /\ w \in Nat /\ ww \in Nat /\ f \in Nat /\ ff \in Nat
      /\ pc[h] \in Waiting /\ pc'[h] \notin Waiting => ww = w - 1
      /\ pc[h] \notin Waiting /\ pc'[h] \in Waiting => ww = w + 1
      /\ (pc[h] \in Waiting <=> pc'[h] \in Waiting) => ww = w
      /\ pc[h] = "fail" /\ pc'[h] # "fail" => ff = f - 1
      /\ pc[h] # "fail" /\ pc'[h] = "fail" => ff = f + 1
      /\ (pc[h] = "fail" <=> pc'[h] = "fail") => ff = f
  BY <1>a, Counted
<1>c. all \in Nat /\ MaxAttempts \in Nat \ {0} /\ failed \in 0..(MaxAttempts - 1) /\ tested \in Nat
  BY SetsAssumption, FS_CardinalityType, MaxAttemptsAssumption DEF Core, Types
<1>d. /\ ~blocked => tested <= failed + f
      /\ blocked => tested + w <= MaxAttempts + all - 1
  BY DEF Attempts
<1>e. SUFFICES /\ ~blocked' => tested' <= failed' + ff
               /\ blocked' => tested' + ww <= MaxAttempts + all - 1
  BY DEF Attempts, Those
<1> HIDE DEF w, f, ww, ff, all
<1>1. CASE /\ UNCHANGED <<failed, blocked, tested>>
           /\ pc[h] # "fail" /\ pc'[h] # "fail"
           /\ blocked => ~(pc[h] \notin Waiting /\ pc'[h] \in Waiting)
  BY <1>1, <1>b, <1>c, <1>d
<1>2. CASE Start(h)
  <2>1. /\ UNCHANGED <<failed, blocked, tested>>
        /\ pc[h] # "fail" /\ pc'[h] # "fail" /\ pc'[h] \notin Waiting
    BY <1>2, AnswerMoves
       DEF Start, StartGate, Reserve, ReserveRefused, SendConnect, AskCode, SendOk, SendFails, Go,
           SendPCs, Core, Types, Waiting, throttle, history, requests
  <2> QED BY <2>1, <1>1
<1>3. CASE Answering(h) /\ ~Refused(h) /\ ~RecordFailure(h)
  <2>1. /\ UNCHANGED <<failed, blocked, tested>>
        /\ pc[h] # "fail" /\ pc'[h] # "fail"
        /\ blocked => ~(pc[h] \notin Waiting /\ pc'[h] \in Waiting)
    BY <1>3, AnswerMoves
       DEF Answering, Submit, SubmitGate, GateOpen, SubmitRefused, Ask, Misuse, AskUser, Accepted,
           PasswordRequired, Spent, Go, AskPCs, Core, Types, Waiting, throttle, history
  <2> QED BY <2>1, <1>1
<1>4. CASE Refused(h)
  <2>1. /\ UNCHANGED <<failed, blocked>> /\ tested' = tested + 1
        /\ pc[h] = "ask" /\ pc'[h] = "fail"
    BY <1>4 DEF Refused, Go, Core, Types, throttle
  <2>2. ww = w - 1 /\ ff = f + 1
    BY <2>1, <1>b DEF Waiting
  <2> QED BY <2>1, <2>2, <1>b, <1>c, <1>d
<1>5. CASE RecordFailure(h)
  <2>1. /\ tested' = tested /\ pc[h] = "fail" /\ pc'[h] = "idle"
        /\ \/ failed' = 0 /\ blocked' /\ failed + 1 >= MaxAttempts
           \/ failed' = failed + 1 /\ blocked' = blocked
    BY <1>5, AnswerMoves DEF RecordFailure, Core, history
  <2>2. ww = w /\ ff = f - 1
    BY <2>1, <1>b DEF Waiting
  <2>3. w + f <= all
    BY <2>1, Separate DEF w, f, all
  <2>4. CASE blocked
    BY <2>1, <2>2, <2>4, <1>b, <1>c, <1>d
  <2>5. CASE ~blocked
    BY <2>1, <2>2, <2>3, <2>5, <1>b, <1>c, <1>d
  <2> QED BY <2>4, <2>5
<1>6. CASE RecordSuccess(h)
  <2>1. failed' = 0 /\ ~blocked' /\ tested' = 0
    BY <1>6 DEF RecordSuccess
  <2> QED BY <2>1, <1>b
<1>7. CASE (Claim(h) /\ ~RecordSuccess(h)) \/ LogoutDetach(h) \/ LogoutDelete(h)
  <2>1. /\ UNCHANGED <<failed, blocked, tested>>
        /\ pc[h] # "fail" /\ pc'[h] # "fail" /\ pc'[h] \notin Waiting
    BY <1>7, AnswerMoves
       DEF Claim, ClaimForget, ClaimDetach, ClaimRead, ClaimFails, ClaimFile, ClaimClear,
           ClaimInsert, LogoutDetach, LogoutDelete, Go, Core, Types, Waiting, throttle, history
  <2> QED BY <2>1, <1>1
<1>8. CASE Dropped(h)
  <2>1. /\ UNCHANGED <<failed, blocked>> /\ pc'[h] = "idle"
        /\ tested' = IF pc[h] = "fail" /\ tested > 0 THEN tested - 1 ELSE tested
    BY <1>8, AnswerMoves DEF Dropped, Core, throttle
  <2>2. ww <= w /\ (pc[h] # "fail" => ff = f) /\ (pc[h] = "fail" => ff = f - 1)
    BY <2>1, <1>b DEF Waiting
  <2>3. tested' <= tested
    BY <2>1, <1>c
  <2>4. CASE blocked
    BY <2>1, <2>2, <2>3, <2>4, <1>b, <1>c, <1>d
  <2>5. CASE ~blocked
    BY <2>1, <2>2, <2>5, <1>b, <1>c, <1>d
  <2> QED BY <2>4, <2>5
<1> QED BY <1>2, <1>3, <1>4, <1>5, <1>6, <1>7, <1>8 DEF HandlerStep

LEMMA AttemptsWorld ==
  ASSUME Core, Attempts, World
  PROVE  Attempts'
<1>1. CASE Restart \/ Lapse \/ Forget
  <2>1. ~blocked' /\ tested' = 0 /\ failed' \in Nat
    BY <1>1, MaxAttemptsAssumption DEF Restart, Lapse, Forget, Core, Types
  <2>2. Cardinality(Those({"fail"}))' \in Nat
    BY SetsAssumption, FS_Subset, FS_CardinalityType DEF Those
  <2> QED BY <2>1, <2>2 DEF Attempts
<1>2. CASE CoolDown \/ PruneTake \/ LingerSaves \/ \E l \in Logins : PruneClose(l)
  <2>1. UNCHANGED <<pc, failed, blocked, tested>>
    BY <1>2 DEF CoolDown, PruneTake, PruneClose, LingerSaves, throttle, requests, history
  <2> QED BY <2>1 DEF Attempts, Those
<1> QED BY <1>1, <1>2 DEF World

LEMMA WindowHandler ==
  ASSUME Core, Core', Window, NEW h \in Handlers, Steady(h), HandlerStep(h)
  PROVE  Window'
<1> DEFINE n == Cardinality(Those({"send"}))
           m == Cardinality(Those({"send"})')
<1>a. \A k \in Handlers \ {h} : pc'[k] = pc[k]
  BY DEF Steady
<1>b. /\ n \in Nat /\ m \in Nat
      /\ pc[h] = "send" /\ pc'[h] # "send" => m = n - 1
      /\ pc[h] # "send" /\ pc'[h] = "send" => m = n + 1
      /\ (pc[h] = "send" <=> pc'[h] = "send") => m = n
  BY <1>a, Counted
<1>c. sent \in Nat /\ late \in Nat /\ sent + n <= late + (IF cooling THEN 1 ELSE 0)
  BY DEF Core, Types, Window
<1>d. SUFFICES sent' + m <= late' + (IF cooling' THEN 1 ELSE 0)
  BY DEF Window, Those
<1> HIDE DEF n, m
<1>1. CASE Reserve(h)
  <2>1. ~cooling /\ cooling' /\ UNCHANGED <<sent, late>> /\ pc[h] = "reserve" /\ pc'[h] = "send"
    BY <1>1 DEF Reserve, Core, Types, history, codes
  <2> QED BY <2>1, <1>b, <1>c
<1>2. CASE AskCode(h)
  <2>1. /\ sent' = sent + 1 /\ UNCHANGED <<cooling, late>>
        /\ pc[h] = "send" /\ pc'[h] = "asked"
    BY <1>2 DEF AskCode, Go, Core, Types, throttle
  <2> QED BY <2>1, <1>b, <1>c
<1>3. CASE ~Reserve(h) /\ ~AskCode(h)
  <2>1. UNCHANGED <<cooling, sent, late>> /\ (pc'[h] = "send" => pc[h] = "send")
    <3>1. CASE Start(h)
      BY <3>1, <1>3, AnswerMoves DEF Start, StartGate, ReserveRefused, SendConnect, SendOk,
         SendFails, Go, Core, Types, throttle, requests, history, codes
    <3>2. CASE Answering(h)
      BY <3>2, AnswerMoves DEF Answering, Submit, SubmitGate, SubmitRefused, Ask, Misuse,
         AskUser, Accepted, PasswordRequired, Refused, Spent, RecordFailure, Go, Core, Types,
         throttle, history, codes
    <3>3. CASE Claim(h)
      BY <3>3, AnswerMoves DEF Claim, ClaimForget, RecordSuccess, ClaimDetach, ClaimRead,
         ClaimFails, ClaimFile, ClaimClear, ClaimInsert, Go, Core, Types, throttle, history,
         codes
    <3>4. CASE LogoutDetach(h) \/ LogoutDelete(h) \/ Dropped(h)
      BY <3>4, AnswerMoves DEF LogoutDetach, LogoutDelete, Dropped, Go, Core, Types, throttle,
         history, codes
    <3> QED BY <3>1, <3>2, <3>3, <3>4 DEF HandlerStep
  <2>2. m <= n
    BY <2>1, <1>b
  <2> QED BY <2>1, <2>2, <1>b, <1>c
<1> QED BY <1>1, <1>2, <1>3

LEMMA WindowWorld ==
  ASSUME Core, Window, World
  PROVE  Window'
<1>1. IsFiniteSet(Those({"send"})) /\ Cardinality(Those({"send"})) \in Nat
  BY SetsAssumption, FS_Subset, FS_CardinalityType DEF Those
<1>2. CASE Restart
  <2>1. Those({"send"})' = {} /\ sent' = 0 /\ late' = 0 /\ ~cooling'
    BY <1>2 DEF Restart, Those
  <2>2. Cardinality(Those({"send"})') = 0
    BY <2>1, FS_EmptySet
  <2> QED BY <2>1, <2>2 DEF Window
<1>3. CASE CoolDown
  <2>1. /\ Those({"send"})' = Those({"send"}) /\ sent' = 0 /\ ~cooling'
        /\ late' = Cardinality({h \in Handlers : pc[h] = "send"})
    BY <1>3 DEF CoolDown, Those, requests
  <2>2. {h \in Handlers : pc[h] = "send"} = Those({"send"})
    BY DEF Those
  <2> QED BY <1>1, <2>1, <2>2 DEF Window
<1>4. CASE ~Restart /\ ~CoolDown
  <2>1. UNCHANGED <<cooling, sent, late, pc>>
    BY <1>4 DEF World, Lapse, Forget, PruneTake, PruneClose, LingerSaves, throttle, requests,
                history, codes
  <2> QED BY <2>1 DEF Window, Those
<1> QED BY <1>2, <1>3, <1>4

-----------------------------------------------------------------------------
LEMMA IndInit == Init => IndInv
<1> SUFFICES ASSUME Init PROVE IndInv
  OBVIOUS
<1>1. Core /\ Flows
  BY CoreInit, FlowsInit
<1>2. Rows /\ Agreed
  BY DEF Init, Rows, Agreed, LogoutPCs
<1>4. Window
  <2>1. Those({"send"}) = {}
    BY DEF Init, Those
  <2>2. Cardinality(Those({"send"})) = 0
    BY <2>1, FS_EmptySet
  <2> QED BY <2>2 DEF Init, Window
<1>3. Attempts
  <2>1. Cardinality(Those({"fail"})) \in Nat
    BY SetsAssumption, FS_Subset, FS_CardinalityType DEF Those
  <2> QED BY <2>1 DEF Init, Attempts
<1> QED BY <1>1, <1>2, <1>3, <1>4 DEF Core, Flows, IndInv

LEMMA IndStep == IndInv /\ [Next]_vars => IndInv'
<1> SUFFICES ASSUME IndInv, [Next]_vars PROVE IndInv'
  OBVIOUS
<1>0. Core /\ Flows /\ Rows /\ Agreed /\ Window /\ Attempts
  BY DEF IndInv, Core, Flows
<1>1. ASSUME NEW h \in Handlers, HandlerStep(h) PROVE IndInv'
  <2>1. Core' /\ Steady(h)
    BY <1>0, <1>1, CoreHandler
  <2>2. Flows'
    BY <1>0, <1>1, <2>1, FlowsStart, FlowsAnswering, FlowsClaim, FlowsRest DEF HandlerStep
  <2>3. Rows' /\ Agreed' /\ Window' /\ Attempts'
    BY <1>0, <1>1, <2>1, RowsHandler, AgreedHandler, WindowHandler, AttemptsHandler
  <2> QED BY <2>1, <2>2, <2>3 DEF IndInv, Core, Flows
<1>2. CASE World
  <2>1. Core'
    BY <1>0, <1>2, CoreWorld
  <2>2. Flows' /\ Rows' /\ Agreed' /\ Window' /\ Attempts'
    BY <1>0, <1>2, <2>1, FlowsWorld, RowsWorld, AgreedWorld, WindowWorld, AttemptsWorld
  <2> QED BY <2>1, <2>2 DEF IndInv, Core, Flows
<1>3. CASE UNCHANGED vars
  BY <1>0, <1>3
     DEF vars, throttle, flows, requests, accounts, history, codes, broken, IndInv, Types, Aims, Locks,
         Sends, Claims, Rows, Agreed, Window, Attempts, Those
<1> QED BY <1>1, <1>2, <1>3 DEF Next, World, HandlerStep

LEMMA Inductive == Spec => []IndInv
BY IndInit, IndStep, PTL DEF Spec

-----------------------------------------------------------------------------
\* "Two requests racing here must not both reach Telegram" (reserve_code_send): however
\* many requests are under way, Telegram is asked (auth_send_code) for one code per
\* cooldown, and for those whose request had booked in an earlier one.
THEOREM OneCodePerCooldown == Spec => []OneSendPerWindow
<1>1. IndInv => OneSendPerWindow
  <2> SUFFICES ASSUME IndInv PROVE OneSendPerWindow
    OBVIOUS
  <2>1. Cardinality(Those({"send"})) \in Nat
    BY SetsAssumption, FS_Subset, FS_CardinalityType DEF Those
  <2>2. /\ sent \in Nat /\ late \in Nat
        /\ sent + Cardinality(Those({"send"})) <= late + (IF cooling THEN 1 ELSE 0)
    BY DEF IndInv, Types, Window
  <2> QED BY <2>1, <2>2 DEF OneSendPerWindow
<1> QED BY <1>1, Inductive, PTL

\* MAX_LOGIN_ATTEMPTS and the block (record_failure, gate): between two pardons no more
\* secrets are tested than the limit and one for every other request that was past the
\* gate, although gate() is not asked again under the lock.
THEOREM BruteForceBounded == Spec => []AttemptsBounded
<1>1. IndInv => AttemptsBounded
  <2> SUFFICES ASSUME IndInv PROVE AttemptsBounded
    OBVIOUS
  <2> DEFINE w == Cardinality(Those(Waiting))
             f == Cardinality(Those({"fail"}))
             all == Cardinality(Handlers)
  <2>1. w \in Nat /\ f \in Nat /\ all \in Nat /\ f <= all
    <3>1. /\ IsFiniteSet(Handlers) /\ Those({"fail"}) \subseteq Handlers
          /\ Those(Waiting) \subseteq Handlers
      BY SetsAssumption DEF Those
    <3> QED BY <3>1, FS_Subset, FS_CardinalityType
  <2>2. /\ failed \in 0..(MaxAttempts - 1) /\ MaxAttempts \in Nat /\ tested \in Nat
        /\ ~blocked => tested <= failed + f
        /\ blocked => tested + w <= MaxAttempts + all - 1
    BY MaxAttemptsAssumption DEF IndInv, Types, Attempts
  <2>3. tested <= MaxAttempts + all - 1
    <3> HIDE DEF w, f, all
    <3> QED BY <2>1, <2>2
  <2> QED BY <2>3 DEF AttemptsBounded
<1> QED BY <1>1, Inductive, PTL

\* "A flow can never be replayed" (submit_code, submit_password, claim): a login is filed
\* at most once, for any number of requests that submit its secrets at the same time.
THEOREM OneClaim == Spec => []OneClaimPerLogin
<1>1. IndInv => OneClaimPerLogin
  BY DEF IndInv, Claims, OneClaimPerLogin
<1> QED BY <1>1, Inductive, PTL

\* The throwaway row of a login (ensure_connected) goes when the login does: by the claim,
\* by a failed send or by the pruner, whichever of them comes first; a row that stays is
\* that of a login that broke off, of a delete that failed, or of known_user_id() at work
\* on a login the pruner had closed.
THEOREM NoRowLeftBehind == Spec => []EndedLoginLeavesNoRow
<1>1. IndInv => EndedLoginLeavesNoRow
  BY DEF IndInv, Rows, EndedLoginLeavesNoRow
<1> QED BY <1>1, Inductive, PTL

\* The users map and the account's session row agree whenever no claim and no logout is
\* under way (claim, logout, restore), unless one broke off, two crossed, or
\* a client of the old manager wrote the row again after the logout.
THEOREM ManagerHasSession == Spec => []SessionAndManagerAgree
<1>1. IndInv => SessionAndManagerAgree
  BY DEF IndInv, Agreed, SessionAndManagerAgree, ClaimPCs, LogoutPCs
<1> QED BY <1>1, Inductive, PTL

================================================================================
