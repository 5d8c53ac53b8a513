--------------------------- MODULE TokenEpochProofs ---------------------------
(***************************************************************************)
(* What TLAPS proves of TokenEpoch when the logouts of an account do not   *)
(* overlap (one logout handler that runs any number of times), for every   *)
(* number of requests, tokens and epochs, with logouts interrupted and the *)
(* server restarted anywhere.  TLC shows that overlapping logouts break it *)
(* (token_racing).                                                         *)
(***************************************************************************)
EXTENDS TokenEpoch, TLAPS

\* The assumption of the theorems: no two logouts of the account overlap.
Serial == \A a, b \in Logouts : a = b

Types ==
  /\ stored \in Nat
  /\ cached \in Nat \union {None}
  /\ logout \in [Logouts -> {"idle", "write", "cache"}]
  /\ next \in [Logouts -> Nat]
  /\ request \in [Requests -> {"idle", "merge"}]
  /\ read \in [Requests -> Nat]
  /\ \A t \in tokens : t.epoch \in Nat
  /\ broken \in BOOLEAN

\* Nothing in memory is ahead of the database.
Behind ==
  /\ CacheBehindStore
  /\ \A q \in Requests : request[q] = "merge" => read[q] <= stored
  /\ \A t \in tokens : t.epoch <= stored

\* A logout in progress has read the epoch just below the one it writes, and what
\* it is to retire is below that.
LogoutSound ==
  /\ retiring \in [Logouts -> SUBSET tokens]
  /\ \A l \in Logouts :
       /\ logout[l] = "write" => next[l] = stored + 1
       /\ logout[l] = "cache" => next[l] = stored
       /\ logout[l] # "idle" => \A t \in retiring[l] : t.epoch < next[l]

\* A retired token is below the database, below the cache, and below whatever a
\* request is about to put into an empty cache.
RetiredBelow ==
  /\ retired \subseteq tokens
  /\ \A t \in retired :
       /\ t.epoch < stored
       /\ cached # None => t.epoch < cached
       /\ cached = None => \A q \in Requests : request[q] = "merge" => t.epoch < read[q]

\* With no logout under way or broken off, memory and database agree.
Settled ==
  NoLogout /\ ~broken =>
    /\ cached # None => cached = stored
    /\ cached = None => \A q \in Requests : request[q] = "merge" => read[q] = stored

FreshCurrent == \A t \in fresh : NoLogout /\ t.epoch = stored

IndInv == Types /\ Behind /\ LogoutSound /\ RetiredBelow /\ Settled /\ FreshCurrent

-----------------------------------------------------------------------------
LEMMA MaxBounds ==
  ASSUME NEW a \in Int, NEW b \in Int
  PROVE  Max2(a, b) \in {a, b} /\ Max2(a, b) >= a /\ Max2(a, b) >= b
BY DEF Max2

LEMMA EpochInit == Init => IndInv
<1> SUFFICES ASSUME Init PROVE IndInv
  OBVIOUS
<1>1. Types
  BY DEF Init, Types
<1>2. Behind /\ RetiredBelow /\ Settled /\ FreshCurrent
  BY DEF Init, Behind, CacheBehindStore, RetiredBelow, Settled, FreshCurrent
<1>3. LogoutSound
  BY DEF Init, LogoutSound
<1> QED BY <1>1, <1>2, <1>3 DEF IndInv

\* A token minted with an epoch the database has reached, and the current one when
\* no logout is under way, leaves the part of the invariant about tokens true.
LEMMA MintKeeps ==
  ASSUME IndInv, NEW e \in Nat, e <= stored, MintOrCheck(e),
         NoLogout /\ ~broken => e = stored,
         UNCHANGED <<stored, logout>>
  PROVE  /\ tokens \subseteq tokens'
         /\ \A t \in tokens' : t.epoch \in Nat /\ t.epoch <= stored
         /\ FreshCurrent'
<1> DEFINE new == [id |-> Cardinality(tokens) + 1, epoch |-> e]
<1>1. new.epoch = e
  OBVIOUS
<1>2. NoLogout' = NoLogout
  BY DEF NoLogout
<1>3. /\ \A t \in tokens : t.epoch \in Nat /\ t.epoch <= stored
      /\ \A t \in fresh : NoLogout /\ t.epoch = stored
  BY DEF IndInv, Types, Behind, FreshCurrent
<1>4. CASE Mint(e)
  <2>1. /\ tokens' = tokens \union {new}
        /\ fresh' = IF NoLogout /\ ~broken THEN fresh \union {new} ELSE fresh
    BY <1>4 DEF Mint
  <2> HIDE DEF new
  <2> QED BY <1>1, <1>2, <1>3, <2>1 DEF FreshCurrent
<1>5. CASE UNCHANGED <<tokens, fresh>>
  BY <1>2, <1>3, <1>5 DEF FreshCurrent
<1> QED BY <1>4, <1>5 DEF MintOrCheck

LEMMA RequestKeeps ==
  ASSUME IndInv, EpochHit \/ \E q \in Requests : EpochMiss(q) \/ EpochMerge(q)
  PROVE  IndInv'
<1>1. CASE EpochHit
  <2>1. /\ UNCHANGED <<stored, cached, logout, next, retiring, request, read,
                       retired, broken>>
        /\ cached # None /\ Mint(cached)
    BY <1>1 DEF EpochHit
  <2>2. cached \in Nat /\ cached <= stored /\ (NoLogout /\ ~broken => cached = stored)
    BY <2>1 DEF IndInv, Types, Behind, CacheBehindStore, Settled
  <2>3. /\ tokens \subseteq tokens'
        /\ \A t \in tokens' : t.epoch \in Nat /\ t.epoch <= stored
        /\ FreshCurrent'
    BY <2>1, <2>2, MintKeeps DEF MintOrCheck
  <2> QED BY <2>1, <2>3 DEF IndInv, Types, Behind, CacheBehindStore, LogoutSound,
                            RetiredBelow, Settled, NoLogout
<1>2. ASSUME NEW q \in Requests, EpochMiss(q) PROVE IndInv'
  <2>1. /\ UNCHANGED <<stored, cached, logout, next, retiring, tokens, retired,
                       fresh, broken>>
        /\ cached = None
        /\ request' = [request EXCEPT ![q] = "merge"]
        /\ read' = [read EXCEPT ![q] = stored]
    BY <1>2 DEF EpochMiss
  <2>2. Types'
    BY <2>1 DEF IndInv, Types
  <2>3. Behind' /\ LogoutSound'
    BY <2>1 DEF IndInv, Types, Behind, CacheBehindStore, LogoutSound
  <2>4. RetiredBelow' /\ Settled' /\ FreshCurrent'
    BY <2>1 DEF IndInv, Types, RetiredBelow, Settled, FreshCurrent, NoLogout
  <2> QED BY <2>2, <2>3, <2>4 DEF IndInv
<1>3. ASSUME NEW q \in Requests, EpochMerge(q) PROVE IndInv'
  <2>1. /\ UNCHANGED <<stored, logout, next, retiring, read, retired, broken>>
        /\ request[q] = "merge"
        /\ request' = [request EXCEPT ![q] = "idle"]
        /\ cached' = MergedWith(read[q])
        /\ MintOrCheck(cached')
    BY <1>3 DEF EpochMerge
  <2>2. /\ cached' \in Nat /\ cached' # None /\ cached' <= stored
        /\ cached # None => cached' >= cached
        /\ cached = None => cached' = read[q]
        /\ NoLogout /\ ~broken => cached' = stored
    BY <2>1, MaxBounds DEF IndInv, Types, Behind, CacheBehindStore, Settled,
                           MergedWith, None
  <2>3. /\ tokens \subseteq tokens'
        /\ \A t \in tokens' : t.epoch \in Nat /\ t.epoch <= stored
        /\ FreshCurrent'
    BY <2>1, <2>2, MintKeeps
  <2>4. Types'
    BY <2>1, <2>2, <2>3 DEF IndInv, Types
  <2>5. Behind' /\ LogoutSound'
    BY <2>1, <2>2, <2>3 DEF IndInv, Types, Behind, CacheBehindStore, LogoutSound
  <2>6. \A t \in retired : t.epoch \in Nat /\ t.epoch < cached'
    BY <2>1, <2>2 DEF IndInv, Types, RetiredBelow
  <2>7. RetiredBelow'
    BY <2>1, <2>2, <2>3, <2>6 DEF IndInv, RetiredBelow
  <2>8. Settled'
    BY <2>1, <2>2 DEF Settled, NoLogout
  <2> QED BY <2>3, <2>4, <2>5, <2>7, <2>8 DEF IndInv
<1> QED BY <1>1, <1>2, <1>3

LEMMA LogoutKeeps ==
  ASSUME Serial, IndInv, NEW l \in Logouts,
         LogoutRead(l) \/ LogoutWrite(l) \/ LogoutCache(l) \/ LogoutDropped(l)
  PROVE  IndInv'
<1>0. \A k \in Logouts : k = l
  BY DEF Serial
<1>1. CASE LogoutRead(l)
  <2>1. /\ UNCHANGED <<stored, cached, request, read, tokens, retired, broken>>
        /\ logout[l] = "idle" /\ logout' = [logout EXCEPT ![l] = "write"]
        /\ next' = [next EXCEPT ![l] = stored + 1]
        /\ retiring' = [retiring EXCEPT ![l] = tokens]
        /\ fresh' = {}
    BY <1>1 DEF LogoutRead
  <2>2. Types'
    BY <2>1 DEF IndInv, Types
  <2>3. ~NoLogout'
    BY <2>1 DEF IndInv, Types, NoLogout
  <2>4. LogoutSound'
    <3>1. retiring' \in [Logouts -> SUBSET tokens'] /\ retiring'[l] = tokens
      BY <2>1 DEF IndInv, LogoutSound
    <3>2. next'[l] = stored + 1 /\ logout'[l] = "write"
      BY <2>1 DEF IndInv, Types
    <3>3. \A t \in retiring'[l] : t.epoch < next'[l]
      BY <3>1, <3>2 DEF IndInv, Types, Behind
    <3> QED BY <1>0, <2>1, <3>1, <3>2, <3>3 DEF LogoutSound
  <2>5. Behind' /\ RetiredBelow'
    BY <2>1 DEF IndInv, Behind, CacheBehindStore, RetiredBelow
  <2> QED BY <2>1, <2>2, <2>3, <2>4, <2>5 DEF IndInv, Settled, FreshCurrent
<1>2. CASE LogoutWrite(l)
  <2>1. /\ UNCHANGED <<cached, next, retiring, request, read, tokens, retired, fresh,
                       broken>>
        /\ logout[l] = "write" /\ logout' = [logout EXCEPT ![l] = "cache"]
        /\ stored' = next[l] /\ next[l] = stored + 1
    BY <1>2 DEF LogoutWrite, IndInv, LogoutSound
  <2>2. Types'
    BY <2>1 DEF IndInv, Types
  <2>3. ~NoLogout /\ ~NoLogout'
    BY <2>1 DEF IndInv, Types, NoLogout
  <2>4. LogoutSound'
    BY <1>0, <2>1 DEF IndInv, Types, LogoutSound
  <2>5. Behind' /\ RetiredBelow'
    BY <2>1 DEF IndInv, Types, Behind, CacheBehindStore, RetiredBelow
  <2> QED BY <2>1, <2>2, <2>3, <2>4, <2>5 DEF IndInv, Settled, FreshCurrent
<1>3. CASE LogoutCache(l)
  <2>1. /\ UNCHANGED <<stored, next, retiring, request, read, tokens, fresh>>
        /\ logout[l] = "cache" /\ logout' = [logout EXCEPT ![l] = "idle"]
        /\ cached' = MergedWith(next[l]) /\ next[l] = stored
        /\ retired' = retired \union retiring[l]
        /\ broken' = FALSE
    BY <1>3 DEF LogoutCache, IndInv, LogoutSound
  <2>2. cached' = stored /\ cached' # None
    BY <2>1, MaxBounds DEF IndInv, Types, Behind, CacheBehindStore, MergedWith, Max2, None
  <2>3. Types'
    BY <2>1, <2>2 DEF IndInv, Types
  <2>4. ~NoLogout
    BY <2>1 DEF NoLogout
  <2>5. LogoutSound'
    BY <1>0, <2>1 DEF IndInv, Types, LogoutSound
  <2>6. Behind'
    BY <2>1, <2>2 DEF IndInv, Types, Behind, CacheBehindStore
  <2>7. retired' \subseteq tokens /\ \A t \in retired' : t.epoch < stored
    BY <2>1 DEF IndInv, LogoutSound, RetiredBelow
  <2>8. RetiredBelow'
    BY <2>1, <2>2, <2>7 DEF RetiredBelow
  <2> QED BY <2>1, <2>2, <2>3, <2>4, <2>5, <2>6, <2>8 DEF IndInv, Settled, FreshCurrent
<1>4. CASE LogoutDropped(l)
  <2>1. /\ UNCHANGED <<cached, next, retiring, request, read, tokens, retired, fresh>>
        /\ logout[l] # "idle" /\ logout' = [logout EXCEPT ![l] = "idle"]
        /\ stored' = stored \/ stored' = stored + 1
        /\ broken' = TRUE
    BY <1>4 DEF LogoutDropped, IndInv, LogoutSound
  <2>2. Types'
    BY <2>1 DEF IndInv, Types
  <2>3. ~NoLogout
    BY <2>1 DEF NoLogout
  <2>4. LogoutSound'
    BY <1>0, <2>1 DEF IndInv, Types, LogoutSound
  <2>5. Behind' /\ RetiredBelow'
    BY <2>1 DEF IndInv, Types, Behind, CacheBehindStore, RetiredBelow
  <2> QED BY <2>1, <2>2, <2>3, <2>4, <2>5 DEF IndInv, Settled, FreshCurrent
<1> QED BY <1>1, <1>2, <1>3, <1>4

LEMMA RestartKeeps == IndInv /\ Restart => IndInv'
<1> SUFFICES ASSUME IndInv, Restart PROVE IndInv'
  OBVIOUS
<1>1. /\ UNCHANGED <<stored, next, retiring, read, tokens, retired, fresh>>
      /\ cached' = None /\ broken' = FALSE
      /\ logout' = [l \in Logouts |-> "idle"]
      /\ request' = [q \in Requests |-> "idle"]
  BY DEF Restart
<1>2. Types'
  BY <1>1 DEF IndInv, Types
<1>3. NoLogout' /\ LogoutSound'
  BY <1>1 DEF IndInv, LogoutSound, NoLogout
<1>4. Behind' /\ RetiredBelow' /\ Settled' /\ FreshCurrent'
  BY <1>1, <1>3
     DEF IndInv, Behind, CacheBehindStore, RetiredBelow, Settled, FreshCurrent
<1> QED BY <1>2, <1>3, <1>4 DEF IndInv

LEMMA EpochStep == Serial /\ IndInv /\ [Next]_vars => IndInv'
<1> SUFFICES ASSUME Serial, IndInv, [Next]_vars PROVE IndInv'
  OBVIOUS
<1>1. CASE Next
  BY <1>1, RequestKeeps, LogoutKeeps, RestartKeeps DEF Next
<1>2. CASE UNCHANGED vars
  BY <1>2 DEF vars, IndInv, Types, Behind, CacheBehindStore, LogoutSound,
              RetiredBelow, Settled, FreshCurrent, NoLogout
<1> QED BY <1>1, <1>2

LEMMA SerialInvariant == ASSUME Serial PROVE Spec => []IndInv
<1>1. IndInv /\ [Next]_vars => IndInv'
  BY EpochStep
<1> QED BY EpochInit, <1>1, PTL DEF Spec

-----------------------------------------------------------------------------
\* bump_epoch "retires every session token outstanding": once a logout has finished
\* the tokens it found are refused for ever, also by a server that restarts and
\* loads the epoch afresh, and by one whose cache a slow request refills.
THEOREM RevocationHolds == ASSUME Serial PROVE Spec => []RevokedStayDead
<1>1. IndInv => RevokedStayDead
  BY DEF IndInv, Types, RetiredBelow, RevokedStayDead, Accepted, Current, None
<1> QED BY SerialInvariant, <1>1, PTL

\* Nobody is locked out: a token minted after the last logout is accepted until the
\* next one starts.
THEOREM FreshTokensWork == ASSUME Serial PROVE Spec => []FreshAccepted
<1>1. IndInv => FreshAccepted
  BY DEF IndInv, Types, Behind, CacheBehindStore, FreshCurrent, FreshAccepted,
         Accepted, Current
<1> QED BY SerialInvariant, <1>1, PTL

\* The cache never runs ahead of what is persisted, so a restart cannot revive what
\* the cache had retired.
THEOREM CacheNeverAhead == ASSUME Serial PROVE Spec => []CacheBehindStore
<1>1. IndInv => CacheBehindStore
  BY DEF IndInv, Behind
<1> QED BY SerialInvariant, <1>1, PTL

=============================================================================
