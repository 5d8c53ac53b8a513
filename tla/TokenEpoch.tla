------------------------------ MODULE TokenEpoch ------------------------------
(***************************************************************************)
(* Session-token revocation for one account: the epoch kept in the         *)
(* database (db/settings.rs) and cached in AppState (state.rs), the tokens *)
(* minted under it (auth.rs, signed_in in routes/session.rs) and logout.   *)
(*                                                                         *)
(* Accounts share nothing here, so one is modelled.  A database query and  *)
(* a critical section of the cache's lock are one step each.               *)
(***************************************************************************)
EXTENDS Integers, FiniteSets

CONSTANTS
  Logouts,    \* auth_logout handlers that may run at once
  Requests,   \* logins and authenticated requests that may run at once
  MaxEpoch,   \* bound: no logout starts when the stored epoch is there
  MaxTokens   \* bound: tokens minted

ASSUME HandlersAssumption == IsFiniteSet(Logouts) /\ IsFiniteSet(Requests)
ASSUME BoundsAssumption == MaxEpoch \in Nat /\ MaxTokens \in Nat

None == -1

VARIABLES
  stored,    \* the epoch in the database, 0 when there is no row
  cached,    \* the entry of AppState.epochs, None before it is loaded
  logout,    \* each logout: "idle", "write", "cache"
  next,      \* the epoch a logout is going to write
  retiring,  \* the tokens that were out when a logout began
  request,   \* each request: "idle", "merge"
  read,      \* the epoch a request read from the database
  tokens,    \* tokens minted
  retired,   \* tokens a finished logout had to retire
  fresh,     \* tokens minted since, and not during, the last logout
  broken     \* a logout was interrupted and none has finished since

vars == <<stored, cached, logout, next, retiring, request, read, tokens,
          retired, fresh, broken>>

Max2(a, b) == IF a >= b THEN a ELSE b

\* What session_user() holds a token against if a request comes in now.
Current == IF cached = None THEN stored ELSE cached

\* session_user(): epoch >= self.epoch(uid).
Accepted(t) == t.epoch >= Current

NoLogout == \A l \in Logouts : logout[l] = "idle"

-----------------------------------------------------------------------------
(* epoch(), used by signed_in() to mint and by session_user() to check *)

\* signed_in(): the token carries the epoch that epoch() answered.
Mint(e) ==
  /\ Cardinality(tokens) < MaxTokens
  /\ LET t == [id |-> Cardinality(tokens) + 1, epoch |-> e] IN
     /\ tokens' = tokens \union {t}
     /\ fresh' = IF NoLogout /\ ~broken THEN fresh \union {t} ELSE fresh

\* A request that only checks a token leaves the tokens alone.
MintOrCheck(e) == Mint(e) \/ UNCHANGED <<tokens, fresh>>

\* The cache has the entry.
EpochHit ==
  /\ cached # None
  /\ Mint(cached)
  /\ UNCHANGED <<stored, cached, logout, next, retiring, request, read,
                 retired, broken>>

\* It has not: the database is read with no lock held.
EpochMiss(q) ==
  /\ request[q] = "idle"
  /\ cached = None
  /\ request' = [request EXCEPT ![q] = "merge"]
  /\ read' = [read EXCEPT ![q] = stored]
  /\ UNCHANGED <<stored, cached, logout, next, retiring, tokens, retired,
                 fresh, broken>>

\* Variant: the value read replaces the entry.
Overwrite(e) == e

\* "never overwrite it": entry().or_insert(e), then max.
MergedWith(e) == IF cached = None THEN e ELSE Max2(cached, e)

\* Variant: the token carries what was read, not what the merge gave.
EpochMergeStale(q) ==
  /\ request[q] = "merge"
  /\ cached' = MergedWith(read[q])
  /\ MintOrCheck(read[q])
  /\ request' = [request EXCEPT ![q] = "idle"]
  /\ UNCHANGED <<stored, logout, next, retiring, read, retired, broken>>

EpochMerge(q) ==
  /\ request[q] = "merge"
  /\ cached' = MergedWith(read[q])
  /\ MintOrCheck(cached')
  /\ request' = [request EXCEPT ![q] = "idle"]
  /\ UNCHANGED <<stored, logout, next, retiring, read, retired, broken>>

-----------------------------------------------------------------------------
(* auth_logout: bump_epoch, which reads, writes and then caches *)

\* Variant: the cache is raised before the new epoch is persisted.
LogoutCacheFirst(l) ==
  /\ logout[l] = "idle"
  /\ stored < MaxEpoch
  /\ logout' = [logout EXCEPT ![l] = "write"]
  /\ next' = [next EXCEPT ![l] = stored + 1]
  /\ cached' = MergedWith(stored + 1)
  /\ retiring' = [retiring EXCEPT ![l] = tokens]
  /\ fresh' = {}
  /\ UNCHANGED <<stored, request, read, tokens, retired, broken>>

LogoutRead(l) ==
  /\ logout[l] = "idle"
  /\ stored < MaxEpoch
  /\ logout' = [logout EXCEPT ![l] = "write"]
  /\ next' = [next EXCEPT ![l] = stored + 1]
  /\ retiring' = [retiring EXCEPT ![l] = tokens]
  /\ fresh' = {}
  /\ UNCHANGED <<stored, cached, request, read, tokens, retired, broken>>

LogoutWrite(l) ==
  /\ logout[l] = "write"
  /\ stored' = next[l]
  /\ logout' = [logout EXCEPT ![l] = "cache"]
  /\ UNCHANGED <<cached, next, retiring, request, read, tokens, retired, fresh,
                 broken>>

LogoutCache(l) ==
  /\ logout[l] = "cache"
  /\ cached' = MergedWith(next[l])
  /\ retired' = retired \union retiring[l]
  /\ logout' = [logout EXCEPT ![l] = "idle"]
  /\ broken' = FALSE
  /\ UNCHANGED <<stored, next, retiring, request, read, tokens, fresh>>

\* The client goes away: the handler stops where it is, and a query it had sent
\* to the database may still be executed.  Nothing was promised to the client.
LogoutDropped(l) ==
  /\ logout[l] # "idle"
  /\ \/ UNCHANGED stored
     \/ logout[l] = "write" /\ stored' = next[l]
  /\ logout' = [logout EXCEPT ![l] = "idle"]
  /\ broken' = TRUE
  /\ UNCHANGED <<cached, next, retiring, request, read, tokens, retired, fresh>>

\* A restart keeps the database only.
Restart ==
  /\ cached' = None
  /\ logout' = [l \in Logouts |-> "idle"]
  /\ request' = [q \in Requests |-> "idle"]
  /\ broken' = FALSE
  /\ UNCHANGED <<stored, next, retiring, read, tokens, retired, fresh>>

-----------------------------------------------------------------------------
Init ==
  /\ stored = 0
  /\ cached = None
  /\ logout = [l \in Logouts |-> "idle"]
  /\ next = [l \in Logouts |-> 0]
  /\ retiring = [l \in Logouts |-> {}]
  /\ request = [q \in Requests |-> "idle"]
  /\ read = [q \in Requests |-> 0]
  /\ tokens = {}
  /\ retired = {}
  /\ fresh = {}
  /\ broken = FALSE

Next ==
  \/ EpochHit \/ Restart
  \/ \E q \in Requests : EpochMiss(q) \/ EpochMerge(q)
  \/ \E l \in Logouts :
       LogoutRead(l) \/ LogoutWrite(l) \/ LogoutCache(l) \/ LogoutDropped(l)

Spec == Init /\ [][Next]_vars

-----------------------------------------------------------------------------
(* Correctness *)

\* "Retires every session token outstanding" (bump_epoch): a token that was out
\* when a finished logout began is refused, now and after a restart.
RevokedStayDead == \A t \in retired : ~Accepted(t) /\ t.epoch < stored

\* Signing in works: a token minted after the last logout is accepted as long
\* as nobody starts another one, across restarts too.  (A logout interrupted
\* half-way may retire more than it should, "over-revokes (safe)", until the next
\* one finishes or the server restarts.)
FreshAccepted == \A t \in fresh : Accepted(t)

\* The cache is never ahead of the database ("persist first, then cache").
CacheBehindStore == cached # None => cached <= stored

=============================================================================
