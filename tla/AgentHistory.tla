---------------------------- MODULE AgentHistory ----------------------------
(***************************************************************************)
(* Agent with a history variable that no action of it reads: for how long  *)
(* the last cacheable response of each key has been known.  It serves to   *)
(* state what the documentation says of the fallback of fail_open.         *)
(***************************************************************************)
EXTENDS Agent

VARIABLES
  sinceOK   \* key -> time since a response with it was cached, Never if none was

Never == -1

hvars == <<vars, sinceOK>>

Grown(age) == IF age = Never \/ age = MaxAge THEN age ELSE age + 1

\* A unit is delivered whose result is cached.
Stores(k) ==
  /\ DeliverUnit
  /\ CacheKey[Head(units).primary] = k
  /\ shouldCacheResult(PrimaryResult(Head(units)))

HInit ==
  /\ Init
  /\ sinceOK = [k \in Keys |-> Never]

HNext ==
  /\ Next
  /\ sinceOK' = [k \in Keys |-> IF Stores(k) THEN 0
                                ELSE IF Elapse THEN Grown(sinceOK[k]) ELSE sinceOK[k]]

HSpec == HInit /\ [][HNext]_hvars
----------------------------------------------------------------------------
\* "fail_open: for cacheable requests, return recent stale cached responses when
\* recoverable GitHub-side errors occur" (docs/usage.md): a unit that fails with a
\* recoverable error, while a response for its key is no older than
\* stale_if_error_ttl_ms, is served that response.
FailOpenServesStale ==
  [][FailUnit /\ FailOpen /\ isRecoverableCode(failCode) /\ cacheable(Head(units).primary)
       => LET age == sinceOK[CacheKey[Head(units).primary]]
          IN  age \in 0 .. StaleIfErrorTTL => stats'.failOpenServed > stats.failOpenServed]_hvars
============================================================================
