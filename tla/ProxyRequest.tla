---------------------------- MODULE ProxyRequest ----------------------------
(***************************************************************************)
(* What the proxy does with one request: proxy/addon.py with the rate      *)
(* limiter, the policy engine's coalescing (policy/engine.py), the         *)
(* escalation tracker (middleware/rate_escalation.py) and the refresh of   *)
(* the Anthropic key.                                                      *)
(*                                                                         *)
(* mitmproxy runs the hooks of an addon one after the other.  Every part   *)
(* reads time.time() for itself, so the clock may move between the steps   *)
(* of one request.  A dictionary is a function on the hosts it has.  Left  *)
(* out are counters that are only reported, and the text of entries.       *)
(***************************************************************************)
EXTENDS Integers, Sequences, Functions

CONSTANTS
  Host,            \* hosts requested
  Anthropic,       \* api.anthropic.com
  Limit, Window,   \* rate_limit_requests, rate_limit_window
  Escalating,      \* whether AegisAddon is given a RateEscalationTracker
  BlockAt, Decay,  \* the third of escalation_thresholds, and decay_period
  Key,             \* values of ANTHROPIC_API_KEY
  RefreshInterval, \* _AUTH_REFRESH_MIN_INTERVAL
  MaxTime,         \* bound: the clock
  MaxRequests      \* bound: requests

ASSUME ProxyAssumption ==
  /\ Anthropic \in Host
  /\ Escalating \in BOOLEAN
  /\ {Limit, BlockAt, MaxTime} \subseteq Nat \ {0}
  /\ {Window, Decay, RefreshInterval, MaxRequests} \subseteq Nat

VARIABLES
  now,           \* time.time()
  timestamps,    \* _request_timestamps
  limiterPruned, \* _last_rate_prune
  coalesced,     \* _coalesced of the policy engine, for the keys rate:<host>
  enginePruned,  \* its _last_prune
  escalation,    \* _hosts of the tracker: anomaly_count and last_anomaly
  trackerPruned, \* its _last_prune
  refreshes,     \* _refresh_hermes_auth_enabled
  secret,        \* ANTHROPIC_API_KEY in _vault_secrets, Unusable when it is not
  authRefreshed, \* _auth_last_refreshed
  authFile,      \* the key auth.json offers, Unusable when there is none
  at,            \* the step the current request is at, "idle" without one
  host,          \* its host
  outcome,       \* of the last request
  requests,      \* history: requests so far
  under,         \* history: for each host the times of requests under the limit
  anomalies,     \* history: for each host the times of recorded anomalies
  reported,      \* history: for each host the times of RATE_ANOMALY entries
  unwritten,     \* history: the audit trail raised for an anomaly
  authSince      \* history: when authFile last changed

limiterVars == <<timestamps, limiterPruned, under>>
engineVars == <<coalesced, enginePruned, reported, unwritten>>
trackerVars == <<escalation, trackerPruned, anomalies>>
authVars == <<refreshes, secret, authRefreshed, authFile, authSince>>
flowVars == <<at, host, outcome, requests>>
vars == <<now, limiterVars, engineVars, trackerVars, authVars, flowVars>>

-----------------------------------------------------------------------------
Unusable == "unusable"
Steps == {"idle", "anomaly", "escalate", "route"}
Empty == [h \in {} |-> 0]

\* d[h] = v, and the dictionary without some keys.
Put(d, h, v) == [k \in DOMAIN d \cup {h} |-> IF k = h THEN v ELSE d[k]]
Without(d, hs) == Restrict(d, DOMAIN d \ hs)

\* `run` has the addon refresh the key only where it took it from auth.json,
\* since the vault has none; any other start leaves it as the vault has it.
FirstKey == secret \in IF refreshes THEN Key ELSE Key \cup {Unusable}

Init ==
  /\ now = 1
  /\ timestamps = Empty /\ limiterPruned = 1
  /\ coalesced = Empty /\ enginePruned = 1
  /\ escalation = Empty /\ trackerPruned = 1
  /\ refreshes \in BOOLEAN /\ FirstKey
  /\ authFile \in Key \cup {Unusable} /\ authRefreshed = -RefreshInterval
  /\ at = "idle" /\ host \in Host /\ outcome = "none"
  /\ requests = 0
  /\ under = [h \in Host |-> <<>>]
  /\ anomalies = [h \in Host |-> <<>>]
  /\ reported = [h \in Host |-> <<>>]
  /\ unwritten = FALSE /\ authSince = 1

(* ---- the world --------------------------------------------------------- *)

\* Bound: nothing happens after the last request.
More == requests < MaxRequests \/ at # "idle"

Tick ==
  /\ More
  /\ now < MaxTime /\ now' = now + 1
  /\ UNCHANGED <<limiterVars, engineVars, trackerVars, authVars, flowVars>>

\* hermes-agent writes auth.json, or a key in it expires.
AuthChanges ==
  /\ More
  /\ authFile' \in (Key \cup {Unusable}) \ {authFile}
  /\ authSince' = now
  /\ UNCHANGED <<now, limiterVars, engineVars, trackerVars, refreshes, secret, authRefreshed, flowVars>>

(* ---- the end of a request ---------------------------------------------- *)

Ends(result) == at' = "idle" /\ outcome' = result /\ UNCHANGED <<host, requests>>
GoesTo(step) == at' = step /\ UNCHANGED <<host, outcome, requests>>

\* An entry BLOCKED and flow.kill().  If the audit trail raises, request()
\* catches it and lets the request pass.
Blocked == Ends("killed") \/ Ends("raised")

(* ---- _check_rate_limit ------------------------------------------------- *)

\* Faulty variant: hosts whose oldest, not newest, request is out of the window.
StaleHostsByOldest ==
  IF now - limiterPruned < Window THEN {}
  ELSE { h \in DOMAIN timestamps :
           timestamps[h] = <<>> \/ timestamps[h][1] < now - Window }

\* The hosts _maybe_prune_hosts drops.
StaleHosts ==
  IF now - limiterPruned < Window THEN {}
  ELSE { h \in DOMAIN timestamps :
           \/ timestamps[h] = <<>>
           \/ timestamps[h][Len(timestamps[h])] < now - Window }

\* What popleft() leaves of some timestamps: those from the first on that is in
\* the window.
FirstInWindow(times) ==
  CHOOSE k \in 1..(Len(times) + 1) :
    /\ \A i \in 1..(k - 1) : times[i] < now - Window
    /\ k <= Len(times) => times[k] >= now - Window

\* The timestamps of h that are in the window.
InWindow(h) ==
  IF h \in DOMAIN timestamps \ StaleHosts
    THEN SubSeq(timestamps[h], FirstInWindow(timestamps[h]), Len(timestamps[h]))
    ELSE <<>>

CheckRateLimit(h) ==
  LET over == Len(InWindow(h)) >= Limit
      times == IF over THEN InWindow(h) ELSE Append(InWindow(h), now)
  IN /\ timestamps' = Put(Without(timestamps, StaleHosts), h, times)
     /\ limiterPruned' = IF now - limiterPruned < Window THEN limiterPruned ELSE now
     /\ under' = IF over THEN under ELSE [under EXCEPT ![h] = Append(@, now)]
     /\ at' = IF over THEN "anomaly" ELSE "route"

Request(h) ==
  /\ at = "idle" /\ requests < MaxRequests
  /\ host' = h /\ outcome' = "none" /\ requests' = requests + 1
  /\ CheckRateLimit(h)
  /\ UNCHANGED <<now, engineVars, trackerVars, authVars>>

(* ---- the RATE_ANOMALY entry: PolicyEngine.process ---------------------- *)

AfterAnomaly == IF Escalating THEN "escalate" ELSE "route"

StaleKeys ==
  IF now - enginePruned < Window THEN {}
  ELSE { h \in DOMAIN coalesced : coalesced[h] < now - Window }

Fresh == host \in DOMAIN coalesced \ StaleKeys /\ now - coalesced[host] < Window

\* Faulty variant: every suppressed event extends the window.
CoalesceSliding ==
  /\ at = "anomaly" /\ Fresh
  /\ coalesced' = Put(Without(coalesced, StaleKeys), host, now)
  /\ enginePruned' = IF now - enginePruned < Window THEN enginePruned ELSE now
  /\ GoesTo(AfterAnomaly)
  /\ UNCHANGED <<now, limiterVars, reported, unwritten, trackerVars, authVars>>

\* A second event within the window is suppressed.
Coalesce ==
  /\ at = "anomaly" /\ Fresh
  /\ coalesced' = Without(coalesced, StaleKeys)
  /\ enginePruned' = IF now - enginePruned < Window THEN enginePruned ELSE now
  /\ GoesTo(AfterAnomaly)
  /\ UNCHANGED <<now, limiterVars, reported, unwritten, trackerVars, authVars>>

\* The key is remembered before the entry is written; trail.log() may raise.
Report ==
  /\ at = "anomaly" /\ ~Fresh
  /\ coalesced' = Put(Without(coalesced, StaleKeys), host, now)
  /\ enginePruned' = IF now - enginePruned < Window THEN enginePruned ELSE now
  /\ \/ /\ reported' = [reported EXCEPT ![host] = Append(@, now)]
        /\ GoesTo(AfterAnomaly)
        /\ UNCHANGED unwritten
     \/ /\ unwritten' = TRUE
        /\ Ends("raised")
        /\ UNCHANGED reported
  /\ UNCHANGED <<now, limiterVars, trackerVars, authVars>>

(* ---- record_anomaly ---------------------------------------------------- *)

\* Faulty variant: a cutoff of now.
ForgottenEarly ==
  IF now - trackerPruned < Decay THEN {}
  ELSE { h \in DOMAIN escalation : escalation[h].last < now }

\* The hosts _maybe_prune drops.
Forgotten ==
  IF now - trackerPruned < Decay THEN {}
  ELSE { h \in DOMAIN escalation : escalation[h].last < now - 2 * Decay }

\* The count of h after its decay, if any.
Remaining(h) ==
  IF h \in DOMAIN escalation /\ now - escalation[h].last <= Decay
    THEN escalation[h].count ELSE 0

\* Level 3 is the only level the addon looks at.
RecordAnomaly ==
  /\ at = "escalate"
  /\ LET known == IF host \in Forgotten THEN 0 ELSE Remaining(host)
     IN /\ escalation' = Put(Without(escalation, Forgotten), host,
                             [count |-> known + 1, last |-> now])
        /\ IF known + 1 >= BlockAt THEN Blocked ELSE GoesTo("route")
  /\ trackerPruned' = IF now - trackerPruned < Decay THEN trackerPruned ELSE now
  /\ anomalies' = [anomalies EXCEPT ![host] = Append(@, now)]
  /\ UNCHANGED <<now, limiterVars, engineVars, authVars>>

(* ---- the rest of _handle_request --------------------------------------- *)

\* Faulty variant: the interval starts anew with every request.
RefreshAuthPostponed(force) ==
  LET due == force \/ now - authRefreshed >= RefreshInterval
  IN /\ authRefreshed' = now
     /\ secret' = IF due /\ authFile # Unusable THEN authFile ELSE secret
     /\ UNCHANGED <<refreshes, authFile, authSince>>

\* _refresh_hermes_auth: the interval counts from the attempt, not from a
\* success.
RefreshAuth(force) ==
  LET due == force \/ now - authRefreshed >= RefreshInterval
  IN /\ authRefreshed' = IF due THEN now ELSE authRefreshed
     /\ secret' = IF due /\ authFile # Unusable THEN authFile ELSE secret
     /\ UNCHANGED <<refreshes, authFile, authSince>>

RouteAnthropic ==
  /\ at = "route" /\ host = Anthropic
  /\ IF refreshes THEN RefreshAuth(FALSE) ELSE UNCHANGED authVars
  /\ Ends("passed")
  /\ UNCHANGED <<now, limiterVars, engineVars, trackerVars>>

\* Another provider, a git host or a service whose own key it is, or a host on
\* the allowlist without a secret in the request: which one is data.
Pass ==
  /\ at = "route" /\ host # Anthropic
  /\ Ends("passed")
  /\ UNCHANGED <<now, limiterVars, engineVars, trackerVars, authVars>>

\* Not on the allowlist, or with a secret.
Reject ==
  /\ at = "route" /\ host # Anthropic
  /\ Blocked
  /\ UNCHANGED <<now, limiterVars, engineVars, trackerVars, authVars>>

\* response(): 401 from Anthropic, between two requests.
Unauthorized ==
  /\ at = "idle" /\ requests > 0 /\ More
  /\ refreshes
  /\ RefreshAuth(TRUE)
  /\ UNCHANGED <<now, limiterVars, engineVars, trackerVars, flowVars>>

-----------------------------------------------------------------------------
Next ==
  \/ Tick \/ AuthChanges
  \/ \E h \in Host : Request(h)
  \/ Coalesce \/ Report
  \/ RecordAnomaly
  \/ RouteAnthropic \/ Pass \/ Reject
  \/ Unauthorized

Spec == Init /\ [][Next]_vars

-----------------------------------------------------------------------------
(* Properties. *)

Time == 1..now
HostTimes == [Host -> Seq(Time)]
IsDictionary(d, S) == DOMAIN d \subseteq Host /\ \A h \in DOMAIN d : d[h] \in S

\* Every variable has its type; a deque of timestamps is never longer than the
\* limit, and the request is at a step the tracker's presence allows.
TypeOK ==
  /\ now \in 1..MaxTime /\ requests \in 0..MaxRequests
  /\ IsDictionary(timestamps, Seq(Time))
  /\ \A h \in DOMAIN timestamps : Len(timestamps[h]) <= Limit
  /\ IsDictionary(coalesced, Time)
  /\ IsDictionary(escalation, [count : Nat \ {0}, last : Time])
  /\ {limiterPruned, enginePruned, trackerPruned, authSince} \subseteq Time
  /\ refreshes \in BOOLEAN /\ FirstKey /\ authFile \in Key \cup {Unusable}
  /\ authRefreshed \in {-RefreshInterval} \cup Time
  /\ at \in Steps /\ host \in Host /\ (at = "escalate" => Escalating)
  /\ outcome \in {"none", "passed", "killed", "raised"}
  /\ under \in HostTimes /\ anomalies \in HostTimes /\ reported \in HostTimes
  /\ unwritten \in BOOLEAN

\* No more than Limit requests of a host go unnoticed in any Window, wherever
\* the window is laid: pruning, of a deque or of a whole host, is invisible.
RateWindow ==
  \A h \in Host : \A i \in 1..(Len(under[h]) - Limit) :
    under[h][i + Limit] - under[h][i] > Window

\* The last two of some times are at least Window apart.
Apart(times) ==
  Len(times) < 2 \/ times[Len(times)] - times[Len(times) - 1] >= Window

\* A burst stays on record: unless the audit trail raised, a request over the
\* limit has, when it goes on, an entry of its host that is less than Window
\* old or its own; and no two entries of a host are nearer than Window.
AnomaliesReported ==
  [][ at = "anomaly" /\ at' \in {"escalate", "route"}
        => \/ unwritten
           \/ /\ reported'[host] # <<>>
              /\ \/ reported'[host] # reported[host]
                 \/ now - reported[host][Len(reported[host])] < Window
              /\ Apart(reported'[host]) ]_vars

\* The anomalies of h without a gap of more than Decay, up to now.
Run(h) ==
  LET times == anomalies[h]
      n == Len(times)
      Unbroken(k) ==        \* the last k of them
        /\ k > 0 => now - times[n] <= Decay
        /\ \A i \in (n - k + 2)..n : times[i] - times[i - 1] <= Decay
  IN CHOOSE k \in 0..n : Unbroken(k) /\ (k < n => ~Unbroken(k + 1))

\* What the tracker remembers of a host, after decay, is its unbroken run of
\* anomalies: neither lazy decay nor pruning shows.
LevelIsOfRun == \A h \in Host : Escalating => Remaining(h) = Run(h)

\* docs/FOR_HERMES_AGENT.md: "Level 3 (blocked): 4+ anomalies - requests to
\* that host are blocked" until the escalation decays.
BlockedUntilDecay ==
  [][ (/\ at # "idle" /\ at' = "idle"
       /\ Len(SelectSeq(reported[host], LAMBDA t : t >= now - Decay)) >= BlockAt)
        => outcome' # "passed" ]_vars

\* Where the addon refreshes, a key that auth.json has offered for
\* RefreshInterval is the one injected, whatever was read before it and
\* whenever; where it does not, no 401 and no request replaces the vault's key.
KeyInTime ==
  [][ IF refreshes
        THEN (/\ at = "route" /\ host = Anthropic /\ at' = "idle"
              /\ authFile # Unusable /\ now - authSince >= RefreshInterval)
               => secret' = authFile
        ELSE secret' = secret ]_vars
=============================================================================
