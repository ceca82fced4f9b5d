------------------------- MODULE NetworkConfigCache -------------------------
(***************************************************************************)
(* blockchain/baseProxy.go: GetNetworkConfig, the network configuration    *)
(* cached for a limited time and shared by every goroutine that uses the   *)
(* proxy.  The cache is read under the read lock; when it has expired the  *)
(* caller takes the write lock, looks again, and fetches with the lock     *)
(* held.                                                                   *)
(*                                                                         *)
(* A configuration is known by the time at which it was fetched.           *)
(***************************************************************************)
EXTENDS Integers

CONSTANTS
    Clients,            \* goroutines that use the proxy
    Expiry,             \* cacheExpiryDuration
    MaxTime             \* bound: length of the run

ASSUME TimesAreNatural == Expiry \in Nat /\ MaxTime \in Nat

Nobody == "nobody"
Never == -1             \* the zero time.Time, longer ago than any duration

ASSUME ClientsAreSomebody == Nobody \notin Clients

VARIABLES
    now,
    mut,                \* the goroutine that holds the write lock
    fetchedConfigs, lastFetchedTime,
    configPc,           \* where a goroutine is in GetNetworkConfig
    config,             \* what it has got
    asked               \* history: when it called

configVars == <<now, mut, fetchedConfigs, lastFetchedTime, configPc, config, asked>>

Times == 0..MaxTime

ConfigTypeOK ==
    /\ now \in Times
    /\ mut \in Clients \cup {Nobody}
    /\ fetchedConfigs \in Times \cup {Never}
    /\ lastFetchedTime \in Times \cup {Never}
    /\ configPc \in [Clients -> {"none", "read", "lock", "fetch", "got", "failed"}]
    /\ \A c \in Clients : configPc[c] = "got" => config[c] \in Times
    /\ asked \in [Clients -> Times]

ConfigInit ==
    /\ now = 0
    /\ mut = Nobody
    /\ fetchedConfigs = Never
    /\ lastFetchedTime = Never
    /\ configPc = [c \in Clients |-> "none"]
    /\ config = [c \in Clients |-> Never]
    /\ asked = [c \in Clients |-> 0]

-----------------------------------------------------------------------------

TimePasses ==
    /\ now < MaxTime
    /\ now' = now + 1
    /\ UNCHANGED <<mut, fetchedConfigs, lastFetchedTime, configPc, config, asked>>

\* mutant: a configuration is taken for expired one unit late
getCachedConfigsLate ==
    IF lastFetchedTime = Never \/ now - lastFetchedTime > Expiry + 1 THEN Never
    ELSE fetchedConfigs

getCachedConfigs ==
    IF lastFetchedTime = Never \/ now - lastFetchedTime > Expiry THEN Never
    ELSE fetchedConfigs

\* under the read lock
GetNetworkConfig(c) ==
    /\ configPc[c] = "read"
    /\ mut = Nobody
    /\ config' = [config EXCEPT ![c] = getCachedConfigs]
    /\ configPc' = [configPc EXCEPT ![c] = IF getCachedConfigs # Never THEN "got" ELSE "lock"]
    /\ UNCHANGED <<now, mut, fetchedConfigs, lastFetchedTime, asked>>

\* mutant: what another goroutine fetched meanwhile is not looked at
cacheConfigsWithoutLooking(c) ==
    /\ configPc[c] = "lock"
    /\ mut = Nobody
    /\ mut' = c
    /\ configPc' = [configPc EXCEPT ![c] = "fetch"]
    /\ UNCHANGED <<now, fetchedConfigs, lastFetchedTime, config, asked>>

\* under the write lock, which is kept while the configuration is fetched
cacheConfigs(c) ==
    /\ configPc[c] = "lock"
    /\ mut = Nobody
    /\ \/ /\ getCachedConfigs # Never
          /\ config' = [config EXCEPT ![c] = getCachedConfigs]
          /\ configPc' = [configPc EXCEPT ![c] = "got"]
          /\ UNCHANGED mut
       \/ /\ getCachedConfigs = Never
          /\ mut' = c
          /\ configPc' = [configPc EXCEPT ![c] = "fetch"]
          /\ UNCHANGED config
    /\ UNCHANGED <<now, fetchedConfigs, lastFetchedTime, asked>>

getNetworkConfigFromSource(c) ==
    /\ configPc[c] = "fetch"
    /\ lastFetchedTime' = now
    /\ fetchedConfigs' = now
    /\ config' = [config EXCEPT ![c] = now]
    /\ configPc' = [configPc EXCEPT ![c] = "got"]
    /\ mut' = Nobody
    /\ UNCHANGED <<now, asked>>

fetchFails(c) ==
    /\ configPc[c] = "fetch"
    /\ configPc' = [configPc EXCEPT ![c] = "failed"]
    /\ mut' = Nobody
    /\ UNCHANGED <<now, fetchedConfigs, lastFetchedTime, config, asked>>

ConfigStep(c) == GetNetworkConfig(c) \/ cacheConfigs(c) \/ getNetworkConfigFromSource(c)

-----------------------------------------------------------------------------
(* Properties                                                              *)

\* GetNetworkConfig never returns a configuration that had expired when it
\* was called, however long the caller waited for the lock.
ConfigIsFresh ==
    \A c \in Clients : configPc[c] = "got" => config[c] + Expiry >= asked[c]

\* Goroutines that find the cache expired together do not all fetch: a fetch
\* starts only when the last successful one has expired.
FetchesAreSpaced ==
    [][\A c \in Clients : configPc[c] # "fetch" /\ configPc'[c] = "fetch" =>
          lastFetchedTime = Never \/ now - lastFetchedTime > Expiry]_configVars
=============================================================================
