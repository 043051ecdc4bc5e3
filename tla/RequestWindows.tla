---------------------------- MODULE RequestWindows ----------------------------
(***************************************************************************)
(* The request rate of a tenant: DurableQuotaStore.admit_request.  Every   *)
(* authenticated request counts against requests_per_minute in a row that  *)
(* holds one fixed window.  As in acquire_turn the clock is read before    *)
(* the transaction begins, and a row of ANOTHER window, older or newer,    *)
(* counts as empty: a request that waits across the minute for the write   *)
(* lock puts the row back to the minute that ended, and the requests       *)
(* counted in the new minute are forgotten.                                *)
(***************************************************************************)
EXTENDS StoreClock, Integers

CONSTANTS
  Requests,         \* request threads
  TenantOfRequest,  \* the tenant a request authenticates as
  RequestLimit,     \* requests_per_minute
  WindowLength      \* 60, in clock units

ASSUME RateAssumption ==
  /\ RequestLimit \in Nat \ {0}
  /\ WindowLength \in Nat \ {0}
  /\ MaxClock \in Nat
  /\ TenantOfRequest \in [Requests -> Tenants]

VARIABLES
  requestRow,   \* table request_windows
  reading,      \* the clock reading of a request before its transaction
  admitted,     \* history: requests admitted in the window of the clock
  lateRequests  \* history: those of them that were decided with an ended window

rateVars == <<clock, requestRow, reading, admitted, lateRequests>>

NoReading == -1

\* int(now // 60) * 60, counted in windows.
Window(instant) == instant \div WindowLength

\* TYPE: the table and the locals.
RateTypeOK ==
  /\ clock \in Nat
  /\ requestRow \in [Tenants -> [window : Nat, count : Nat]]
  /\ reading \in [Requests -> Nat \cup {NoReading}]
  /\ admitted \in [Tenants -> Nat]
  /\ lateRequests \in [Tenants -> Nat]

RateInit ==
  /\ clock = 0
  /\ requestRow = [n \in Tenants |-> [window |-> 0, count |-> 0]]
  /\ reading = [r \in Requests |-> NoReading]
  /\ admitted = [n \in Tenants |-> 0]
  /\ lateRequests = [n \in Tenants |-> 0]

\* admit_request up to BEGIN IMMEDIATE.
ReadMinute(r) ==
  /\ reading[r] = NoReading
  /\ reading' = [reading EXCEPT ![r] = clock]
  /\ UNCHANGED <<clock, requestRow, admitted, lateRequests>>

\* MUTANT: the count is read before the transaction, so one may be missed.
CountBehind(n, window) ==
  IF requestRow[n].window = window /\ requestRow[n].count > 0 THEN requestRow[n].count - 1 ELSE 0

\* The requests the row shows for a window.
Count(n, window) == IF requestRow[n].window = window THEN requestRow[n].count ELSE 0

\* The transaction of an accepted request.
AdmitRequest(r) ==
  LET n == TenantOfRequest[r]
      window == Window(reading[r])
  IN
  /\ reading[r] # NoReading
  /\ Count(n, window) < RequestLimit
  /\ requestRow' = [requestRow EXCEPT ![n] = [window |-> window, count |-> Count(n, window) + 1]]
  /\ reading' = [reading EXCEPT ![r] = NoReading]
  /\ admitted' = [admitted EXCEPT ![n] = @ + 1]
  /\ lateRequests' = IF window = Window(clock) THEN lateRequests
                     ELSE [lateRequests EXCEPT ![n] = @ + 1]
  /\ UNCHANGED clock

\* The ROLLBACK: 429 rate_limited.
RefuseRequest(r) ==
  /\ reading[r] # NoReading
  /\ Count(TenantOfRequest[r], Window(reading[r])) >= RequestLimit
  /\ reading' = [reading EXCEPT ![r] = NoReading]
  /\ UNCHANGED <<clock, requestRow, admitted, lateRequests>>

RateTick ==
  /\ clock < MaxClock
  /\ clock' = clock + 1
  /\ IF Window(clock + 1) = Window(clock)
     THEN UNCHANGED <<admitted, lateRequests>>
     ELSE /\ admitted' = [n \in Tenants |-> 0]
          /\ lateRequests' = [n \in Tenants |-> 0]
  /\ UNCHANGED <<requestRow, reading>>

RateNext ==
  \/ \E r \in Requests : ReadMinute(r) \/ AdmitRequest(r) \/ RefuseRequest(r)
  \/ RateTick

RateSpec == RateInit /\ [][RateNext]_rateVars

-----------------------------------------------------------------------------
\* SAFETY: each admission decided with an ended window costs the window at most
\* itself and the requests the row had counted, never more.
RateBounded ==
  \A n \in Tenants : admitted[n] <= RequestLimit + lateRequests[n] * (RequestLimit + 1)
=============================================================================
