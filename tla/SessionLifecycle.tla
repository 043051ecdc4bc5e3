--------------------------- MODULE SessionLifecycle ---------------------------
(***************************************************************************)
(* The life of a session's files and of its row in the quota ledger, under *)
(* the four operations that touch them: interactive turns                  *)
(* (ProductService.dispatch), scheduled turns (ProductScheduler.tick),     *)
(* explicit deletion (ProductDataManager.delete) and the retention sweep   *)
(* (ProductRetentionMonitor.tick), with the crash of the process and the   *)
(* startup that follows.  The ledger itself is QuotaStore: every step that *)
(* reaches it is one of its actions.                                       *)
(*                                                                         *)
(* The operations serialize on SessionOperationLocks, but not in the same  *)
(* way: a scheduled turn acquires and settles its lease while it holds the *)
(* session's lock, an interactive turn acquires before and settles after.  *)
(***************************************************************************)
EXTENDS QuotaStore

CONSTANTS
  Chats,       \* request threads
  Jobs,        \* scheduler threads, one per worker
  Deleters,    \* threads that serve DELETE /v1/sessions/{session}
  Sweeper,     \* the retention thread
  Nobody,      \* the holder of a free lock
  Retention,   \* retention_s
  TurnLimit,   \* the longest life of a turn, from its clock reading on
  Faults       \* what may go wrong: "crash" of the process, "io" in an erasure

ASSUME ThreadAssumption ==
  /\ Turns = Chats \cup Jobs
  /\ Chats \cap Jobs = {}
  /\ Turns \cap Deleters = {}
  /\ Sweeper \notin Turns \cup Deleters
  /\ Nobody \notin Turns \cup Deleters \cup {Sweeper}

\* run refuses a lease that does not outlive the turn deadline; the retention
\* period is counted in days, the deadline in seconds.
ASSUME DurationAssumption ==
  /\ TurnLimit \in Nat \ {0}
  /\ TurnLimit < LeaseTime
  /\ Retention \in Nat
  /\ TurnLimit < Retention
  /\ Faults \subseteq {"crash", "io"}

VARIABLES
  files,      \* bytes on disk per session and kind; 0: the files are absent
  written,    \* when the files of a session were last written
  scheduled,  \* last activity of the session's schedule, or NoSchedule
  holder,     \* who holds the session's operation lock
  work,       \* where a turn is between its lock, its files and its ledger
  deleting,   \* the session a deleter works on, or NoSession
  sweep,      \* the sweep in progress
  mode,       \* "up", "down", or "refused": the startup verification failed
  orphans     \* history: jobs whose claimed schedule was deleted with its session

lifeVars == <<files, written, scheduled, holder, work, deleting, sweep, mode, orphans>>
allVars == <<vars, lifeVars>>

NoSchedule == -1
NoFiles == [k \in Kinds |-> 0]
Away == [stage |-> "away", session |-> NoSession, seen |-> NoFiles, claim |-> FALSE]
Resting == [stage |-> "resting", session |-> NoSession, left |-> {}, cutoff |-> 0]

\* TYPE: the files, the locks and the locals of the threads.
LifeTypeOK ==
  /\ files \in [Sessions -> [Kinds -> Nat]]
  /\ written \in [Sessions -> Nat]
  /\ scheduled \in [Sessions -> Nat \cup {NoSchedule}]
  /\ holder \in [Sessions -> Turns \cup Deleters \cup {Sweeper, Nobody}]
  /\ work \in [Turns -> [stage : {"away", "claimed", "inside", "measured"},
                         session : Sessions \cup {NoSession},
                         seen : [Kinds -> Nat],
                         claim : BOOLEAN]]
  /\ deleting \in [Deleters -> Sessions \cup {NoSession}]
  /\ sweep \in [stage : {"resting", "looking", "checked", "clearing", "erasing"},
                session : Sessions \cup {NoSession},
                left : SUBSET Sessions,
                cutoff : Int]
  /\ mode \in {"up", "down", "refused"}
  /\ orphans \subseteq Jobs

-----------------------------------------------------------------------------
(* SessionOperationLocks and the schedule store, as far as sessions go. *)

Free(s) == holder[s] = Nobody
Lock(s, who) == holder' = [holder EXCEPT ![s] = who]
Unlock(s) == holder' = [holder EXCEPT ![s] = Nobody]

\* The lease of a claimed entry lasts longer than its job, but is part of the
\* entry: when the schedule is put anew the lease is gone.
Claimed(s) == \E j \in Jobs : work[j].session = s /\ work[j].claim

\* internal_active: what the sweep asks before it deletes a session.
ScheduleActive(s, cutoff) ==
  scheduled[s] # NoSchedule /\ (scheduled[s] > cutoff \/ Claimed(s))

Inactive(s, cutoff) == usage[s].registered /\ usage[s].activity <= cutoff

-----------------------------------------------------------------------------
LifeInit ==
  /\ Init
  /\ files = [s \in Sessions |-> NoFiles]
  /\ written = [s \in Sessions |-> 0]
  /\ scheduled = [s \in Sessions |-> NoSchedule]
  /\ holder = [s \in Sessions |-> Nobody]
  /\ work = [t \in Turns |-> Away]
  /\ deleting = [d \in Deleters |-> NoSession]
  /\ sweep = Resting
  /\ mode = "up"
  /\ orphans = {}

(* Interactive turns. *)

\* dispatch: acquire_turn, before the session lock is asked for.
ChatAcquires(c) ==
  /\ work[c] = Away
  /\ (\E s \in Sessions : ReadClock(c, s)) \/ Admit(c) \/ Refuse(c)
  /\ UNCHANGED lifeVars

\* hold: the lock is granted before the turn's deadline.
ChatEnters(c) ==
  LET s == turn[c].session IN
  /\ turn[c].phase = "admitted"
  /\ work[c] = Away
  /\ Free(s)
  /\ Lock(s, c)
  /\ work' = [work EXCEPT ![c] = [Away EXCEPT !.stage = "inside", !.session = s]]
  /\ UNCHANGED <<vars, files, written, scheduled, deleting, sweep, mode, orphans>>

\* The deadline passes in the queue, or _turn_enter refuses: nothing measured.
ChatGivesUp(c) ==
  /\ work[c] = Away
  /\ SettleUnmeasured(c, 0)
  /\ UNCHANGED lifeVars

\* MUTANT: the files are measured before the turn runs, not after it.
MeasuresEarly(t) ==
  LET s == work[t].session IN
  /\ work[t].stage = "inside"
  /\ turn[t].phase = "admitted"
  /\ work' = [work EXCEPT ![t].stage = "measured", ![t].seen = usage[s].bytes]
  /\ IF t \in Chats THEN Unlock(s) ELSE UNCHANGED holder
  /\ UNCHANGED <<vars, files, written, scheduled, deleting, sweep, mode, orphans>>

\* The turn is over: footprint is taken under the lock; only an interactive
\* turn leaves the lock before it settles.
Measures(t) ==
  LET s == work[t].session IN
  /\ work[t].stage = "inside"
  /\ turn[t].phase = "admitted"
  /\ work' = [work EXCEPT ![t].stage = "measured", ![t].seen = files[s]]
  /\ IF t \in Chats THEN Unlock(s) ELSE UNCHANGED holder
  /\ UNCHANGED <<vars, files, written, scheduled, deleting, sweep, mode, orphans>>

\* The agent loop writes the conversation, the sandbox and the audit chain.
Writes(t, f) ==
  /\ work[t].stage = "inside"
  /\ turn[t].phase = "admitted"
  /\ files' = [files EXCEPT ![work[t].session] = f]
  /\ written' = [written EXCEPT ![work[t].session] = clock]
  /\ UNCHANGED <<vars, scheduled, holder, work, deleting, sweep, mode, orphans>>

\* MUTANT: the measured footprint is dropped.
ChatSettlesBlindly(c) ==
  /\ work[c].stage = "measured"
  /\ SettleUnmeasured(c, 0)
  /\ work' = [work EXCEPT ![c] = Away]
  /\ UNCHANGED <<files, written, scheduled, holder, deleting, sweep, mode, orphans>>

\* settle_turn with the footprint that was measured.
ChatSettles(c) ==
  /\ work[c].stage = "measured"
  /\ SettleMeasured(c, 0, work[c].seen)
  /\ work' = [work EXCEPT ![c] = Away]
  /\ UNCHANGED <<files, written, scheduled, holder, deleting, sweep, mode, orphans>>

(* Scheduled turns. *)

\* claim_due on an entry of the snapshot.
JobClaims(j, s) ==
  /\ work[j] = Away
  /\ scheduled[s] # NoSchedule
  /\ ~Claimed(s)
  /\ work' = [work EXCEPT ![j] =
       [Away EXCEPT !.stage = "claimed", !.session = s, !.claim = TRUE]]
  /\ UNCHANGED <<vars, files, written, scheduled, holder, deleting, sweep, mode, orphans>>

\* complete_claim: a run, successful or not, is activity of its schedule, as
\* long as the entry still carries the lease of this job.
Completes(j) ==
  LET s == work[j].session IN
  scheduled' = IF scheduled[s] # NoSchedule /\ work[j].claim
               THEN [scheduled EXCEPT ![s] = clock]
               ELSE scheduled

\* MUTANT: the entry is not read again under the lock.
JobEntersBlindly(j) ==
  LET s == work[j].session IN
  /\ work[j].stage = "claimed"
  /\ Free(s)
  /\ Lock(s, j)
  /\ work' = [work EXCEPT ![j].stage = "inside"]
  /\ UNCHANGED <<vars, files, written, scheduled, deleting, sweep, mode, orphans>>

\* The session lock is granted and the entry is still there.
JobEnters(j) ==
  LET s == work[j].session IN
  /\ work[j].stage = "claimed"
  /\ Free(s)
  /\ scheduled[s] # NoSchedule
  /\ Lock(s, j)
  /\ work' = [work EXCEPT ![j].stage = "inside"]
  /\ UNCHANGED <<vars, files, written, scheduled, deleting, sweep, mode, orphans>>

\* The entry is gone, its policy was revoked, or the deadline passed in the
\* queue for the lock.
JobSkips(j) ==
  /\ work[j].stage = "claimed"
  /\ Completes(j)
  /\ work' = [work EXCEPT ![j] = Away]
  /\ orphans' = orphans \ {j}
  /\ UNCHANGED <<vars, files, written, holder, deleting, sweep, mode>>

\* acquire_turn under the session lock.
JobAcquires(j) ==
  /\ work[j].stage = "inside"
  /\ ReadClock(j, work[j].session) \/ Admit(j)
  /\ UNCHANGED lifeVars

JobRefused(j) ==
  /\ work[j].stage = "inside"
  /\ Refuse(j)
  /\ Unlock(work[j].session)
  /\ Completes(j)
  /\ work' = [work EXCEPT ![j] = Away]
  /\ orphans' = orphans \ {j}
  /\ UNCHANGED <<files, written, deleting, sweep, mode>>

\* settle_turn, then the lock is released, then the claim is completed.
JobSettles(j) ==
  /\ work[j].stage = "measured"
  /\ SettleMeasured(j, 0, work[j].seen)
  /\ Unlock(work[j].session)
  /\ Completes(j)
  /\ work' = [work EXCEPT ![j] = Away]
  /\ orphans' = orphans \ {j}
  /\ UNCHANGED <<files, written, deleting, sweep, mode>>

(* Schedules of a session come and go without its lock. *)

PutSchedule(s) ==
  /\ scheduled' = [scheduled EXCEPT ![s] = clock]
  /\ work' = [t \in Turns |->
       IF work[t].session = s THEN [work[t] EXCEPT !.claim = FALSE] ELSE work[t]]
  /\ orphans' = {j \in orphans : work[j].session # s}
  /\ UNCHANGED <<vars, files, written, holder, deleting, sweep, mode>>

DropSchedule(s) ==
  /\ scheduled[s] # NoSchedule
  /\ scheduled' = [scheduled EXCEPT ![s] = NoSchedule]
  /\ UNCHANGED <<vars, files, written, holder, work, deleting, sweep, mode, orphans>>

(* Deletion. *)

\* delete takes the lock and removes the triggers first.  With neither files
\* nor schedules it answers 404 and changes nothing.
DeleteLocks(d, s) ==
  /\ deleting[d] = NoSession
  /\ Free(s)
  /\ files[s] # NoFiles \/ scheduled[s] # NoSchedule
  /\ Lock(s, d)
  /\ deleting' = [deleting EXCEPT ![d] = s]
  /\ scheduled' = [scheduled EXCEPT ![s] = NoSchedule]
  /\ orphans' = orphans \cup {j \in Jobs : work[j].session = s}
  /\ UNCHANGED <<vars, files, written, work, sweep, mode>>

\* delete_internal_files, one surface after the other.
RemoveFile(s, k) ==
  /\ files[s][k] # 0
  /\ files' = [files EXCEPT ![s][k] = 0]
  /\ written' = IF files'[s] = NoFiles THEN [written EXCEPT ![s] = 0] ELSE written

DeleteFile(d, k) ==
  /\ deleting[d] # NoSession
  /\ RemoveFile(deleting[d], k)
  /\ UNCHANGED <<vars, scheduled, holder, work, deleting, sweep, mode, orphans>>

\* MUTANT: the row goes first, the files after it.
DeleteRowFirst(d) ==
  LET s == deleting[d] IN
  /\ s # NoSession
  /\ IF usage[s].registered
     THEN RemoveSession(s) /\ UNCHANGED <<holder, deleting>>
     ELSE /\ files[s] = NoFiles
          /\ Unlock(s)
          /\ deleting' = [deleting EXCEPT ![d] = NoSession]
          /\ UNCHANGED vars
  /\ UNCHANGED <<files, written, scheduled, work, sweep, mode, orphans>>

\* remove_session_usage, and the lock is released.
DeleteRow(d) ==
  LET s == deleting[d] IN
  /\ s # NoSession
  /\ files[s] = NoFiles
  /\ IF usage[s].registered THEN RemoveSession(s) ELSE UNCHANGED vars
  /\ Unlock(s)
  /\ deleting' = [deleting EXCEPT ![d] = NoSession]
  /\ UNCHANGED <<files, written, scheduled, work, sweep, mode, orphans>>

\* An erasure raises: 500, the lock is released, the row and what is left of the
\* files stay.
DeleteFails(d) ==
  /\ "io" \in Faults
  /\ deleting[d] # NoSession
  /\ files[deleting[d]] # NoFiles
  /\ Unlock(deleting[d])
  /\ deleting' = [deleting EXCEPT ![d] = NoSession]
  /\ UNCHANGED <<vars, files, written, scheduled, work, sweep, mode, orphans>>

(* The retention sweep. *)

SweepStarts ==
  LET cutoff == clock - Retention IN
  /\ sweep = Resting
  /\ sweep' = [stage |-> "looking", session |-> NoSession, cutoff |-> cutoff,
               left |-> {s \in Sessions : Inactive(s, cutoff)}]
  /\ UNCHANGED <<vars, files, written, scheduled, holder, work, deleting, mode, orphans>>

\* MUTANT: the candidate is not checked again under its lock.
SweepLocksBlindly(s) ==
  /\ sweep.stage = "looking"
  /\ s \in sweep.left
  /\ Free(s)
  /\ Lock(s, Sweeper)
  /\ sweep' = [sweep EXCEPT !.stage = "checked", !.session = s, !.left = @ \ {s}]
  /\ UNCHANGED <<vars, files, written, scheduled, work, deleting, mode, orphans>>

\* registered_session_inactive under the session lock.
SweepLocks(s) ==
  /\ sweep.stage = "looking"
  /\ s \in sweep.left
  /\ Free(s)
  /\ IF Inactive(s, sweep.cutoff)
     THEN /\ Lock(s, Sweeper)
          /\ sweep' = [sweep EXCEPT !.stage = "checked", !.session = s, !.left = @ \ {s}]
     ELSE /\ sweep' = [sweep EXCEPT !.left = @ \ {s}]
          /\ UNCHANGED holder
  /\ UNCHANGED <<vars, files, written, scheduled, work, deleting, mode, orphans>>

\* internal_active: a schedule in use keeps its session.
SweepAsks ==
  LET s == sweep.session IN
  /\ sweep.stage = "checked"
  /\ IF ScheduleActive(s, sweep.cutoff)
     THEN /\ Unlock(s)
          /\ sweep' = [sweep EXCEPT !.stage = "looking", !.session = NoSession]
     ELSE /\ sweep' = [sweep EXCEPT !.stage = "clearing"]
          /\ UNCHANGED holder
  /\ UNCHANGED <<vars, files, written, scheduled, work, deleting, mode, orphans>>

\* remove_internal.
SweepSchedules ==
  LET s == sweep.session IN
  /\ sweep.stage = "clearing"
  /\ scheduled' = [scheduled EXCEPT ![s] = NoSchedule]
  /\ sweep' = [sweep EXCEPT !.stage = "erasing"]
  /\ orphans' = orphans \cup {j \in Jobs : work[j].session = s}
  /\ UNCHANGED <<vars, files, written, holder, work, deleting, mode>>

SweepFile(k) ==
  /\ sweep.stage = "erasing"
  /\ RemoveFile(sweep.session, k)
  /\ UNCHANGED <<vars, scheduled, holder, work, deleting, sweep, mode, orphans>>

\* MUTANT: the row is removed without the cutoff condition.
SweepRowAlways ==
  LET s == sweep.session IN
  /\ sweep.stage = "erasing"
  /\ files[s] = NoFiles
  /\ IF usage[s].registered THEN RemoveSession(s) ELSE UNCHANGED vars
  /\ Unlock(s)
  /\ sweep' = [sweep EXCEPT !.stage = "looking", !.session = NoSession]
  /\ UNCHANGED <<files, written, scheduled, work, deleting, mode, orphans>>

\* remove_registered_session: last, and only if still inactive.
SweepRow ==
  LET s == sweep.session IN
  /\ sweep.stage = "erasing"
  /\ files[s] = NoFiles
  /\ IF Inactive(s, sweep.cutoff) THEN RemoveSession(s) ELSE UNCHANGED vars
  /\ Unlock(s)
  /\ sweep' = [sweep EXCEPT !.stage = "looking", !.session = NoSession]
  /\ UNCHANGED <<files, written, scheduled, work, deleting, mode, orphans>>

\* remove_inactive: schedules of sessions that never ran age out on their own.
SweepEnds ==
  /\ sweep.stage = "looking"
  /\ sweep.left = {}
  /\ scheduled' = [s \in Sessions |->
                     IF ScheduleActive(s, sweep.cutoff) THEN scheduled[s] ELSE NoSchedule]
  /\ sweep' = Resting
  /\ UNCHANGED <<vars, files, written, holder, work, deleting, mode, orphans>>

\* An erasure raises: the whole sweep fails, and its lock is released.
SweepFails ==
  /\ "io" \in Faults
  /\ sweep.stage = "erasing"
  /\ files[sweep.session] # NoFiles
  /\ Unlock(sweep.session)
  /\ sweep' = Resting
  /\ UNCHANGED <<vars, files, written, scheduled, work, deleting, mode, orphans>>

(* The process. *)

\* The process is killed: threads and locks are gone, files and tables stay.
Crash ==
  /\ "crash" \in Faults
  /\ mode = "up"
  /\ mode' = "down"
  /\ turn' = [t \in Turns |-> Idle]
  /\ work' = [t \in Turns |-> Away]
  /\ holder' = [s \in Sessions |-> Nobody]
  /\ deleting' = [d \in Deleters |-> NoSession]
  /\ sweep' = Resting
  /\ orphans' = {}
  /\ UNCHANGED <<clock, storeVars, late, files, written, scheduled>>

Attributed(s) == files[s] # NoFiles => usage[s].registered

\* run: the store is opened, which purges, and verify_quota_registry either raises
\* ConfigError or lets reconcile_registered repair the ledger.
Start ==
  /\ mode = "down"
  /\ IF \A s \in Sessions : Attributed(s)
     THEN /\ Restart(files, written)
          /\ mode' = "up"
     ELSE /\ leases' = Unexpired(clock)
          /\ mode' = "refused"
          /\ UNCHANGED <<clock, tokenRow, usage, turn, late>>
  /\ UNCHANGED <<files, written, scheduled, holder, work, deleting, sweep, orphans>>

\* Time passes, but no turn outlives its limit.
LifeTick ==
  /\ \A t \in Turns : turn[t].phase # "idle" => clock < turn[t].now + TurnLimit
  /\ Tick
  /\ UNCHANGED lifeVars

ChatNext(c) ==
  \/ ChatAcquires(c) \/ ChatEnters(c) \/ ChatGivesUp(c) \/ ChatSettles(c)
  \/ Measures(c) \/ \E f \in Footprints : Writes(c, f)

JobNext(j) ==
  \/ \E s \in Sessions : JobClaims(j, s)
  \/ JobEnters(j) \/ JobSkips(j) \/ JobAcquires(j) \/ JobRefused(j) \/ JobSettles(j)
  \/ Measures(j) \/ \E f \in Footprints : Writes(j, f)

DeleteNext(d) ==
  \/ \E s \in Sessions : DeleteLocks(d, s)
  \/ \E k \in Kinds : DeleteFile(d, k)
  \/ DeleteRow(d) \/ DeleteFails(d)

SweepNext ==
  \/ SweepStarts \/ SweepAsks \/ SweepSchedules \/ SweepRow \/ SweepEnds \/ SweepFails
  \/ \E s \in Sessions : SweepLocks(s)
  \/ \E k \in Kinds : SweepFile(k)

LifeNext ==
  \/ /\ mode = "up"
     /\ \/ \E c \in Chats : ChatNext(c)
        \/ \E j \in Jobs : JobNext(j)
        \/ \E d \in Deleters : DeleteNext(d)
        \/ \E s \in Sessions : PutSchedule(s) \/ DropSchedule(s)
        \/ SweepNext
        \/ Crash
  \/ Start
  \/ LifeTick

LifeSpec == LifeInit /\ [][LifeNext]_allVars

-----------------------------------------------------------------------------
\* SAFETY: files without a ledger row stop the next startup, so no moment at
\* which the process may die leaves any: the row is written before the first
\* file and removed after the last.
FilesAttributed == \A s \in Sessions : Attributed(s)

\* Nobody is at work on a session between its lock and its ledger row.
AtRest(s) ==
  /\ mode = "up"
  /\ Free(s)
  /\ \A t \in Turns : work[t].session = s => work[t].stage = "claimed"

Settled(s) == AtRest(s) /\ \A t \in Turns : turn[t].session # s

\* SAFETY: completion replaces the reservation by the exact file sizes: a session
\* nobody works on is charged for what is on disk, through deletions, sweeps and
\* crashes, and one without files, deleted or expired, is charged nothing.  Only a file
\* that an erasure removed before it failed may stay charged.
LedgerExact ==
  \A s \in Sessions : Settled(s) =>
    /\ \A k \in Kinds : files[s][k] # 0 => usage[s].bytes[k] = files[s][k]
    /\ files[s] = NoFiles => usage[s].bytes = NoFiles

\* ACTION: a job whose session was deleted, with its schedule, after the job was
\* claimed never writes the session's files back, unless the schedule is put anew.
NotResurrected ==
  [][\A s \in Sessions :
       files'[s] # files[s] => \A j \in orphans : holder[s] # j]_allVars

\* ACTION: the sweep deletes no file of a session whose accepted turns refreshed
\* its activity past the sweep's cutoff.
ActiveSpared ==
  [][\A s \in Sessions :
       (holder[s] = Sweeper /\ files'[s] # files[s])
         => usage[s].activity <= sweep.cutoff]_allVars

\* ACTION: the sweep checks activity under the lock, accepted chats refresh it without;
\* the row goes only if the session is inactive still, so that a turn accepted in
\* between, also one whose row a deletion removed and another turn wrote again, finds
\* the row it will be charged on.
RowsSpared ==
  [][\A s \in Sessions :
       (holder[s] = Sweeper /\ usage[s].registered /\ ~ usage'[s].registered)
         => \A t \in Turns : turn[t].phase = "admitted" => turn[t].session # s]_allVars

\* SAFETY: also with turns that wait behind a deletion, files without a row are
\* those of a turn at work: once it settled, the session has its row again.
RestAttributed == \A s \in Sessions : AtRest(s) => Attributed(s)

\* The turns of a tenant that were accepted and are not settled.
AtWork(n) == {t \in Turns : turn[t].phase = "admitted" /\ TenantOf[turn[t].session] = n}

\* SAFETY: a lease is longer than a turn may last, so a turn at work, in the queue for
\* its session too, has its lease still, whoever purged with whatever reading of the
\* clock: no tenant has more turns at work than slots, and settle_turn finds the row.
WorkBounded ==
  /\ \A t \in Turns : turn[t].phase = "admitted" =>
       \E l \in leases : l.turn = t /\ clock < l.expires
  /\ \A n \in Tenants : Cardinality(AtWork(n)) <= MaxTurns

\* SAFETY: startup repairs the ledger after a crash, so the verification that
\* comes before the repair never refuses to start.
CrashRepaired == mode # "refused"
=============================================================================
