-------------------------------- MODULE Backups -------------------------------
(***************************************************************************)
(* Backups of the product's state: the offline copy, the managed cycle     *)
(* that makes one and prunes the expired, and restoring into a new path.   *)
(*                                                                         *)
(* A cycle takes the lock of the backup directory, requires the marker of  *)
(* a clean shutdown and a state without open leases, reads the files one   *)
(* after the other into a staged archive, gives that its final name by a   *)
(* second link, drops the first, checks every archive of the directory and *)
(* deletes the expired ones.  It can die between any two of these.         *)
(* Nothing keeps the product from starting while a cycle reads.            *)
(*                                                                         *)
(* The state is two files that belong together, the quota ledger and the   *)
(* sessions; each is the number of turns it has seen.                      *)
(***************************************************************************)
EXTENDS Integers, FiniteSets

CONSTANTS
  Cycles,     \* processes that run managed cycles
  Nobody,
  Retention,  \* retention_s, in ticks of the clock
  MaxNow,     \* bound: the clock
  MaxTurns,   \* bound: turns of the product
  MaxArchives, \* bound: archives in the directory when a cycle begins
  MaxTampers  \* bound: archives that someone touches

ASSUME BackupAssumption ==
  /\ Nobody \notin Cycles
  /\ Retention \in Nat \ {0}
  /\ {MaxNow, MaxTurns, MaxArchives, MaxTampers} \subseteq Nat

VARIABLES
  product,   \* stopped, or what its turn is at
  marker,    \* the clean-shutdown marker
  state,     \* the files of the product
  now,       \* the clock
  lock,      \* who holds the directory's lock
  archives,  \* the managed archives
  cycle,     \* what each cycle does
  tampers,   \* archives touched so far
  died,      \* history: a cycle has died between its two links
  target,    \* the path restored into
  kept       \* history: the newest state that a cycle reported as backed up

vars == <<product, marker, state, now, lock, archives, cycle, tampers, died, target, kept>>

productVars == <<product, marker, state>>
directoryVars == <<lock, archives, cycle, kept>>
Files == [quota : 0..MaxTurns, sessions : 0..MaxTurns, lease : BOOLEAN]

\* What an archive holds, and whether the product ran while it was read.
Contents == [files : Files, disturbed : BOOLEAN]

\* linked: a second link, left by a cycle that died before it dropped it.
Archives == [created : 0..MaxNow, content : Contents, linked : BOOLEAN, intact : BOOLEAN]

None == [none |-> TRUE]

Blank == [files |-> [quota |-> 0, sessions |-> 0, lease |-> FALSE], disturbed |-> FALSE]

Idle == [at |-> "idle", now |-> 0, content |-> Blank, expired |-> {}]

\* TYPE: the directory, the cycles and the product's files.
TypeOK ==
  /\ product \in {"stopped", "idle", "turn", "written"}
  /\ marker \in BOOLEAN
  /\ state \in Files
  /\ now \in 0..MaxNow
  /\ lock \in Cycles \cup {Nobody}
  /\ archives \subseteq Archives
  /\ cycle \in [Cycles -> [at : {"idle", "waiting", "locked", "validated", "copying",
                                 "staged", "linked", "pruning", "deleting"},
                           now : 0..MaxNow, content : Contents,
                           expired : SUBSET Archives]]
  /\ tampers \in 0..MaxTampers
  /\ died \in BOOLEAN
  /\ target \in Contents \cup {None}
  /\ kept \in 0..MaxTurns

Init ==
  /\ product = "idle"
  /\ marker = FALSE
  /\ state = Blank.files
  /\ now = 0
  /\ lock = Nobody
  /\ archives = {}
  /\ cycle = [c \in Cycles |-> Idle]
  /\ tampers = 0
  /\ died = FALSE
  /\ target = None
  /\ kept = 0

-----------------------------------------------------------------------------
(* The product. *)

\* Startup removes the marker and brings the ledger up to the files; a lease that a dead
\* turn left stays until it expires.
Start ==
  /\ product = "stopped"
  /\ product' = "idle"
  /\ marker' = FALSE
  /\ state' = [state EXCEPT !.quota = state.sessions]
  /\ cycle' = [c \in Cycles |->
                 IF cycle[c].at \in {"locked", "validated", "copying"}
                 THEN [cycle[c] EXCEPT !.content.disturbed = TRUE] ELSE cycle[c]]
  /\ UNCHANGED <<now, lock, archives, tampers, died, kept, target>>

BeginTurn ==
  /\ product = "idle"
  /\ state.sessions < MaxTurns
  /\ product' = "turn"
  /\ state' = [state EXCEPT !.lease = TRUE]
  /\ UNCHANGED <<marker, now, tampers, died, directoryVars, target>>

WriteTurn ==
  /\ product = "turn"
  /\ product' = "written"
  /\ state' = [state EXCEPT !.sessions = @ + 1]
  /\ UNCHANGED <<marker, now, tampers, died, directoryVars, target>>

SettleTurn ==
  /\ product = "written"
  /\ product' = "idle"
  /\ state' = [state EXCEPT !.quota = state.sessions, !.lease = FALSE]
  /\ UNCHANGED <<marker, now, tampers, died, directoryVars, target>>

Drain ==
  /\ product = "idle"
  /\ product' = "stopped"
  /\ marker' = TRUE
  /\ UNCHANGED <<state, now, tampers, died, directoryVars, target>>

CrashProduct ==
  /\ product # "stopped"
  /\ product' = "stopped"
  /\ UNCHANGED <<marker, state, now, tampers, died, directoryVars, target>>

-----------------------------------------------------------------------------
(* A managed cycle. *)

To(c, next) == cycle' = [cycle EXCEPT ![c] = next]

\* Its time is read before it waits for the lock.
Begin(c) ==
  /\ cycle[c].at = "idle"
  /\ Cardinality(archives) < MaxArchives
  /\ To(c, [Idle EXCEPT !.at = "waiting", !.now = now])
  /\ UNCHANGED <<now, lock, archives, tampers, died, kept, productVars, target>>

\* MUTANT: the cycles do not exclude one another.
LockShared(c) ==
  /\ cycle[c].at = "waiting"
  /\ lock' = c
  /\ To(c, [cycle[c] EXCEPT !.at = "locked"])
  /\ UNCHANGED <<now, archives, tampers, died, kept, productVars, target>>

Lock(c) ==
  /\ cycle[c].at = "waiting"
  /\ lock = Nobody
  /\ lock' = c
  /\ To(c, [cycle[c] EXCEPT !.at = "locked"])
  /\ UNCHANGED <<now, archives, tampers, died, kept, productVars, target>>

\* MUTANT: the marker is not asked for.
ValidateUnmarked(c) ==
  /\ cycle[c].at = "locked"
  /\ ~state.lease
  /\ To(c, [cycle[c] EXCEPT !.at = "validated"])
  /\ UNCHANGED <<now, lock, archives, tampers, died, kept, productVars, target>>

\* _validate_state: the marker, a whole state, no open lease.
Valid(files) == ~files.lease

Validate(c) ==
  /\ cycle[c].at = "locked"
  /\ marker
  /\ Valid(state)
  /\ To(c, [cycle[c] EXCEPT !.at = "validated"])
  /\ UNCHANGED <<now, lock, archives, tampers, died, kept, productVars, target>>

\* The files are read in the order of their names: the ledger, then the sessions.
CopyQuota(c) ==
  /\ cycle[c].at = "validated"
  /\ To(c, [cycle[c] EXCEPT !.at = "copying", !.content.files.quota = state.quota,
                            !.content.files.lease = state.lease])
  /\ UNCHANGED <<now, lock, archives, tampers, died, kept, productVars, target>>

CopySessions(c) ==
  /\ cycle[c].at = "copying"
  /\ To(c, [cycle[c] EXCEPT !.at = "staged", !.content.files.sessions = state.sessions])
  /\ UNCHANGED <<now, lock, archives, tampers, died, kept, productVars, target>>

\* Two archives of one name have one time and one content.
SameName(a, b) == a.created = b.created /\ a.content = b.content

Archive(c) == [created |-> cycle[c].now, content |-> cycle[c].content,
               linked |-> TRUE, intact |-> TRUE]

\* The final name, by a link.  An equal archive that has it already is as good.
Link(c) ==
  /\ cycle[c].at = "staged"
  /\ LET same == {a \in archives : SameName(a, Archive(c))}
     IN  /\ \A a \in same : a.intact
         /\ archives' = IF same = {} THEN archives \cup {Archive(c)} ELSE archives
         /\ To(c, [cycle[c] EXCEPT !.at = IF same = {} THEN "linked" ELSE "pruning"])
  /\ UNCHANGED <<now, lock, tampers, died, kept, productVars, target>>

\* The staging name goes.
Unstage(c) ==
  /\ cycle[c].at = "linked"
  /\ archives' = {IF SameName(a, Archive(c)) THEN [a EXCEPT !.linked = FALSE] ELSE a
                    : a \in archives}
  /\ To(c, [cycle[c] EXCEPT !.at = "pruning"])
  /\ UNCHANGED <<now, lock, tampers, died, kept, productVars, target>>

Expired(c, a) == cycle[c].now - a.created >= Retention

\* Those that are not one private regular file of the digest in its name.
Suspect == {a \in archives : ~a.intact \/ a.linked}

\* Every archive is checked before the first is deleted.
Check(c) ==
  /\ cycle[c].at = "pruning"
  /\ Suspect = {}
  /\ To(c, [cycle[c] EXCEPT !.at = "deleting", !.expired = {a \in archives : Expired(c, a)}])
  /\ UNCHANGED <<now, lock, archives, tampers, died, kept, productVars, target>>

\* One that is not as it should be ends the cycle.
Refuse(c) ==
  /\ cycle[c].at = "pruning"
  /\ Suspect # {}
  /\ lock' = Nobody
  /\ To(c, Idle)
  /\ UNCHANGED <<now, archives, tampers, died, kept, productVars, target>>

Delete(c) ==
  /\ cycle[c].at = "deleting"
  /\ \E a \in cycle[c].expired :
       /\ archives' = {b \in archives : ~SameName(a, b)}
       /\ To(c, [cycle[c] EXCEPT !.expired = @ \ {a}])
  /\ UNCHANGED <<now, lock, tampers, died, kept, productVars, target>>

\* The cycle reports what it made and what it deleted.
Report(c) ==
  /\ cycle[c].at = "deleting"
  /\ cycle[c].expired = {}
  /\ lock' = Nobody
  /\ kept' = cycle[c].content.files.sessions
  /\ To(c, Idle)
  /\ UNCHANGED <<now, archives, tampers, died, productVars, target>>

\* MUTANT: the expired archives go whether or not there is a new one.
FailPruning(c) ==
  /\ cycle[c].at \in {"locked", "validated", "copying", "staged"}
  /\ lock' = Nobody
  /\ archives' = {a \in archives : ~Expired(c, a)}
  /\ To(c, Idle)
  /\ UNCHANGED <<now, tampers, died, kept, productVars, target>>

\* A state that cannot be backed up, a full disk, a name that is taken by something
\* else: the staged archive goes, the cycle fails.
Fail(c) ==
  /\ cycle[c].at \in {"locked", "validated", "copying", "staged"}
  /\ lock' = Nobody
  /\ To(c, Idle)
  /\ UNCHANGED <<now, archives, tampers, died, kept, productVars, target>>

\* The process dies: the system drops its lock, what it linked stays as it is.
Die(c) ==
  /\ cycle[c].at # "idle"
  /\ lock' = IF lock = c THEN Nobody ELSE lock
  /\ died' = (died \/ cycle[c].at = "linked")
  /\ To(c, Idle)
  /\ UNCHANGED <<now, archives, tampers, kept, productVars, target>>

\* Someone cuts, replaces or links an archive.
Tamper ==
  /\ tampers < MaxTampers
  /\ tampers' = tampers + 1
  /\ \E a \in archives :
       archives' = (archives \ {a}) \cup {[a EXCEPT !.intact = FALSE]}
  /\ UNCHANGED <<now, lock, cycle, died, kept, productVars, target>>

-----------------------------------------------------------------------------
(* Restoring into a path that does not exist. *)

\* Every member of the archive is checked against its manifest into a staged tree, which
\* is validated as a state and then takes the path at once; a tree that is refused, or a
\* restore that dies, leaves the path as it was.
Restore ==
  /\ target = None
  /\ \E a \in archives : a.intact /\ Valid(a.content.files) /\ target' = a.content
  /\ UNCHANGED <<now, tampers, died, productVars, directoryVars>>

-----------------------------------------------------------------------------

Tick ==
  /\ now < MaxNow
  /\ now' = now + 1
  /\ UNCHANGED <<tampers, died, productVars, directoryVars, target>>

Run == Start \/ BeginTurn \/ WriteTurn \/ SettleTurn \/ Drain \/ CrashProduct

Advance(c) ==
  \/ Lock(c) \/ Validate(c) \/ CopyQuota(c) \/ CopySessions(c) \/ Link(c) \/ Unstage(c)
  \/ Check(c) \/ Refuse(c) \/ Delete(c) \/ Report(c) \/ Fail(c)

Next ==
  \/ Run
  \/ \E c \in Cycles : Begin(c) \/ Advance(c) \/ Die(c)
  \/ Tamper
  \/ Restore
  \/ Tick

Spec == Init /\ [][Next]_vars

-----------------------------------------------------------------------------
(* Properties. *)

\* One state of the product, as it stood between two turns.
Consistent(content) ==
  ~content.disturbed => content.files.quota = content.files.sessions /\ ~content.files.lease

\* SAFETY: an archive holds one state of the product, unless the product was started while
\* the archive was made: no turn is half in it, whatever crashed before.  A path that was
\* restored holds what the product can start from, without the lease of a turn that nobody
\* runs, even then.
CopiesConsistent ==
  /\ \A a \in archives : Consistent(a.content)
  /\ target # None => ~target.files.lease /\ Consistent(target)

\* SAFETY: the state of the last cycle that reported success can be restored, whichever
\* cycles failed or died since, until someone touches an archive.
NewestKept ==
  kept > 0 /\ tampers = 0 =>
    \E a \in archives : a.intact /\ a.content.files.sessions >= kept

\* SAFETY: no cycle refuses an archive of another one that is at work: it takes a hand on
\* an archive, or a cycle that died between its two links.
RefusedForCause ==
  Suspect # {} /\ (\E c \in Cycles : cycle[c].at = "pruning") => tampers > 0 \/ died

\* Violated: after a cycle died, later ones go on pruning.
PruningSurvives ==
  Suspect # {} /\ (\E c \in Cycles : cycle[c].at = "pruning") => tampers > 0

\* Violated: an archive is one state of the product even when that is started meanwhile.
ArchivesNeverTorn ==
  \A a \in archives : a.content.files.quota = a.content.files.sessions /\ ~a.content.files.lease

=============================================================================
