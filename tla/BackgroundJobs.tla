--------------------------- MODULE BackgroundJobs ---------------------------
(***************************************************************************)
(* Host-owned background commands (src/background_jobs): one JobRegistry   *)
(* per mounted project, all drawing permits from one JobCapacity           *)
(* (registry.rs); the start of a job under the admission lock and its      *)
(* monitor thread (execution.rs); kill, close and the explicit retry of a  *)
(* failed save or cleanup (registry.rs, settlement.rs); the recovery of a  *)
(* project's unfinished jobs when it is mounted again (recovery.rs).       *)
(*                                                                         *)
(* A job is one request to start a command; the session it records to is   *)
(* that of its project.  Output, labels and clocks are left out, and with  *)
(* the clocks the order in which equally evictable entries go.             *)
(***************************************************************************)
EXTENDS Integers, Sequences, FiniteSets

CONSTANTS
    Projects,       \* projects the Host may mount
    Jobs,           \* bound: start requests in a behaviour
    ProjectOf,      \* the project each request is made in
    MaxActive,      \* unsettled permits, 16 in the code
    MaxRetained,    \* permits, 128 in the code
    MaxEntries,     \* entries of a registry, 64 in the code
    MaxFaults,      \* bound: failed saves, cleanups, spawns, polls, joins
    MaxCrashes      \* bound: crashes of the Host

ASSUME ProjectAssumption == ProjectOf \in [Jobs -> Projects]
ASSUME JobsAssumption == IsFiniteSet(Jobs)
ASSUME LimitAssumption ==
    /\ MaxActive \in Nat \ {0} /\ MaxRetained \in Nat \ {0}
    /\ MaxEntries \in Nat \ {0}
    /\ MaxFaults \in Nat /\ MaxCrashes \in Nat

VARIABLES
    \* the session journals and the operating system
    records,        \* durable records of each job, oldest first
    run,            \* what became of its command
    dirty,          \* its process or its scratch directory is still there
    \* the Host
    counts,         \* JobCapacity.counts
    mount,          \* where each project's registry is in its life
    admission,      \* what holds JobRegistry.admission
    closed,         \* RegistryState.closed
    closeErr,       \* a close of this registry has returned an error
    todo,           \* entries that close or recover still has to visit
    \* the entries
    step,           \* program counter of the start, then of the monitor
    holders,        \* who keeps the Arc<Entry> alive
    permit,         \* Entry.permit: absent, active or settled
    kernel,         \* Entry.kernel: absent, open or closed
    joinTaken,      \* Entry.join has been taken
    state,          \* JobView.state
    cancel,         \* Entry.cancel
    saveErr,        \* JobView.persistence_error is set
    cleanErr,       \* JobView.cleanup_error is set
    finished,       \* Entry.finished
    \* bookkeeping
    doubted,        \* registrations the caller was told have failed
    faults, crashes

worldVars == <<records, run, dirty>>
hostVars  == <<counts, mount, admission, closed, closeErr, todo>>
entryVars == <<step, holders, permit, kernel, joinTaken, state, cancel,
               saveErr, cleanErr, finished>>
boundVars == <<doubted, faults, crashes>>
vars == <<worldVars, hostVars, entryVars, boundVars>>

(* What a settlement may say.  A failed job that was not started, and one  *)
(* interrupted by a restart, have an observation of their own.             *)
Verdicts == {"completed", "failed", "killed", "interrupted", "not_started",
             "restarted"}
Owners   == {"map", "starter", "monitor", "reader"}
Idle     == {"new", "refused", "done", "gone"}

JobsOf(p)  == {j \in Jobs : ProjectOf[j] = p}
Entries(p) == {j \in JobsOf(p) : "map" \in holders[j]}

Recorded(j) == Len(records[j]) > 0
Settled(j)  == Len(records[j]) > 1

(* Mutant: an unsaved verdict is not looked at.                            *)
UnresolvedUnsaved(j) == ~finished[j] \/ cleanErr[j]

(* Entry::unresolved, JobRegistry::has_active                              *)
Unresolved(j) == ~finished[j] \/ saveErr[j] \/ cleanErr[j]
HasActive(p)  == mount[p] = "unavailable" \/ \E j \in Entries(p) : Unresolved(j)

Init ==
    /\ records = [j \in Jobs |-> <<>>] /\ run = [j \in Jobs |-> "none"]
    /\ dirty = [j \in Jobs |-> FALSE]
    /\ counts = [active |-> 0, retained |-> 0]
    /\ mount = [p \in Projects |-> "down"]
    /\ admission = [p \in Projects |-> "free"]
    /\ closed = [p \in Projects |-> FALSE]
    /\ closeErr = [p \in Projects |-> FALSE]
    /\ todo = [p \in Projects |-> {}]
    /\ step = [j \in Jobs |-> "new"] /\ holders = [j \in Jobs |-> {}]
    /\ permit = [j \in Jobs |-> "none"] /\ kernel = [j \in Jobs |-> "none"]
    /\ joinTaken = [j \in Jobs |-> FALSE]
    /\ state = [j \in Jobs |-> "registered"]
    /\ cancel = [j \in Jobs |-> FALSE]
    /\ saveErr = [j \in Jobs |-> FALSE] /\ cleanErr = [j \in Jobs |-> FALSE]
    /\ finished = [j \in Jobs |-> FALSE]
    /\ doubted = {} /\ faults = 0 /\ crashes = 0

-----------------------------------------------------------------------------
(* Shared steps *)

Fault == faults < MaxFaults /\ faults' = faults + 1
NoFault == UNCHANGED faults

(* Mutant: a save that is repeated appends its record again.               *)
AddedAgain(j, r) == [records EXCEPT ![j] = Append(@, r)]

(* SessionService::commit_background: the record is durable, or is not, or *)
(* is although an error is returned (the write's outcome was unknown, or   *)
(* it was made and closing the target failed).  A record that is already   *)
(* in the journal is not appended again.                                   *)
Added(j, r) ==
    IF \E i \in DOMAIN records[j] : records[j][i] = r THEN records
    ELSE [records EXCEPT ![j] = Append(@, r)]
Commit(j, r)      == records' = Added(j, r) /\ NoFault
CommitFails(j, r) == records' \in {records, Added(j, r)} /\ Fault

(* ProcessService::close: the command is stopped and its scratch removed,  *)
(* or one of the two fails; the service answers no poll any more.          *)
Stopped(j) == [run EXCEPT ![j] = IF @ = "running" THEN "killed" ELSE @]
KernelCloses(j) ==
    /\ run' = Stopped(j) /\ dirty' = [dirty EXCEPT ![j] = FALSE]
    /\ kernel' = [kernel EXCEPT ![j] = "closed"]
KernelCloseFails(j) ==
    /\ dirty[j] /\ run' \in {run, Stopped(j)} /\ UNCHANGED dirty
    /\ kernel' = [kernel EXCEPT ![j] = "closed"]

(* The owner sets become held; a job that nobody holds any more drops its  *)
(* permit, which settles it and gives it back (Drop for Permit).           *)
Dropped(held) == {j \in Jobs : holders[j] # {} /\ held[j] = {}}
(* Mutant: a dropped permit is given back as active whether settled or not. *)
WithoutTwice(held) ==
    [active   |-> counts.active - Cardinality(Dropped(held)),
     retained |-> counts.retained - Cardinality(Dropped(held))]
Without(held) ==
    [active   |-> counts.active - Cardinality({j \in Dropped(held) : permit[j] = "active"}),
     retained |-> counts.retained - Cardinality(Dropped(held))]
Hold(held) ==
    /\ holders' = held /\ counts' = Without(held)
    /\ permit' = [j \in Jobs |-> IF j \in Dropped(held) THEN "none" ELSE permit[j]]

Lose(j, owner) == [holders EXCEPT ![j] = @ \ {owner}]
Evict(js) == [j \in Jobs |-> IF j \in js THEN holders[j] \ {"map"} ELSE holders[j]]

(* JobCapacity::acquire on the counts c.                                   *)
CanAcquire(c) == c.active < MaxActive /\ c.retained < MaxRetained

-----------------------------------------------------------------------------
(* JobRegistry::start, under the admission lock *)

(* prepare_entry: enough resolved entries go to make room for one more, or *)
(* all of them and the start is refused; when no permit is left one more   *)
(* goes and the permit is asked for again.                                 *)
EvictableAny(p) == Entries(p)        \* mutant: active jobs go as well
Evictable(p) == {j \in Entries(p) : ~Unresolved(j)}
Evictions(p, n) == {js \in SUBSET Evictable(p) : Cardinality(js) = n}
Surplus(p) == IF Cardinality(Entries(p)) < MaxEntries THEN 0
              ELSE Cardinality(Entries(p)) + 1 - MaxEntries
Evicted(p) ==
    UNION {IF CanAcquire(Without(Evict(js))) THEN {js}
           ELSE {js \cup more : more \in
                   IF Evictable(p) = js THEN {{}} ELSE {{k} : k \in Evictable(p) \ js}} :
           js \in Evictions(p, Surplus(p))}

Prepare(j) ==
    LET p == ProjectOf[j] IN
    /\ step[j] = "new" /\ admission[p] = "free"
    /\ mount[p] = "ready" /\ ~closed[p]
    /\ IF Surplus(p) > Cardinality(Evictable(p))
       THEN /\ Evictable(p) # {} /\ Hold(Evict(Evictable(p)))
            /\ UNCHANGED <<step, admission>>
       ELSE \E js \in Evicted(p) :
              LET held == Evict(js)
                  c    == Without(held)
              IN  IF CanAcquire(c)
                  THEN /\ holders' = [held EXCEPT ![j] = {"starter"}]
                       /\ counts' = [active |-> c.active + 1,
                                     retained |-> c.retained + 1]
                       /\ permit' = [k \in Jobs |->
                             IF k = j THEN "active"
                             ELSE IF k \in Dropped(held) THEN "none" ELSE permit[k]]
                       /\ step' = [step EXCEPT ![j] = "prepared"]
                       /\ admission' = [admission EXCEPT ![p] = "start"]
                  ELSE js # {} /\ Hold(held) /\ UNCHANGED <<step, admission>>
    /\ UNCHANGED <<worldVars, mount, closed, closeErr, todo, kernel, joinTaken,
                   state, cancel, saveErr, cleanErr, finished, boundVars>>

(* The registration is saved first; only then is the entry visible.        *)
Register(j) ==
    LET p == ProjectOf[j] IN
    /\ step[j] = "prepared"
    /\ \/ /\ Commit(j, "registered")
          /\ Hold([holders EXCEPT ![j] = @ \cup {"map"}])
          /\ step' = [step EXCEPT ![j] = "registered"]
          /\ UNCHANGED <<admission, doubted>>
       \/ /\ CommitFails(j, "registered")
          /\ Hold(Lose(j, "starter"))
          /\ step' = [step EXCEPT ![j] = "refused"]
          /\ admission' = [admission EXCEPT ![p] = "free"]
          /\ doubted' = doubted \cup {j}
    /\ UNCHANGED <<run, dirty, mount, closed, closeErr, todo, kernel, joinTaken,
                   state, cancel, saveErr, cleanErr, finished, crashes>>

(* start_background: the command runs; or the request was cancelled or     *)
(* refused before the spawn; or the spawn failed and the command may have  *)
(* run.  A launch that fails closes its process service itself, and a      *)
(* failure of that is only mentioned in the error.                         *)
Ended(j, s) == state' = [state EXCEPT ![j] = s] /\ step' = [step EXCEPT ![j] = "save"]
Launch(j) ==
    /\ step[j] = "registered"
    /\ \/ /\ state' = [state EXCEPT ![j] = "running"]
          /\ step' = [step EXCEPT ![j] = "spawn"]
          /\ run' = [run EXCEPT ![j] = "running"]
          /\ dirty' = [dirty EXCEPT ![j] = TRUE]
          /\ kernel' = [kernel EXCEPT ![j] = "open"]
          /\ NoFault
       \/ Ended(j, "not_started") /\ UNCHANGED <<run, dirty, kernel, faults>>
       \/ /\ Fault /\ UNCHANGED kernel
          /\ dirty' \in {dirty, [dirty EXCEPT ![j] = TRUE]}
          /\ \/ Ended(j, "not_started") /\ UNCHANGED run
             \/ /\ Ended(j, "interrupted")
                /\ run' \in {run, [run EXCEPT ![j] = "lost"]}
    /\ UNCHANGED <<records, hostVars, holders, permit, joinTaken, cancel,
                   saveErr, cleanErr, finished, doubted, crashes>>

(* The monitor thread takes over; or it cannot be spawned, and the command *)
(* is stopped again.                                                       *)
Spawn(j) ==
    /\ step[j] = "spawn"
    /\ \/ /\ Hold([holders EXCEPT ![j] = (@ \ {"starter"}) \cup {"monitor"}])
          /\ step' = [step EXCEPT ![j] = "watch"]
          /\ admission' = [admission EXCEPT ![ProjectOf[j]] = "free"]
          /\ UNCHANGED <<run, dirty, kernel, cleanErr, cancel, state, faults>>
       \/ /\ Fault /\ Ended(j, "interrupted")
          /\ cancel' = [cancel EXCEPT ![j] = TRUE]
          /\ \/ KernelCloses(j) /\ UNCHANGED cleanErr
             \/ KernelCloseFails(j) /\ cleanErr' = [cleanErr EXCEPT ![j] = TRUE]
          /\ UNCHANGED <<counts, holders, permit, admission>>
    /\ UNCHANGED <<records, mount, closed, closeErr, todo, joinTaken, saveErr,
                   finished, doubted, crashes>>

-----------------------------------------------------------------------------
(* The command and its monitor *)

(* The command ends by itself, at its time limit or because it is told to. *)
Exit(j) ==
    /\ run[j] = "running"
    /\ \E fate \in {"zero", "nonzero"} \cup IF cancel[j] THEN {"killed"} ELSE {} :
          run' = [run EXCEPT ![j] = fate]
    /\ UNCHANGED <<records, dirty, hostVars, entryVars, boundVars>>

Observation(fate) ==
    CASE fate = "zero" -> "completed" [] fate = "nonzero" -> "failed"
      [] OTHER -> "killed"

(* observe_exit                                                            *)
Observe(j) ==
    /\ step[j] = "watch" /\ kernel[j] = "open" /\ run[j] # "running"
    /\ state' = [state EXCEPT ![j] = Observation(run[j])]
    /\ step' = [step EXCEPT ![j] = "closing"]
    /\ UNCHANGED <<worldVars, hostVars, holders, permit, kernel, joinTaken,
                   cancel, saveErr, cleanErr, finished, boundVars>>

(* Mutant: a closed process service is not taken for a failed poll.        *)
LoseSightOpen(j) ==
    /\ step[j] = "watch" /\ kernel[j] = "open" /\ Fault
    /\ cancel' \in {cancel, [cancel EXCEPT ![j] = TRUE]}
    /\ state' = [state EXCEPT ![j] = "interrupted"]
    /\ step' = [step EXCEPT ![j] = "closing"]
    /\ UNCHANGED <<worldVars, hostVars, holders, permit, kernel, joinTaken,
                   saveErr, cleanErr, finished, doubted, crashes>>

(* The poll fails, always so once the process service is closed, or the    *)
(* monitor panics, which also cancels the command.                         *)
LoseSight(j) ==
    /\ step[j] = "watch"
    /\ IF kernel[j] = "open" THEN Fault ELSE NoFault
    /\ cancel' \in {cancel, [cancel EXCEPT ![j] = TRUE]}
    /\ state' = [state EXCEPT ![j] = "interrupted"]
    /\ step' = [step EXCEPT ![j] = "closing"]
    /\ UNCHANGED <<worldVars, hostVars, holders, permit, kernel, joinTaken,
                   saveErr, cleanErr, finished, doubted, crashes>>

CloseKernel(j) ==
    /\ step[j] = "closing"
    /\ \/ KernelCloses(j) /\ NoFault /\ UNCHANGED cleanErr
       \/ KernelCloseFails(j) /\ Fault /\ cleanErr' = [cleanErr EXCEPT ![j] = TRUE]
    /\ step' = [step EXCEPT ![j] = "save"]
    /\ UNCHANGED <<records, hostVars, holders, permit, joinTaken, state, cancel,
                   saveErr, finished, doubted, crashes>>

(* finish: save the verdict, settle the permit, set finished; then its     *)
(* thread is done with the entry, and a start gives up the admission lock. *)
SaveVerdict(j) ==
    /\ step[j] = "save"
    /\ \/ Commit(j, state[j]) /\ UNCHANGED saveErr
       \/ CommitFails(j, state[j]) /\ saveErr' = [saveErr EXCEPT ![j] = TRUE]
    /\ step' = [step EXCEPT ![j] = "release"]
    /\ UNCHANGED <<run, dirty, hostVars, holders, permit, kernel, joinTaken,
                   state, cancel, cleanErr, finished, doubted, crashes>>

(* Mutant: settling gives the whole permit back, and dropping it again.    *)
SettlePermitWhole(j) ==
    /\ step[j] = "release"
    /\ counts' = [active |-> counts.active - 1, retained |-> counts.retained - 1]
    /\ permit' = [permit EXCEPT ![j] = "settled"]
    /\ step' = [step EXCEPT ![j] = "finish"]
    /\ UNCHANGED <<worldVars, mount, admission, closed, closeErr, todo, holders,
                   kernel, joinTaken, state, cancel, saveErr, cleanErr, finished,
                   boundVars>>

SettlePermit(j) ==
    /\ step[j] = "release"
    /\ counts' = [counts EXCEPT !.active = IF permit[j] = "active" THEN @ - 1 ELSE @]
    /\ permit' = [permit EXCEPT ![j] = "settled"]
    /\ step' = [step EXCEPT ![j] = "finish"]
    /\ UNCHANGED <<worldVars, mount, admission, closed, closeErr, todo, holders,
                   kernel, joinTaken, state, cancel, saveErr, cleanErr, finished,
                   boundVars>>

Finish(j) ==
    /\ step[j] = "finish"
    /\ finished' = [finished EXCEPT ![j] = TRUE]
    /\ step' = [step EXCEPT ![j] = "done"]
    /\ Hold([holders EXCEPT ![j] = @ \ {"starter", "monitor"}])
    /\ admission' = IF "starter" \in holders[j]
                    THEN [admission EXCEPT ![ProjectOf[j]] = "free"] ELSE admission
    /\ UNCHANGED <<worldVars, mount, closed, closeErr, todo, kernel, joinTaken,
                   state, cancel, saveErr, cleanErr, boundVars>>

-----------------------------------------------------------------------------
(* What the user and the application do *)

Kill(j) ==
    /\ "map" \in holders[j] /\ ~cancel[j]
    /\ cancel' = [cancel EXCEPT ![j] = TRUE]
    /\ UNCHANGED <<worldVars, hostVars, step, holders, permit, kernel, joinTaken,
                   state, saveErr, cleanErr, finished, boundVars>>

(* list, read_output and query borrow the entry while they look at it.     *)
Read(j) ==
    /\ "map" \in holders[j] /\ "reader" \notin holders[j]
    /\ Hold([holders EXCEPT ![j] = @ \cup {"reader"}])
    /\ UNCHANGED <<worldVars, mount, admission, closed, closeErr, todo, step,
                   kernel, joinTaken, state, cancel, saveErr, cleanErr, finished,
                   boundVars>>
ReadEnd(j) ==
    /\ "reader" \in holders[j] /\ Hold(Lose(j, "reader"))
    /\ UNCHANGED <<worldVars, mount, admission, closed, closeErr, todo, step,
                   kernel, joinTaken, state, cancel, saveErr, cleanErr, finished,
                   boundVars>>

(* retry_entry on a finished entry: the cleanup first, then the save; the  *)
(* first failure ends it.                                                  *)
RetryEntry(j) ==
    /\ finished[j]
    /\ \/ /\ cleanErr[j] /\ KernelCloseFails(j) /\ Fault
          /\ UNCHANGED <<records, cleanErr, saveErr>>
       \/ /\ IF cleanErr[j] THEN KernelCloses(j) ELSE UNCHANGED <<run, dirty, kernel>>
          /\ cleanErr' = [cleanErr EXCEPT ![j] = FALSE]
          /\ \/ ~saveErr[j] /\ NoFault /\ UNCHANGED <<records, saveErr>>
             \/ /\ saveErr[j] /\ Commit(j, state[j])
                /\ saveErr' = [saveErr EXCEPT ![j] = FALSE]
             \/ saveErr[j] /\ CommitFails(j, state[j]) /\ UNCHANGED saveErr

(* retry_settlement                                                        *)
Retry(j) ==
    /\ "map" \in holders[j] /\ admission[ProjectOf[j]] = "free"
    /\ saveErr[j] \/ cleanErr[j]
    /\ RetryEntry(j)
    /\ UNCHANGED <<hostVars, step, holders, permit, joinTaken, state, cancel,
                   finished, doubted, crashes>>

(* JobRegistry::close: refuse new starts and cancel every entry; then take *)
(* each monitor's handle and join it, or give up at the deadline and close *)
(* its process service; a finished entry gets one more retry.              *)
CloseBegin(p) ==
    /\ mount[p] \in {"ready", "unavailable"} /\ admission[p] = "free"
    /\ admission' = [admission EXCEPT ![p] = "close"]
    /\ closed' = [closed EXCEPT ![p] = TRUE]
    /\ todo' = [todo EXCEPT ![p] = Entries(p)]
    /\ cancel' = [j \in Jobs |-> cancel[j] \/ j \in Entries(p)]
    /\ UNCHANGED <<worldVars, counts, mount, closeErr, step, holders, permit, kernel,
                   joinTaken, state, saveErr, cleanErr, finished, boundVars>>

MonitoredFinished(j) == "monitor" \in holders[j] /\ finished[j]   \* mutant: no join
Monitored(j) == "monitor" \in holders[j] /\ ~joinTaken[j]
CloseEntry(p) ==
    \E j \in todo[p] :
       /\ admission[p] = "close"
       /\ todo' = [todo EXCEPT ![p] = @ \ {j}]
       /\ joinTaken' = [joinTaken EXCEPT ![j] = TRUE]
       /\ \/ /\ Monitored(j) /\ Fault
             /\ KernelCloses(j) \/ KernelCloseFails(j)
             /\ closeErr' = [closeErr EXCEPT ![p] = TRUE]
             /\ UNCHANGED <<records, cleanErr, saveErr>>
          \/ /\ ~Monitored(j)
             /\ IF finished[j] THEN RetryEntry(j)
                ELSE NoFault /\ UNCHANGED <<worldVars, kernel, cleanErr, saveErr>>
             /\ closeErr' = [closeErr EXCEPT ![p] = @ \/ saveErr'[j] \/ cleanErr'[j]]
       /\ UNCHANGED <<counts, mount, admission, closed, step, holders, permit, state,
                      cancel, finished, doubted, crashes>>

CloseEnd(p) ==
    /\ admission[p] = "close" /\ todo[p] = {}
    /\ admission' = [admission EXCEPT ![p] = "free"]
    /\ UNCHANGED <<worldVars, counts, mount, closed, closeErr, todo, entryVars,
                   boundVars>>

-----------------------------------------------------------------------------
(* Mounting, unmounting, crashes *)

(* A project is unmounted after its registry was closed, and only when it  *)
(* has no active job (Host::unmount_idle); readers are gone by then.       *)
Unmount(p) ==
    /\ mount[p] = "ready" /\ closed[p] /\ admission[p] = "free" /\ ~HasActive(p)
    /\ \A j \in JobsOf(p) : "reader" \notin holders[j]
    /\ Hold(Evict(Entries(p)))
    /\ mount' = [mount EXCEPT ![p] = "down"]
    /\ closed' = [closed EXCEPT ![p] = FALSE]
    /\ closeErr' = [closeErr EXCEPT ![p] = FALSE]
    /\ step' = [j \in Jobs |-> IF ProjectOf[j] = p /\ step[j] = "done"
                               THEN "gone" ELSE step[j]]
    /\ UNCHANGED <<worldVars, admission, todo, kernel, joinTaken, state, cancel,
                   saveErr, cleanErr, finished, boundVars>>

(* recover: every registered job without a verdict is recorded as          *)
(* interrupted; one failed save makes the whole registry unavailable.      *)
Unfinished(p) == {j \in JobsOf(p) : Recorded(j) /\ ~Settled(j)}
Mount(p) ==
    /\ mount[p] = "down"
    /\ mount' = [mount EXCEPT ![p] = "recovering"]
    /\ UNCHANGED <<worldVars, counts, admission, closed, closeErr, todo, entryVars,
                   boundVars>>
RecoverRow(p) ==
    \E j \in Unfinished(p) :
       /\ mount[p] = "recovering"
       /\ \/ Commit(j, "restarted") /\ UNCHANGED mount
          \/ /\ CommitFails(j, "restarted")
             /\ mount' = [mount EXCEPT ![p] = "unavailable"]
       /\ UNCHANGED <<run, dirty, counts, admission, closed, closeErr, todo,
                      entryVars, doubted, crashes>>

(* The most recent rows are restored as finished entries, as long as there *)
(* are permits.                                                            *)
RecoverDone(p) ==
    /\ mount[p] = "recovering" /\ Unfinished(p) = {}
    /\ mount' = [mount EXCEPT ![p] = "restoring"]
    /\ LET rows == {j \in JobsOf(p) : Settled(j)}
           n    == IF Cardinality(rows) < MaxEntries THEN Cardinality(rows)
                   ELSE MaxEntries
       IN  \E js \in SUBSET rows :
              Cardinality(js) = n /\ todo' = [todo EXCEPT ![p] = js]
    /\ UNCHANGED <<worldVars, counts, admission, closed, closeErr, entryVars,
                   boundVars>>
Restore(p) ==
    \E j \in todo[p] :
       /\ mount[p] = "restoring"
       /\ todo' = [todo EXCEPT ![p] = @ \ {j}]
       /\ IF CanAcquire(counts)
          THEN /\ counts' = [counts EXCEPT !.retained = @ + 1]
               /\ permit' = [permit EXCEPT ![j] = "settled"]
               /\ holders' = [holders EXCEPT ![j] = {"map"}]
               /\ step' = [step EXCEPT ![j] = "done"]
               /\ state' = [state EXCEPT ![j] = records[j][2]]
               /\ finished' = [finished EXCEPT ![j] = TRUE]
               /\ cancel' = [cancel EXCEPT ![j] = FALSE]
               /\ kernel' = [kernel EXCEPT ![j] = "none"]
               /\ joinTaken' = [joinTaken EXCEPT ![j] = FALSE]
          ELSE UNCHANGED <<counts, permit, holders, step, state, finished, cancel,
                           kernel, joinTaken>>
       /\ UNCHANGED <<worldVars, mount, admission, closed, closeErr, saveErr,
                      cleanErr, boundVars>>
Ready(p) ==
    /\ mount[p] = "restoring" /\ todo[p] = {}
    /\ mount' = [mount EXCEPT ![p] = "ready"]
    /\ UNCHANGED <<worldVars, counts, admission, closed, closeErr, todo, entryVars,
                   boundVars>>

(* The Host dies: its memory is lost, and with it every command.           *)
Crash ==
    /\ crashes < MaxCrashes /\ crashes' = crashes + 1
    /\ run' = [j \in Jobs |-> IF run[j] = "running" THEN "lost" ELSE run[j]]
    /\ dirty' = [j \in Jobs |-> FALSE]
    /\ counts' = [active |-> 0, retained |-> 0]
    /\ mount' = [p \in Projects |-> "down"]
    /\ admission' = [p \in Projects |-> "free"]
    /\ closed' = [p \in Projects |-> FALSE]
    /\ closeErr' = [p \in Projects |-> FALSE]
    /\ todo' = [p \in Projects |-> {}]
    /\ step' = [j \in Jobs |-> IF step[j] \in {"new", "refused"} THEN step[j] ELSE "gone"]
    /\ holders' = [j \in Jobs |-> {}]
    /\ permit' = [j \in Jobs |-> "none"] /\ kernel' = [j \in Jobs |-> "none"]
    /\ joinTaken' = [j \in Jobs |-> FALSE]
    /\ cancel' = [j \in Jobs |-> FALSE]
    /\ saveErr' = [j \in Jobs |-> FALSE] /\ cleanErr' = [j \in Jobs |-> FALSE]
    /\ finished' = [j \in Jobs |-> FALSE]
    /\ UNCHANGED <<records, state, doubted, faults>>

-----------------------------------------------------------------------------
StartStep(j)   == Prepare(j) \/ Register(j) \/ Launch(j) \/ Spawn(j)
MonitorStep(j) == Observe(j) \/ LoseSight(j) \/ CloseKernel(j)
FinishStep(j)  == SaveVerdict(j) \/ SettlePermit(j) \/ Finish(j)
UserStep(j)    == Kill(j) \/ Read(j) \/ ReadEnd(j) \/ Retry(j)
CloseStep(p)   == CloseBegin(p) \/ CloseEntry(p) \/ CloseEnd(p) \/ Unmount(p)
MountStep(p)   == Mount(p) \/ RecoverRow(p) \/ RecoverDone(p) \/ Restore(p) \/ Ready(p)

Next ==
    \/ \E j \in Jobs : StartStep(j) \/ Exit(j) \/ MonitorStep(j) \/ FinishStep(j)
                       \/ UserStep(j)
    \/ \E p \in Projects : CloseStep(p) \/ MountStep(p)
    \/ Crash

Spec == Init /\ [][Next]_vars

(* Threads run, commands end (every job has a time limit), and a close or a *)
(* recovery that has begun goes on.  Nobody has to start, read, kill, close *)
(* or retry anything.                                                       *)
Fairness ==
    /\ \A j \in Jobs :
          /\ WF_vars(Register(j)) /\ WF_vars(Launch(j)) /\ WF_vars(Spawn(j))
          /\ WF_vars(Exit(j)) /\ WF_vars(MonitorStep(j)) /\ WF_vars(FinishStep(j))
    /\ \A p \in Projects :
          /\ WF_vars(CloseEntry(p)) /\ WF_vars(CloseEnd(p))
          /\ WF_vars(RecoverRow(p)) /\ WF_vars(RecoverDone(p))
          /\ WF_vars(Restore(p)) /\ WF_vars(Ready(p))
FairSpec == Spec /\ Fairness

-----------------------------------------------------------------------------
(* Properties *)

(* Every variable has its type.                                            *)
TypeOK ==
    /\ records \in [Jobs -> Seq({"registered"} \cup Verdicts)]
    /\ run \in [Jobs -> {"none", "running", "zero", "nonzero", "killed", "lost"}]
    /\ dirty \in [Jobs -> BOOLEAN]
    /\ counts \in [active : Nat, retained : Nat]
    /\ mount \in [Projects -> {"down", "recovering", "restoring", "ready", "unavailable"}]
    /\ admission \in [Projects -> {"free", "start", "close"}]
    /\ closed \in [Projects -> BOOLEAN] /\ closeErr \in [Projects -> BOOLEAN]
    /\ todo \in [Projects -> SUBSET Jobs]
    /\ step \in [Jobs -> Idle \cup {"prepared", "registered", "spawn", "watch",
                                    "closing", "save", "release", "finish"}]
    /\ holders \in [Jobs -> SUBSET Owners]
    /\ permit \in [Jobs -> {"none", "active", "settled"}]
    /\ kernel \in [Jobs -> {"none", "open", "closed"}]
    /\ joinTaken \in [Jobs -> BOOLEAN]
    /\ state \in [Jobs -> Verdicts \cup {"registered", "running"}]
    /\ cancel \in [Jobs -> BOOLEAN] /\ saveErr \in [Jobs -> BOOLEAN]
    /\ cleanErr \in [Jobs -> BOOLEAN] /\ finished \in [Jobs -> BOOLEAN]
    /\ doubted \subseteq Jobs
    /\ faults \in 0 .. MaxFaults /\ crashes \in 0 .. MaxCrashes

(* The two counters of JobCapacity are what the live entries of all        *)
(* projects hold, within the limits: a permit is settled once and given    *)
(* back once, whichever of start, monitor, eviction, a reader or an        *)
(* unmount lets go of the entry last.                                      *)
PermitsBalance ==
    /\ counts.active = Cardinality({j \in Jobs : permit[j] = "active"})
    /\ counts.retained = Cardinality({j \in Jobs : permit[j] # "none"})
    /\ \A j \in Jobs : permit[j] = "none" <=> holders[j] = {}
    /\ counts.active <= MaxActive /\ counts.retained <= MaxRetained

(* A job whose registration is durable and has no verdict is somebody's,   *)
(* and so is a command that runs: its registry has it as active work, so   *)
(* the project is neither unmounted nor its session archived, and its      *)
(* entry is never evicted, until the verdict is saved; also after a failed *)
(* poll, a panic of the monitor, a close that gave up, or a cleanup that   *)
(* failed.  Only a registration whose save was reported failed may wait    *)
(* for the next recovery.                                                  *)
Unverdicted(j) ==
    /\ mount[ProjectOf[j]] \in {"ready", "unavailable"}
    /\ Recorded(j) /\ ~Settled(j) /\ j \notin doubted
WorkIsActive ==
    \A j \in Jobs :
       Unverdicted(j) \/ run[j] = "running" => HasActive(ProjectOf[j])

(* A registry of which every close returned Ok has no unsaved verdict, no  *)
(* running command and no monitor left.                                    *)
ClosedIsQuiet ==
    \A p \in Projects :
       closed[p] /\ admission[p] = "free" /\ ~closeErr[p] /\ mount[p] = "ready"
       => \A j \in JobsOf(p) :
             /\ run[j] # "running" /\ holders[j] \subseteq {"map", "reader"}
             /\ "map" \in holders[j] => ~Unresolved(j)

(* The journals and the commands behave as the ledger of JobLedger         *)
(* promises, through failed saves, retries, crashes and recoveries.        *)
Ledger == INSTANCE JobLedger WITH ledger <- records
ImplementsLedger == Ledger!Spec

(* Every start that got its permit, and every close, comes to an end,      *)
(* although each may wait for the other.                                   *)
CallsFinish ==
    /\ \A j \in Jobs : step[j] \notin Idle ~> step[j] \in Idle
    /\ \A p \in Projects : admission[p] = "close" ~> admission[p] = "free"
=============================================================================
