------------------------------ MODULE Automation ------------------------------
(***************************************************************************)
(* Automations of a workspace: users edit them, the events of tasks and    *)
(* the minute's cron tick queue executions of them, a BullMQ worker runs   *)
(* those.  The listener of the events reads the active automations through *)
(* a cache of TTL_MS that an edit clears; the tick reads the table.        *)
(*                                                                         *)
(* One server process, as deployed: a crash empties the cache and ends     *)
(* every handler, the table and the queue stay.  Actions between two       *)
(* awaits of the code are one step.  No publisher of events that an action *)
(* reaches passes them on, so executions do not cascade.                   *)
(***************************************************************************)
EXTENDS Integers

CONSTANTS
    AutoId,         \* automations, each created once at most
    User,           \* edits in flight at the same time
    Listener,       \* event handlers in flight at the same time
    Ticker,         \* cron ticks in flight at the same time
    Job,            \* executions; each is queued once
    NoAuto,         \* an idle slot is about no automation
    NoTime,         \* nextRunAt is null
    Ttl,            \* TTL_MS
    Attempts,       \* attempts of the queue's jobs
    MaxStalls,      \* maxStalledCount of the worker
    Actions,        \* length of compiledActions
    MaxNow,         \* bound on the clock
    MaxEdits,       \* bound on the edits
    MaxCrashes      \* bound on the crashes

ASSUME AutomationAssumption ==
    /\ NoAuto \notin AutoId
    /\ NoTime \notin Nat
    /\ Ttl \in Nat \ {0}
    /\ Attempts \in Nat \ {0}
    /\ Actions \in Nat \ {0}
    /\ MaxStalls \in Nat /\ MaxNow \in Nat /\ MaxEdits \in Nat /\ MaxCrashes \in Nat

VARIABLES
    now,        \* the clock
    row,        \* absent, live, or deletedAt set
    active,     \* isActive
    cron,       \* whether the trigger is CRON, or else the event
    next,       \* nextRunAt
    cached,     \* the cached list of the event's active automations
    expires,    \* when it expires; NoTime without a list
    upc, edited, flag,          \* a user's next statement, automation, isActive read
    lpc, began, list,           \* a listener's next statement, its Date.now(), its list
    tpc, due, current, stale,   \* a tick's next statement, what is due, history
    job,        \* the state of each job
    of,         \* its automation
    tries,      \* attempts that ended with an error
    stalls,     \* times the worker that ran it was gone
    step,       \* actions that the attempt has run
    skipped,    \* history: an attempt found nothing to do
    ran,        \* history: attempts that ran all actions
    counted,    \* history: times it incremented executionCount
    offSince,   \* history: when the event's list lost an automation
    onSince,    \* history: when it gained it
    fired,      \* history: when a tick queued an automation last
    edits, crashes

rows == <<row, active, cron, next>>
cache == <<cached, expires>>
users == <<upc, edited, flag>>
listeners == <<lpc, began, list>>
ticks == <<tpc, due, current, stale>>
worker == <<tries, stalls, step, skipped, ran, counted>>
jobs == <<job, of, worker>>
changes == <<offSince, onSince>>
vars == <<now, rows, cache, users, listeners, ticks, jobs, changes, fired, edits, crashes>>

Time == Nat \cup {NoTime}

Init ==
    /\ now = 0
    /\ row = [a \in AutoId |-> "absent"]
    /\ active = [a \in AutoId |-> FALSE]
    /\ cron = [a \in AutoId |-> FALSE]
    /\ next = [a \in AutoId |-> NoTime]
    /\ cached = {} /\ expires = NoTime
    /\ upc = [u \in User |-> "idle"]
    /\ edited = [u \in User |-> NoAuto]
    /\ flag = [u \in User |-> FALSE]
    /\ lpc = [l \in Listener |-> "idle"]
    /\ began = [l \in Listener |-> 0]
    /\ list = [l \in Listener |-> {}]
    /\ tpc = [k \in Ticker |-> "idle"]
    /\ due = [k \in Ticker |-> {}]
    /\ current = [k \in Ticker |-> NoAuto]
    /\ stale = [k \in Ticker |-> {}]
    /\ job = [j \in Job |-> "free"]
    /\ of = [j \in Job |-> NoAuto]
    /\ tries = [j \in Job |-> 0]
    /\ stalls = [j \in Job |-> 0]
    /\ step = [j \in Job |-> 0]
    /\ skipped = [j \in Job |-> FALSE]
    /\ ran = [j \in Job |-> 0]
    /\ counted = [j \in Job |-> 0]
    /\ offSince = [a \in AutoId |-> 0]
    /\ onSince = [a \in AutoId |-> 0]
    /\ fired = [a \in AutoId |-> 0]
    /\ edits = 0 /\ crashes = 0

Tick ==
    /\ now < MaxNow
    /\ now' = now + 1
    /\ UNCHANGED <<rows, cache, users, listeners, ticks, jobs, changes, fired, edits, crashes>>

-----------------------------------------------------------------------------
(* Users: a read, a write by id, and the invalidation of the cache after   *)
(* the write has returned.                                                 *)

\* findActiveByTrigger
Listed(a) == row[a] = "live" /\ active[a] /\ ~cron[a]

\* computeNext: some later time, or null if the expression makes no sense.
Later == (now + 1)..(MaxNow + 1)

Stamp ==
    /\ offSince' = [a \in AutoId |-> IF Listed(a) /\ ~Listed(a)' THEN now ELSE offSince[a]]
    /\ onSince' = [a \in AutoId |-> IF ~Listed(a) /\ Listed(a)' THEN now ELSE onSince[a]]

\* Ticks that have read nextRunAt of a.
Overtake(a) == [k \in Ticker |->
    IF a \in due[k] \cup {current[k]} THEN stale[k] \cup {a} ELSE stale[k]]

WriteRow(a, state, on, isCron, time) ==
    /\ row' = [row EXCEPT ![a] = state]
    /\ active' = [active EXCEPT ![a] = on]
    /\ cron' = [cron EXCEPT ![a] = isCron]
    /\ next' = [next EXCEPT ![a] = time]
    /\ stale' = IF time = next[a] THEN stale ELSE Overtake(a)
    /\ Stamp

Edit(u) == edits < MaxEdits /\ edits' = edits + 1 /\ upc[u] = "idle"

Create(u) ==
    /\ Edit(u)
    /\ \E a \in AutoId, on \in BOOLEAN, isCron \in BOOLEAN :
        /\ row[a] = "absent"
        /\ \E time \in IF isCron THEN Later \cup {NoTime} ELSE {NoTime} :
              WriteRow(a, "live", on, isCron, time)
    /\ upc' = [upc EXCEPT ![u] = "invalidate"]
    /\ UNCHANGED <<now, cache, edited, flag, listeners, tpc, due, current, jobs, fired, crashes>>

\* update, remove and toggle begin with findById.
ReadAutomation(u) ==
    /\ Edit(u)
    /\ \E a \in AutoId :
        /\ row[a] = "live"
        /\ upc' = [upc EXCEPT ![u] = "write"]
        /\ edited' = [edited EXCEPT ![u] = a]
        /\ flag' = [flag EXCEPT ![u] = active[a]]
    /\ UNCHANGED <<now, rows, cache, listeners, ticks, jobs, changes, fired, crashes>>

Written(u) ==
    /\ upc' = [upc EXCEPT ![u] = "invalidate"]
    /\ edited' = [edited EXCEPT ![u] = NoAuto]
    /\ flag' = [flag EXCEPT ![u] = FALSE]
    /\ UNCHANGED <<now, cache, listeners, tpc, due, current, jobs, fired, edits, crashes>>

\* A patch that sets the trigger, or the time zone alone, sets nextRunAt too:
\* to null unless the patch says CRON.
Update(u) ==
    /\ upc[u] = "write"
    /\ LET a == edited[u] IN
       \E on \in BOOLEAN :
           \/ WriteRow(a, row[a], on, cron[a], next[a])
           \/ \E time \in Later \cup {NoTime} : WriteRow(a, row[a], on, TRUE, time)
           \/ WriteRow(a, row[a], on, FALSE, NoTime)
           \/ WriteRow(a, row[a], on, cron[a], NoTime)
    /\ Written(u)

RemoveAutomation(u) ==
    /\ upc[u] = "write"
    /\ LET a == edited[u] IN WriteRow(a, "deleted", FALSE, cron[a], next[a])
    /\ Written(u)

Toggle(u) ==
    /\ upc[u] = "write"
    /\ LET a == edited[u] IN WriteRow(a, row[a], ~flag[u], cron[a], next[a])
    /\ Written(u)

InvalidateWorkspace(u) ==
    /\ upc[u] = "invalidate"
    /\ cached' = {} /\ expires' = NoTime
    /\ upc' = [upc EXCEPT ![u] = "idle"]
    /\ UNCHANGED <<now, rows, edited, flag, listeners, ticks, jobs, changes, fired, edits, crashes>>

-----------------------------------------------------------------------------
(* AutomationListener.handle                                               *)

\* The event, and a look into the cache.
HandleEvent(l) ==
    /\ lpc[l] = "idle"
    /\ began' = [began EXCEPT ![l] = now]
    /\ IF expires \in Nat /\ expires > now
         THEN /\ list' = [list EXCEPT ![l] = cached]
              /\ lpc' = [lpc EXCEPT ![l] = "match"]
         ELSE /\ lpc' = [lpc EXCEPT ![l] = "load"]
              /\ UNCHANGED list
    /\ UNCHANGED <<now, rows, cache, users, ticks, jobs, changes, fired, edits, crashes>>

\* The query sees the table as it is now; its result arrives later.
LoadActive(l) ==
    /\ lpc[l] = "load"
    /\ list' = [list EXCEPT ![l] = {a \in AutoId : Listed(a)}]
    /\ lpc' = [lpc EXCEPT ![l] = "store"]
    /\ UNCHANGED <<now, rows, cache, users, began, ticks, jobs, changes, fired, edits, crashes>>

\* Mutant of StoreList: the entry lives from when it is stored.
StoreListLate(l) ==
    /\ lpc[l] = "store"
    /\ cached' = list[l] /\ expires' = now + Ttl
    /\ lpc' = [lpc EXCEPT ![l] = "match"]
    /\ UNCHANGED <<now, rows, users, began, list, ticks, jobs, changes, fired, edits, crashes>>

\* store.set, whatever was invalidated since; the entry lives from when the
\* listener looked.
StoreList(l) ==
    /\ lpc[l] = "store"
    /\ cached' = list[l] /\ expires' = began[l] + Ttl
    /\ lpc' = [lpc EXCEPT ![l] = "match"]
    /\ UNCHANGED <<now, rows, users, began, list, ticks, jobs, changes, fired, edits, crashes>>

\* ensureScopeFields and isInScope: some of the list are about the task.
MatchScope(l) ==
    /\ lpc[l] = "match"
    /\ list' \in {[list EXCEPT ![l] = S] : S \in SUBSET list[l]}
    /\ lpc' = [lpc EXCEPT ![l] = "schedule"]
    /\ UNCHANGED <<now, rows, cache, users, began, ticks, jobs, changes, fired, edits, crashes>>

\* scheduleExecution
Enqueue(a) ==
    \E j \in Job :
        /\ job[j] = "free"
        /\ job' = [job EXCEPT ![j] = "waiting"]
        /\ of' = [of EXCEPT ![j] = a]
        /\ UNCHANGED worker

\* Promise.all: one job for each, in any order; an error stops none of the
\* others.
Schedule(l) ==
    /\ lpc[l] = "schedule"
    /\ \E a \in list[l] :
        /\ list' = [list EXCEPT ![l] = @ \ {a}]
        /\ Enqueue(a) \/ UNCHANGED jobs
    /\ UNCHANGED <<now, rows, cache, users, lpc, began, ticks, changes, fired, edits, crashes>>

EndHandle(l) ==
    /\ lpc[l] = "schedule" /\ list[l] = {}
    /\ lpc' = [lpc EXCEPT ![l] = "idle"]
    /\ began' = [began EXCEPT ![l] = 0]
    /\ UNCHANGED <<now, rows, cache, users, list, ticks, jobs, changes, fired, edits, crashes>>

-----------------------------------------------------------------------------
(* CronSchedulerService.tick                                               *)

Due(a) == /\ row[a] = "live" /\ active[a] /\ cron[a]
          /\ next[a] \in Nat /\ next[a] <= now

FindDue(k) ==
    /\ tpc[k] = "idle"
    /\ \E a \in AutoId : Due(a)
    /\ due' = [due EXCEPT ![k] = {a \in AutoId : Due(a)}]
    /\ tpc' = [tpc EXCEPT ![k] = "add"]
    /\ UNCHANGED <<now, rows, cache, users, listeners, current, stale, jobs, changes, fired,
                   edits, crashes>>

\* Mutant of AddCron: what the queue refused is advanced like the rest.
AddCronAdvances(k) ==
    /\ tpc[k] = "add"
    /\ \E a \in due[k] :
        /\ due' = [due EXCEPT ![k] = @ \ {a}]
        /\ current' = [current EXCEPT ![k] = a]
        /\ tpc' = [tpc EXCEPT ![k] = "advance"]
        /\ \/ Enqueue(a) /\ fired' = [fired EXCEPT ![a] = now]
           \/ UNCHANGED <<jobs, fired>>
    /\ UNCHANGED <<now, rows, cache, users, listeners, stale, changes, edits, crashes>>

\* An error of the queue is logged; the automation stays due.
AddCron(k) ==
    /\ tpc[k] = "add"
    /\ \E a \in due[k] :
        /\ due' = [due EXCEPT ![k] = @ \ {a}]
        /\ \/ /\ Enqueue(a)
              /\ fired' = [fired EXCEPT ![a] = now]
              /\ current' = [current EXCEPT ![k] = a]
              /\ tpc' = [tpc EXCEPT ![k] = "advance"]
              /\ UNCHANGED stale
           \/ /\ stale' = [stale EXCEPT ![k] = @ \ {a}]
              /\ UNCHANGED <<tpc, current, jobs, fired>>
    /\ UNCHANGED <<now, rows, cache, users, listeners, changes, edits, crashes>>

\* updateNextRunAt by id, after the row's cron expression as it was read; an
\* error is logged, and the automation stays due.
Advance(k) ==
    /\ tpc[k] = "advance"
    /\ LET a == current[k] IN
        \/ /\ \E time \in Later : next' = [next EXCEPT ![a] = time]
           /\ stale' = [Overtake(a) EXCEPT ![k] = stale[k] \ {a}]
        \/ /\ stale' = [stale EXCEPT ![k] = @ \ {a}]
           /\ UNCHANGED next
    /\ current' = [current EXCEPT ![k] = NoAuto]
    /\ tpc' = [tpc EXCEPT ![k] = "add"]
    /\ UNCHANGED <<now, row, active, cron, cache, users, listeners, due, jobs, changes, fired,
                   edits, crashes>>

EndTick(k) ==
    /\ tpc[k] = "add" /\ due[k] = {}
    /\ tpc' = [tpc EXCEPT ![k] = "idle"]
    /\ UNCHANGED <<now, rows, cache, users, listeners, due, current, stale, jobs, changes, fired,
                   edits, crashes>>

-----------------------------------------------------------------------------
(* AutomationProcessor, one job at a time.                                 *)

Only(j) ==
    UNCHANGED <<now, rows, cache, users, listeners, ticks, of, changes, fired, edits, crashes>>

Running == {"read", "act", "record", "return"}

Take(j) ==
    /\ job[j] = "waiting"
    /\ \A i \in Job : job[i] \notin Running
    /\ job' = [job EXCEPT ![j] = "read"]
    /\ UNCHANGED worker /\ Only(j)

\* Mutant of ReadJob: the execution is recorded before its actions are run.
ReadJobRecords(j) ==
    /\ job[j] = "read"
    /\ \/ /\ row[of[j]] = "live" /\ active[of[j]]
          /\ job' = [job EXCEPT ![j] = "act"]
          /\ step' = [step EXCEPT ![j] = 0]
          /\ counted' = [counted EXCEPT ![j] = @ + 1]
          /\ UNCHANGED skipped
       \/ /\ job' = [job EXCEPT ![j] = "return"]
          /\ skipped' = [skipped EXCEPT ![j] = TRUE]
          /\ UNCHANGED <<step, counted>>
    /\ UNCHANGED <<tries, stalls, ran>> /\ Only(j)

\* findById, isActive, and conditions that may not be met.
ReadJob(j) ==
    /\ job[j] = "read"
    /\ \/ /\ row[of[j]] = "live" /\ active[of[j]]
          /\ job' = [job EXCEPT ![j] = "act"]
          /\ step' = [step EXCEPT ![j] = 0]
          /\ UNCHANGED skipped
       \/ /\ job' = [job EXCEPT ![j] = "return"]
          /\ skipped' = [skipped EXCEPT ![j] = TRUE]
          /\ UNCHANGED step
    /\ UNCHANGED <<tries, stalls, ran, counted>> /\ Only(j)

\* One action; its errors are results.
RunAction(j) ==
    /\ job[j] = "act"
    /\ step' = [step EXCEPT ![j] = @ + 1]
    /\ IF step[j] + 1 = Actions
         THEN /\ job' = [job EXCEPT ![j] = "record"]
              /\ ran' = [ran EXCEPT ![j] = @ + 1]
         ELSE UNCHANGED <<job, ran>>
    /\ UNCHANGED <<tries, stalls, skipped, counted>> /\ Only(j)

RecordExecution(j) ==
    /\ job[j] = "record"
    /\ counted' = [counted EXCEPT ![j] = @ + 1]
    /\ job' = [job EXCEPT ![j] = "return"]
    /\ UNCHANGED <<tries, stalls, step, skipped, ran>> /\ Only(j)

Complete(j) ==
    /\ job[j] = "return"
    /\ job' = [job EXCEPT ![j] = "done"]
    /\ UNCHANGED worker /\ Only(j)

\* A query is rejected, if only for the answer of a committed one being lost:
\* the job is retried until its attempts are used up.
FailAttempt(j) ==
    /\ job[j] \in {"read", "record", "return"}
    /\ tries' = [tries EXCEPT ![j] = @ + 1]
    /\ job' = [job EXCEPT ![j] = IF tries[j] + 1 < Attempts THEN "waiting" ELSE "failed"]
    /\ UNCHANGED <<stalls, step, skipped, ran, counted>> /\ Only(j)

\* BullMQ's stalled check.
Recover(j) ==
    /\ job[j] = "stalled"
    /\ stalls' = [stalls EXCEPT ![j] = @ + 1]
    /\ job' = [job EXCEPT ![j] = IF stalls[j] < MaxStalls THEN "waiting" ELSE "failed"]
    /\ UNCHANGED <<tries, step, skipped, ran, counted>> /\ Only(j)

Crash ==
    /\ crashes < MaxCrashes /\ crashes' = crashes + 1
    /\ cached' = {} /\ expires' = NoTime
    /\ upc' = [u \in User |-> "idle"]
    /\ edited' = [u \in User |-> NoAuto]
    /\ flag' = [u \in User |-> FALSE]
    /\ lpc' = [l \in Listener |-> "idle"]
    /\ began' = [l \in Listener |-> 0]
    /\ list' = [l \in Listener |-> {}]
    /\ tpc' = [k \in Ticker |-> "idle"]
    /\ due' = [k \in Ticker |-> {}]
    /\ current' = [k \in Ticker |-> NoAuto]
    /\ stale' = [k \in Ticker |-> {}]
    /\ job' = [j \in Job |-> IF job[j] \in Running THEN "stalled" ELSE job[j]]
    /\ UNCHANGED <<now, rows, of, worker, changes, fired, edits>>

UserStep(u) ==
    \/ Create(u) \/ ReadAutomation(u) \/ Update(u) \/ RemoveAutomation(u) \/ Toggle(u)
    \/ InvalidateWorkspace(u)

ListenerStep(l) ==
    \/ HandleEvent(l) \/ LoadActive(l) \/ StoreList(l) \/ MatchScope(l) \/ Schedule(l)
    \/ EndHandle(l)

TickerStep(k) == FindDue(k) \/ AddCron(k) \/ Advance(k) \/ EndTick(k)

Work(j) ==
    \/ Take(j) \/ ReadJob(j) \/ RunAction(j) \/ RecordExecution(j) \/ Complete(j)
    \/ FailAttempt(j) \/ Recover(j)

Next ==
    \/ Tick \/ Crash
    \/ \E u \in User : UserStep(u)
    \/ \E l \in Listener : ListenerStep(l)
    \/ \E k \in Ticker : TickerStep(k)
    \/ \E j \in Job : Work(j)

Spec == Init /\ [][Next]_vars

-----------------------------------------------------------------------------
(* Properties.                                                             *)

TypeOK ==
    /\ now \in Nat
    /\ row \in [AutoId -> {"absent", "live", "deleted"}]
    /\ active \in [AutoId -> BOOLEAN]
    /\ cron \in [AutoId -> BOOLEAN]
    /\ next \in [AutoId -> Time]
    /\ cached \subseteq AutoId /\ expires \in Time
    /\ upc \in [User -> {"idle", "write", "invalidate"}]
    /\ edited \in [User -> AutoId \cup {NoAuto}]
    /\ \A u \in User : upc[u] = "write" => edited[u] \in AutoId
    /\ flag \in [User -> BOOLEAN]
    /\ lpc \in [Listener -> {"idle", "load", "store", "match", "schedule"}]
    /\ began \in [Listener -> Nat]
    /\ list \in [Listener -> SUBSET AutoId]
    /\ tpc \in [Ticker -> {"idle", "add", "advance"}]
    /\ due \in [Ticker -> SUBSET AutoId]
    /\ current \in [Ticker -> AutoId \cup {NoAuto}]
    /\ stale \in [Ticker -> SUBSET AutoId]
    /\ job \in [Job -> {"free", "waiting", "stalled", "done", "failed"} \cup Running]
    /\ of \in [Job -> AutoId \cup {NoAuto}]
    /\ tries \in [Job -> Nat] /\ stalls \in [Job -> Nat] /\ step \in [Job -> Nat]
    /\ skipped \in [Job -> BOOLEAN]
    /\ ran \in [Job -> Nat] /\ counted \in [Job -> Nat]
    /\ offSince \in [AutoId -> Nat] /\ onSince \in [AutoId -> Nat]
    /\ fired \in [AutoId -> Nat]
    /\ edits \in Nat /\ crashes \in Nat

\* An automation that L lists although it is not active was until after time
\* t; one that it does not list although it is active was not before.
UpToDate(L, t) ==
    \A a \in AutoId :
        /\ a \in L /\ ~Listed(a) => offSince[a] >= t
        /\ a \notin L /\ Listed(a) => onSince[a] >= t

\* An edit takes effect within TTL_MS, even when a load that began before it
\* stores its list after the invalidation: what an event is matched with was
\* the truth less than TTL_MS before the event.
StaleWithinTtl ==
    \A l \in Listener : lpc[l] = "match" => UpToDate(list[l], began[l] - Ttl + 1)

\* executionCount and the queue agree with what was run, whatever fails or
\* crashes half-way: a count stands for all actions, a job that is done was
\* skipped or counted, and it ran no more often than its attempts allow.
CountTellsRuns ==
    \A j \in Job :
        /\ counted[j] <= ran[j]
        /\ ran[j] <= Attempts + MaxStalls
        /\ job[j] = "done" => skipped[j] \/ counted[j] > 0

\* A cron run that is due is given up only after a job for it is queued,
\* unless somebody else writes nextRunAt between the tick's read and write.
DueIsFired ==
    [][\A k \in Ticker :
          LET a == current[k] IN
          tpc[k] = "advance" /\ tpc'[k] = "add" /\ a \notin stale[k] /\ next' # next
              => next[a] \in Nat /\ fired[a] >= next[a]]_vars

\* What the cache and the listeners have read of the active automations.
ListsKnown ==
    /\ expires \in Nat => expires <= now + Ttl /\ UpToDate(cached, expires - Ttl)
    /\ \A l \in Listener :
        /\ began[l] <= now
        /\ lpc[l] = "store" => UpToDate(list[l], began[l])

\* What a tick has read of the automations it has not advanced.
TicksKnow ==
    /\ \A a \in AutoId : fired[a] <= now
    /\ \A k \in Ticker :
        /\ current[k] \notin due[k]
        /\ tpc[k] = "advance" <=> current[k] \in AutoId
        /\ \A a \in due[k] \ stale[k] : next[a] \in Nat /\ next[a] <= now
        /\ \A a \in {current[k]} \ (stale[k] \cup {NoAuto}) :
               next[a] \in Nat /\ next[a] <= fired[a]

\* An attempt runs the actions once, and is used up by an error or a stall.
JobsKnown ==
    \A j \in Job :
        /\ ran[j] <= tries[j] + stalls[j]
              + IF job[j] \in {"record", "return", "stalled", "done"} THEN 1 ELSE 0
        /\ IF job[j] = "failed" THEN tries[j] + stalls[j] <= Attempts + MaxStalls
                              ELSE tries[j] < Attempts /\ stalls[j] <= MaxStalls
        /\ job[j] = "record" => counted[j] < ran[j]
        /\ job[j] \in {"return", "done"} => skipped[j] \/ counted[j] > 0
        /\ counted[j] <= ran[j]

\* The inductive invariant.
IInv == TypeOK /\ ListsKnown /\ StaleWithinTtl /\ TicksKnow /\ JobsKnown
=============================================================================
