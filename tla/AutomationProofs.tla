--------------------------- MODULE AutomationProofs ---------------------------
(***************************************************************************)
(* Theorems about Automation, for any number of automations, users,        *)
(* listeners, ticks, jobs, attempts and actions.  The inductive invariant  *)
(* dates what the cache and the listeners hold (ListsKnown), what a tick   *)
(* has read and nobody has overwritten (TicksKnow) and what the attempts   *)
(* of a job have used up (JobsKnown); each step disturbs one of the three. *)
(***************************************************************************)
EXTENDS Automation, TLAPS

USE DEF rows, cache, users, listeners, ticks, worker, jobs, changes

\* The initial state satisfies the inductive invariant.
LEMMA InitIInv == Init => IInv
  BY AutomationAssumption
  DEF Init, IInv, TypeOK, ListsKnown, StaleWithinTtl, UpToDate, Listed, TicksKnow,
      JobsKnown, Time, Running

-----------------------------------------------------------------------------
(* What each part of the invariant depends on.                             *)

LEMMA ListsStay ==
  ASSUME ListsKnown, StaleWithinTtl,
         UNCHANGED <<now, row, active, cron, cache, listeners, changes>>
  PROVE  ListsKnown' /\ StaleWithinTtl'
  BY DEF ListsKnown, StaleWithinTtl, UpToDate, Listed

LEMMA TicksStay ==
  ASSUME TicksKnow, UNCHANGED <<now, next, ticks, fired>>
  PROVE  TicksKnow'
  BY DEF TicksKnow

LEMMA JobsStay ==
  ASSUME JobsKnown, UNCHANGED <<job, worker>>
  PROVE  JobsKnown'
  BY DEF JobsKnown

\* A list dated t stays what it says as the table changes at a time after t.
LEMMA StampKeepsDates ==
  ASSUME TypeOK, Stamp, NEW L, NEW t \in Int, t <= now, UpToDate(L, t)
  PROVE  UpToDate(L, t)'
  BY DEF TypeOK, Stamp, UpToDate

LEMMA StampTypes ==
  ASSUME TypeOK, Stamp
  PROVE  offSince' \in [AutoId -> Nat] /\ onSince' \in [AutoId -> Nat]
<1>1. \A a \in AutoId : now \in Nat /\ offSince[a] \in Nat /\ onSince[a] \in Nat
  BY DEF TypeOK
<1>. QED  BY <1>1 DEF Stamp

\* Who has read an automation's nextRunAt is overtaken when it is written.
LEMMA OvertakeAdds ==
  ASSUME TypeOK, NEW a \in AutoId
  PROVE  /\ Overtake(a) \in [Ticker -> SUBSET AutoId]
         /\ \A k \in Ticker :
                /\ stale[k] \subseteq Overtake(a)[k]
                /\ a \in due[k] \cup {current[k]} => a \in Overtake(a)[k]
  BY DEF TypeOK, Overtake

\* An older date says less.
LEMMA OlderDate ==
  ASSUME TypeOK, NEW L, NEW t \in Int, NEW s \in Int, s <= t, UpToDate(L, t)
  PROVE  UpToDate(L, s)
<1>. SUFFICES ASSUME NEW a \in AutoId
     PROVE  /\ a \in L /\ ~Listed(a) => offSince[a] >= s
            /\ a \notin L /\ Listed(a) => onSince[a] >= s
  BY DEF UpToDate
<1>1. offSince[a] \in Int /\ onSince[a] \in Int
  BY DEF TypeOK
<1>. QED  BY <1>1 DEF UpToDate

-----------------------------------------------------------------------------
(* The steps.                                                              *)

LEMMA TickPreserves ==
  ASSUME IInv, Tick
  PROVE  IInv'
<1>. USE DEF Tick, IInv
<1>1. TypeOK'
  BY DEF TypeOK
<1>2. ListsKnown' /\ StaleWithinTtl'
  BY AutomationAssumption DEF TypeOK, ListsKnown, StaleWithinTtl, UpToDate, Listed, Time
<1>3. TicksKnow'
  BY DEF TypeOK, TicksKnow, Time
<1>. QED  BY <1>1, <1>2, <1>3, JobsStay

\* A row is written: lists keep their dates, and the ticks that have read
\* another nextRunAt are overtaken.
LEMMA WriteRowPreserves ==
  ASSUME IInv, NEW a \in AutoId, NEW state \in {"absent", "live", "deleted"}, NEW on \in BOOLEAN,
         NEW isCron \in BOOLEAN, NEW time \in Time, WriteRow(a, state, on, isCron, time),
         UNCHANGED <<now, cache, listeners, tpc, due, current, jobs, fired>>,
         upc' \in [User -> {"idle", "write", "invalidate"}],
         edited' \in [User -> AutoId \cup {NoAuto}], flag' \in [User -> BOOLEAN],
         \A u \in User : upc'[u] = "write" => edited'[u] \in AutoId,
         edits' \in Nat, crashes' \in Nat
  PROVE  IInv'
<1>. USE DEF IInv
<1>1. /\ row' = [row EXCEPT ![a] = state] /\ active' = [active EXCEPT ![a] = on]
      /\ cron' = [cron EXCEPT ![a] = isCron] /\ next' = [next EXCEPT ![a] = time]
      /\ stale' = (IF time = next[a] THEN stale ELSE Overtake(a))
      /\ Stamp
  BY DEF WriteRow
<1>2. stale' \in [Ticker -> SUBSET AutoId]
  <2>1. stale \in [Ticker -> SUBSET AutoId] /\ Overtake(a) \in [Ticker -> SUBSET AutoId]
    BY OvertakeAdds DEF TypeOK
  <2>. QED  BY <1>1, <2>1
<1>3. offSince' \in [AutoId -> Nat] /\ onSince' \in [AutoId -> Nat]
  BY <1>1, StampTypes
<1>4. TypeOK'
  BY <1>1, <1>2, <1>3 DEF TypeOK
<1>5. ListsKnown'
  <2>1. ASSUME expires \in Nat  PROVE UpToDate(cached, expires - Ttl)'
    BY <1>1, <2>1, StampKeepsDates, AutomationAssumption DEF ListsKnown, TypeOK
  <2>2. ASSUME NEW l \in Listener, lpc[l] = "store"  PROVE UpToDate(list[l], began[l])'
    BY <1>1, <2>2, StampKeepsDates DEF ListsKnown, TypeOK
  <2>. QED  BY <2>1, <2>2 DEF ListsKnown, UpToDate
<1>6. StaleWithinTtl'
  <2>1. ASSUME NEW l \in Listener, lpc[l] = "match"
        PROVE  UpToDate(list[l], began[l] - Ttl + 1)'
    BY <1>1, <2>1, StampKeepsDates, AutomationAssumption DEF ListsKnown, StaleWithinTtl, TypeOK
  <2>. QED  BY <2>1 DEF StaleWithinTtl, UpToDate
<1>7. TicksKnow'
  <2>1. ASSUME NEW k \in Ticker, NEW b \in AutoId, b \in due[k] \cup {current[k]},
               b \notin stale'[k]
        PROVE  next'[b] = next[b] /\ b \notin stale[k]
    <3>1. CASE time = next[a]
      BY <1>1, <2>1, <3>1 DEF TypeOK
    <3>2. CASE time # next[a]
      BY <1>1, <2>1, <3>2, OvertakeAdds DEF TypeOK
    <3>. QED  BY <3>1, <3>2
  <2>2. \A k \in Ticker : due[k] \subseteq AutoId /\ current[k] \in AutoId \cup {NoAuto}
    BY DEF TypeOK
  <2>. QED  BY <2>1, <2>2 DEF TicksKnow
<1>. QED  BY <1>4, <1>5, <1>6, <1>7, JobsStay

LEMMA CreatePreserves ==
  ASSUME IInv, NEW u \in User, Create(u)
  PROVE  IInv'
<1>1. PICK a \in AutoId, on \in BOOLEAN, isCron \in BOOLEAN, time \in Time :
         WriteRow(a, "live", on, isCron, time)
  BY DEF Create, Later, Time, IInv, TypeOK
<1>2. /\ UNCHANGED <<now, cache, listeners, tpc, due, current, jobs, fired>>
      /\ upc' \in [User -> {"idle", "write", "invalidate"}]
      /\ edited' \in [User -> AutoId \cup {NoAuto}] /\ flag' \in [User -> BOOLEAN]
      /\ \A v \in User : upc'[v] = "write" => edited'[v] \in AutoId
      /\ edits' \in Nat /\ crashes' \in Nat
  BY DEF Create, Edit, IInv, TypeOK
<1>. QED  BY <1>1, <1>2, WriteRowPreserves

LEMMA ReadAutomationPreserves ==
  ASSUME IInv, NEW u \in User, ReadAutomation(u)
  PROVE  IInv'
<1>. USE DEF ReadAutomation, Edit, IInv
<1>1. TypeOK'
  BY DEF TypeOK
<1>. QED  BY <1>1, ListsStay, TicksStay, JobsStay

\* The three writes by id of an automation that was read.
LEMMA WrittenPreserves ==
  ASSUME IInv, NEW u \in User, upc[u] = "write", NEW state \in {"absent", "live", "deleted"},
         NEW on \in BOOLEAN, NEW isCron \in BOOLEAN, NEW time \in Time,
         WriteRow(edited[u], state, on, isCron, time), Written(u)
  PROVE  IInv'
<1>1. edited[u] \in AutoId
  BY DEF IInv, TypeOK
<1>2. /\ UNCHANGED <<now, cache, listeners, tpc, due, current, jobs, fired>>
      /\ upc' \in [User -> {"idle", "write", "invalidate"}]
      /\ edited' \in [User -> AutoId \cup {NoAuto}] /\ flag' \in [User -> BOOLEAN]
      /\ \A v \in User : upc'[v] = "write" => edited'[v] \in AutoId
      /\ edits' \in Nat /\ crashes' \in Nat
  BY DEF Written, IInv, TypeOK
<1>. QED  BY <1>1, <1>2, WriteRowPreserves

LEMMA UpdatePreserves ==
  ASSUME IInv, NEW u \in User, Update(u)
  PROVE  IInv'
<1>1. PICK on \in BOOLEAN, isCron \in BOOLEAN, time \in Time :
         WriteRow(edited[u], row[edited[u]], on, isCron, time)
  <2>1. edited[u] \in AutoId /\ cron[edited[u]] \in BOOLEAN /\ next[edited[u]] \in Time
    BY DEF Update, IInv, TypeOK
  <2>2. NoTime \in Time /\ Later \cup {NoTime} \subseteq Time
    BY DEF Later, Time, IInv, TypeOK
  <2>. QED  BY <2>1, <2>2 DEF Update
<1>2. row[edited[u]] \in {"absent", "live", "deleted"} /\ upc[u] = "write" /\ Written(u)
  BY DEF Update, IInv, TypeOK
<1>. QED  BY <1>1, <1>2, WrittenPreserves

LEMMA RemoveAutomationPreserves ==
  ASSUME IInv, NEW u \in User, RemoveAutomation(u)
  PROVE  IInv'
<1>1. edited[u] \in AutoId /\ cron[edited[u]] \in BOOLEAN /\ next[edited[u]] \in Time
  BY DEF RemoveAutomation, IInv, TypeOK
<1>. QED  BY <1>1, WrittenPreserves DEF RemoveAutomation

LEMMA TogglePreserves ==
  ASSUME IInv, NEW u \in User, Toggle(u)
  PROVE  IInv'
<1>1. /\ edited[u] \in AutoId /\ cron[edited[u]] \in BOOLEAN /\ next[edited[u]] \in Time
      /\ row[edited[u]] \in {"absent", "live", "deleted"}
  BY DEF Toggle, IInv, TypeOK
<1>2. (~flag[u]) \in BOOLEAN
  OBVIOUS
<1>. QED  BY <1>1, <1>2, WrittenPreserves DEF Toggle

LEMMA InvalidateWorkspacePreserves ==
  ASSUME IInv, NEW u \in User, InvalidateWorkspace(u)
  PROVE  IInv'
<1>. USE DEF InvalidateWorkspace, IInv
<1>1. TypeOK'
  BY DEF TypeOK, Time
<1>2. ListsKnown' /\ StaleWithinTtl'
  BY AutomationAssumption DEF ListsKnown, StaleWithinTtl, UpToDate, Listed
<1>. QED  BY <1>1, <1>2, TicksStay, JobsStay

-----------------------------------------------------------------------------
(* Listeners.                                                              *)

LEMMA ListenerLists ==
  ASSUME TypeOK, ListsKnown, StaleWithinTtl, NEW l \in Listener,
         UNCHANGED <<now, row, active, cron, changes>>,
         NEW pc, NEW t \in Nat, NEW L \in SUBSET AutoId,
         lpc' = [lpc EXCEPT ![l] = pc], began' = [began EXCEPT ![l] = t],
         list' = [list EXCEPT ![l] = L],
         expires' \in Nat => expires' <= now + Ttl /\ UpToDate(cached', expires' - Ttl),
         t <= now,
         pc = "store" => UpToDate(L, t),
         pc = "match" => UpToDate(L, t - Ttl + 1)
  PROVE  ListsKnown' /\ StaleWithinTtl'
<1>1. \A a \in AutoId : Listed(a)' = Listed(a)
  BY DEF Listed
<1>2. ListsKnown'
  BY <1>1 DEF ListsKnown, UpToDate, TypeOK
<1>3. StaleWithinTtl'
  BY <1>1 DEF StaleWithinTtl, UpToDate, TypeOK
<1>. QED  BY <1>2, <1>3

LEMMA EnqueuePreserves ==
  ASSUME TypeOK, JobsKnown, NEW a \in AutoId, Enqueue(a)
  PROVE  /\ job' \in [Job -> {"free", "waiting", "stalled", "done", "failed"} \cup Running]
         /\ of' \in [Job -> AutoId \cup {NoAuto}]
         /\ UNCHANGED worker
         /\ JobsKnown'
<1>1. PICK j \in Job : /\ job[j] = "free" /\ job' = [job EXCEPT ![j] = "waiting"]
                       /\ of' = [of EXCEPT ![j] = a] /\ UNCHANGED worker
  BY DEF Enqueue
<1>. QED  BY <1>1 DEF TypeOK, JobsKnown, Running

\* Only l's variables change.
LEMMA ListenerPreserves ==
  ASSUME IInv, NEW l \in Listener, UNCHANGED <<now, rows, users, ticks, changes, fired,
                                              edits, crashes>>,
         cached' \subseteq AutoId, expires' \in Time,
         NEW pc \in {"idle", "load", "store", "match", "schedule"}, NEW t \in Nat,
         NEW L \in SUBSET AutoId,
         lpc' = [lpc EXCEPT ![l] = pc], began' = [began EXCEPT ![l] = t],
         list' = [list EXCEPT ![l] = L],
         UNCHANGED jobs \/ (\E a \in AutoId : Enqueue(a)),
         expires' \in Nat => expires' <= now + Ttl /\ UpToDate(cached', expires' - Ttl),
         t <= now,
         pc = "store" => UpToDate(L, t),
         pc = "match" => UpToDate(L, t - Ttl + 1)
  PROVE  IInv'
<1>. USE DEF IInv
<1>1. CASE UNCHANGED jobs
  <2>1. TypeOK'
    BY <1>1 DEF TypeOK
  <2>. QED  BY <1>1, <2>1, ListenerLists, TicksStay, JobsStay
<1>2. CASE \E a \in AutoId : Enqueue(a)
  <2>1. TypeOK' /\ JobsKnown'
    BY <1>2, EnqueuePreserves DEF TypeOK
  <2>. QED  BY <2>1, ListenerLists, TicksStay
<1>. QED  BY <1>1, <1>2

LEMMA HandleEventPreserves ==
  ASSUME IInv, NEW l \in Listener, HandleEvent(l)
  PROVE  IInv'
<1>. USE DEF IInv, HandleEvent
<1>1. now \in Nat /\ now <= now /\ cached \subseteq AutoId /\ expires \in Time
  BY DEF TypeOK
<1>2. expires \in Nat => expires <= now + Ttl /\ UpToDate(cached, expires - Ttl)
  BY DEF ListsKnown
<1>3. CASE expires \in Nat /\ expires > now
  <2>1. UpToDate(cached, now - Ttl + 1)
    BY <1>1, <1>2, <1>3, OlderDate, AutomationAssumption
  <2>2. /\ lpc' = [lpc EXCEPT ![l] = "match"] /\ began' = [began EXCEPT ![l] = now]
        /\ list' = [list EXCEPT ![l] = cached]
    BY <1>3
  <2>. QED  BY <1>1, <1>2, <2>1, <2>2, ListenerPreserves
<1>4. CASE ~(expires \in Nat /\ expires > now)
  <2>1. /\ lpc' = [lpc EXCEPT ![l] = "load"] /\ began' = [began EXCEPT ![l] = now]
        /\ list' = [list EXCEPT ![l] = list[l]] /\ list[l] \in SUBSET AutoId
    BY <1>4 DEF TypeOK
  <2>. QED  BY <1>1, <1>2, <2>1, ListenerPreserves
<1>. QED  BY <1>3, <1>4

LEMMA LoadActivePreserves ==
  ASSUME IInv, NEW l \in Listener, LoadActive(l)
  PROVE  IInv'
<1>. USE DEF IInv, LoadActive
<1>. DEFINE L == {a \in AutoId : Listed(a)}
<1>1. began[l] \in Nat /\ began[l] <= now /\ cached \subseteq AutoId /\ expires \in Time
  BY DEF TypeOK, ListsKnown
<1>2. expires \in Nat => expires <= now + Ttl /\ UpToDate(cached, expires - Ttl)
  BY DEF ListsKnown
<1>3. UpToDate(L, began[l])
  BY DEF UpToDate
<1>4. /\ lpc' = [lpc EXCEPT ![l] = "store"] /\ began' = [began EXCEPT ![l] = began[l]]
      /\ list' = [list EXCEPT ![l] = L] /\ L \in SUBSET AutoId
  BY DEF TypeOK
<1>. HIDE DEF L
<1>. QED  BY <1>1, <1>2, <1>3, <1>4, ListenerPreserves

LEMMA StoreListPreserves ==
  ASSUME IInv, NEW l \in Listener, StoreList(l)
  PROVE  IInv'
<1>. USE DEF IInv, StoreList
<1>1. /\ began[l] \in Nat /\ began[l] <= now /\ now \in Nat
      /\ list[l] \in SUBSET AutoId /\ UpToDate(list[l], began[l])
  BY DEF TypeOK, ListsKnown
<1>2. /\ cached' = list[l] /\ cached' \subseteq AutoId
      /\ expires' = began[l] + Ttl /\ expires' \in Time /\ expires' <= now + Ttl
      /\ expires' - Ttl = began[l]
  BY <1>1, AutomationAssumption DEF Time
<1>5. UpToDate(cached', expires' - Ttl)
  BY <1>1, <1>2
<1>3. UpToDate(list[l], began[l] - Ttl + 1)
  BY <1>1, OlderDate, AutomationAssumption
<1>4. /\ lpc' = [lpc EXCEPT ![l] = "match"] /\ began' = [began EXCEPT ![l] = began[l]]
      /\ list' = [list EXCEPT ![l] = list[l]]
  BY DEF TypeOK
<1>. QED  BY <1>1, <1>2, <1>3, <1>4, <1>5, ListenerPreserves

LEMMA MatchScopePreserves ==
  ASSUME IInv, NEW l \in Listener, MatchScope(l)
  PROVE  IInv'
<1>. USE DEF IInv, MatchScope
<1>1. began[l] \in Nat /\ began[l] <= now /\ cached \subseteq AutoId /\ expires \in Time
  BY DEF TypeOK, ListsKnown
<1>2. expires \in Nat => expires <= now + Ttl /\ UpToDate(cached, expires - Ttl)
  BY DEF ListsKnown
<1>3. PICK S \in SUBSET list[l] : list' = [list EXCEPT ![l] = S]
  OBVIOUS
<1>4. /\ lpc' = [lpc EXCEPT ![l] = "schedule"] /\ began' = [began EXCEPT ![l] = began[l]]
      /\ S \in SUBSET AutoId
  BY DEF TypeOK
<1>. QED  BY <1>1, <1>2, <1>3, <1>4, ListenerPreserves

LEMMA SchedulePreserves ==
  ASSUME IInv, NEW l \in Listener, Schedule(l)
  PROVE  IInv'
<1>1. /\ began[l] \in Nat /\ began[l] <= now /\ cached \subseteq AutoId /\ expires \in Time
      /\ list[l] \subseteq AutoId
      /\ list \in [Listener -> SUBSET AutoId]
  BY DEF IInv, TypeOK, ListsKnown
<1>2. expires \in Nat => expires <= now + Ttl /\ UpToDate(cached, expires - Ttl)
  BY DEF IInv, ListsKnown
<1>4. /\ lpc[l] = "schedule"
      /\ UNCHANGED <<now, rows, cache, users, lpc, began, ticks, changes, fired, edits, crashes>>
  BY DEF Schedule
<1>5. UNCHANGED jobs \/ (\E b \in AutoId : Enqueue(b))
  BY <1>1 DEF Schedule
<1>6. PICK L \in SUBSET AutoId : list' = [list EXCEPT ![l] = L]
  <2>1. PICK a \in list[l] : list' = [list EXCEPT ![l] = @ \ {a}]
    BY DEF Schedule
  <2>2. list[l] \ {a} \in SUBSET AutoId
    BY <1>1
  <2>. QED  BY <2>1, <2>2
<1>7. lpc' = [lpc EXCEPT ![l] = "schedule"] /\ began' = [began EXCEPT ![l] = began[l]]
  BY <1>4 DEF IInv, TypeOK
<1>. QED  BY <1>1, <1>2, <1>4, <1>5, <1>6, <1>7, ListenerPreserves

LEMMA EndHandlePreserves ==
  ASSUME IInv, NEW l \in Listener, EndHandle(l)
  PROVE  IInv'
<1>. USE DEF IInv, EndHandle
<1>1. 0 \in Nat /\ 0 <= now /\ cached \subseteq AutoId /\ expires \in Time
  BY DEF TypeOK
<1>2. expires \in Nat => expires <= now + Ttl /\ UpToDate(cached, expires - Ttl)
  BY DEF ListsKnown
<1>3. /\ lpc' = [lpc EXCEPT ![l] = "idle"] /\ began' = [began EXCEPT ![l] = 0]
      /\ list' = [list EXCEPT ![l] = list[l]] /\ list[l] \in SUBSET AutoId
  BY DEF TypeOK
<1>. QED  BY <1>1, <1>2, <1>3, ListenerPreserves

-----------------------------------------------------------------------------
(* Ticks.                                                                  *)

LEMMA FindDuePreserves ==
  ASSUME IInv, NEW k \in Ticker, FindDue(k)
  PROVE  IInv'
<1>. USE DEF IInv, FindDue
<1>1. TypeOK'
  BY DEF TypeOK
<1>2. TicksKnow'
  BY AutomationAssumption DEF TypeOK, TicksKnow, Due
<1>. QED  BY <1>1, <1>2, ListsStay, JobsStay

LEMMA AddCronPreserves ==
  ASSUME IInv, NEW k \in Ticker, AddCron(k)
  PROVE  IInv'
<1>. USE DEF IInv
<1>1. PICK a \in due[k] :
         /\ due' = [due EXCEPT ![k] = @ \ {a}]
         /\ \/ /\ Enqueue(a)
               /\ fired' = [fired EXCEPT ![a] = now]
               /\ current' = [current EXCEPT ![k] = a]
               /\ tpc' = [tpc EXCEPT ![k] = "advance"]
               /\ UNCHANGED stale
            \/ /\ stale' = [stale EXCEPT ![k] = @ \ {a}]
               /\ UNCHANGED <<tpc, current, jobs, fired>>
  BY DEF AddCron
<1>2. /\ tpc[k] = "add"
      /\ UNCHANGED <<now, rows, cache, users, listeners, changes, edits, crashes>>
  BY DEF AddCron
<1>3. a \in AutoId
  BY DEF TypeOK
<1>4. CASE /\ Enqueue(a) /\ fired' = [fired EXCEPT ![a] = now]
           /\ current' = [current EXCEPT ![k] = a]
           /\ tpc' = [tpc EXCEPT ![k] = "advance"] /\ UNCHANGED stale
  <2>1. TypeOK' /\ JobsKnown'
    BY <1>1, <1>2, <1>3, <1>4, EnqueuePreserves DEF TypeOK
  <2>2. TicksKnow'
    BY <1>1, <1>2, <1>3, <1>4, AutomationAssumption DEF TypeOK, TicksKnow
  <2>. QED  BY <1>2, <2>1, <2>2, ListsStay
<1>5. CASE stale' = [stale EXCEPT ![k] = @ \ {a}] /\ UNCHANGED <<tpc, current, jobs, fired>>
  <2>1. TypeOK'
    BY <1>1, <1>2, <1>3, <1>5 DEF TypeOK
  <2>2. TicksKnow'
    BY <1>1, <1>2, <1>3, <1>5, AutomationAssumption DEF TypeOK, TicksKnow
  <2>. QED  BY <1>2, <1>5, <2>1, <2>2, ListsStay, JobsStay
<1>. QED  BY <1>1, <1>4, <1>5

LEMMA AdvancePreserves ==
  ASSUME IInv, NEW k \in Ticker, Advance(k)
  PROVE  IInv'
<1>. USE DEF IInv, Advance
<1>. DEFINE a == current[k]
<1>1. a \in AutoId /\ a # NoAuto /\ a \notin due[k]
  BY AutomationAssumption DEF TypeOK, TicksKnow
<1>2. /\ Overtake(a) \in [Ticker -> SUBSET AutoId]
      /\ \A i \in Ticker : /\ stale[i] \subseteq Overtake(a)[i]
                           /\ a \in due[i] \cup {current[i]} => a \in Overtake(a)[i]
  BY <1>1, OvertakeAdds
<1>3. CASE /\ \E time \in Later : next' = [next EXCEPT ![a] = time]
           /\ stale' = [Overtake(a) EXCEPT ![k] = stale[k] \ {a}]
  <2>6. Later \subseteq Nat
    BY AutomationAssumption DEF Later, TypeOK
  <2>1. PICK time \in Nat : next' = [next EXCEPT ![a] = time]
    BY <1>3, <2>6
  <2>2. stale' \in [Ticker -> SUBSET AutoId]
    BY <1>2, <1>3 DEF TypeOK
  <2>3. TypeOK'
    BY <2>1, <2>2 DEF TypeOK, Time
  <2>4. ASSUME NEW i \in Ticker, NEW b \in AutoId, b \in due'[i] \cup {current'[i]},
               b \notin stale'[i]
        PROVE  b \in due[i] \cup {current[i]} /\ next'[b] = next[b] /\ b \notin stale[i]
    <3>1. b \in AutoId /\ b # NoAuto
      BY AutomationAssumption
    <3>2. CASE i = k
      <4>1. b \in due[k] /\ b # a /\ stale'[k] = stale[k] \ {a}
        BY <1>1, <1>2, <1>3, <2>4, <3>1, <3>2 DEF TypeOK
      <4>. QED  BY <1>1, <2>1, <2>4, <3>2, <4>1 DEF TypeOK
    <3>3. CASE i # k
      <4>1. b \in due[i] \cup {current[i]} /\ stale'[i] = Overtake(a)[i]
        BY <1>2, <1>3, <2>4, <3>3 DEF TypeOK
      <4>2. b # a
        BY <1>2, <2>4, <4>1
      <4>. QED  BY <1>1, <1>2, <2>1, <2>4, <4>1, <4>2 DEF TypeOK
    <3>. QED  BY <3>2, <3>3
  <2>5. TicksKnow'
    BY <1>1, <2>3, <2>4, AutomationAssumption DEF TypeOK, TicksKnow
  <2>. QED  BY <2>3, <2>5, ListsStay, JobsStay
<1>4. CASE stale' = [stale EXCEPT ![k] = @ \ {a}] /\ UNCHANGED next
  <2>1. TypeOK'
    BY <1>1, <1>4 DEF TypeOK
  <2>2. TicksKnow'
    BY <1>1, <1>4, AutomationAssumption DEF TypeOK, TicksKnow
  <2>. QED  BY <2>1, <2>2, ListsStay, JobsStay
<1>. QED  BY <1>3, <1>4

LEMMA EndTickPreserves ==
  ASSUME IInv, NEW k \in Ticker, EndTick(k)
  PROVE  IInv'
<1>. USE DEF IInv, EndTick
<1>1. TypeOK'
  BY DEF TypeOK
<1>2. TicksKnow'
  BY AutomationAssumption DEF TypeOK, TicksKnow
<1>. QED  BY <1>1, <1>2, ListsStay, JobsStay

-----------------------------------------------------------------------------
(* The worker.                                                             *)

LEMMA WorkPreserves ==
  ASSUME IInv, NEW j \in Job, Work(j)
  PROVE  IInv'
<1>. USE AutomationAssumption DEF IInv, Only, Running
<1>1. CASE Take(j)
  <2>1. TypeOK'  BY <1>1 DEF Take, TypeOK
  <2>2. JobsKnown'  BY <1>1 DEF Take, TypeOK, JobsKnown
  <2>. QED  BY <1>1, <2>1, <2>2, ListsStay, TicksStay DEF Take
<1>2. CASE ReadJob(j)
  <2>3. /\ job' \in [Job -> {"free", "waiting", "stalled", "done", "failed"} \cup Running]
        /\ step' \in [Job -> Nat]
    BY <1>2 DEF ReadJob, TypeOK
  <2>4. skipped' \in [Job -> BOOLEAN]
    BY <1>2 DEF ReadJob, TypeOK
  <2>1. TypeOK'  BY <1>2, <2>3, <2>4 DEF ReadJob, TypeOK
  <2>2. JobsKnown'  BY <1>2 DEF ReadJob, TypeOK, JobsKnown
  <2>. QED  BY <1>2, <2>1, <2>2, ListsStay, TicksStay DEF ReadJob
<1>3. CASE RunAction(j)
  <2>3. job' \in [Job -> {"free", "waiting", "stalled", "done", "failed"} \cup Running]
    BY <1>3 DEF RunAction, TypeOK
  <2>4. step' \in [Job -> Nat] /\ ran' \in [Job -> Nat]
    <3>1. step[j] + 1 \in Nat /\ ran[j] + 1 \in Nat /\ ran \in [Job -> Nat]
      BY DEF TypeOK
    <3>2. /\ step' = [step EXCEPT ![j] = step[j] + 1]
          /\ ran' = ran \/ ran' = [ran EXCEPT ![j] = ran[j] + 1]
      BY <1>3 DEF RunAction
    <3>. QED  BY <3>1, <3>2 DEF TypeOK
  <2>1. TypeOK'  BY <1>3, <2>3, <2>4 DEF RunAction, TypeOK
  <2>2. JobsKnown'  BY <1>3 DEF RunAction, TypeOK, JobsKnown
  <2>. QED  BY <1>3, <2>1, <2>2, ListsStay, TicksStay DEF RunAction
<1>4. CASE RecordExecution(j)
  <2>1. TypeOK'  BY <1>4 DEF RecordExecution, TypeOK
  <2>2. JobsKnown'  BY <1>4 DEF RecordExecution, TypeOK, JobsKnown
  <2>. QED  BY <1>4, <2>1, <2>2, ListsStay, TicksStay DEF RecordExecution
<1>5. CASE Complete(j)
  <2>1. TypeOK'  BY <1>5 DEF Complete, TypeOK
  <2>2. JobsKnown'  BY <1>5 DEF Complete, TypeOK, JobsKnown
  <2>. QED  BY <1>5, <2>1, <2>2, ListsStay, TicksStay DEF Complete
<1>6. CASE FailAttempt(j)
  <2>1. TypeOK'  BY <1>6 DEF FailAttempt, TypeOK
  <2>2. JobsKnown'  BY <1>6 DEF FailAttempt, TypeOK, JobsKnown
  <2>. QED  BY <1>6, <2>1, <2>2, ListsStay, TicksStay DEF FailAttempt
<1>7. CASE Recover(j)
  <2>1. TypeOK'  BY <1>7 DEF Recover, TypeOK
  <2>2. JobsKnown'  BY <1>7 DEF Recover, TypeOK, JobsKnown
  <2>. QED  BY <1>7, <2>1, <2>2, ListsStay, TicksStay DEF Recover
<1>. QED  BY <1>1, <1>2, <1>3, <1>4, <1>5, <1>6, <1>7 DEF Work

LEMMA CrashPreserves ==
  ASSUME IInv, Crash
  PROVE  IInv'
<1>. USE AutomationAssumption DEF IInv, Crash
<1>1. TypeOK'
  BY DEF TypeOK, Time, Running
<1>2. ListsKnown' /\ StaleWithinTtl'
  BY DEF TypeOK, ListsKnown, StaleWithinTtl
<1>3. TicksKnow'
  BY DEF TypeOK, TicksKnow
<1>4. JobsKnown'
  BY DEF TypeOK, JobsKnown, Running
<1>. QED  BY <1>1, <1>2, <1>3, <1>4

LEMMA StepIInv == IInv /\ [Next]_vars => IInv'
<1>. SUFFICES ASSUME IInv, [Next]_vars  PROVE IInv'
  OBVIOUS
<1>1. ASSUME NEW u \in User, UserStep(u)  PROVE IInv'
  BY <1>1, CreatePreserves, ReadAutomationPreserves, UpdatePreserves, RemoveAutomationPreserves,
     TogglePreserves, InvalidateWorkspacePreserves DEF UserStep
<1>2. ASSUME NEW l \in Listener, ListenerStep(l)  PROVE IInv'
  BY <1>2, HandleEventPreserves, LoadActivePreserves, StoreListPreserves, MatchScopePreserves,
     SchedulePreserves, EndHandlePreserves DEF ListenerStep
<1>3. ASSUME NEW k \in Ticker, TickerStep(k)  PROVE IInv'
  BY <1>3, FindDuePreserves, AddCronPreserves, AdvancePreserves, EndTickPreserves
  DEF TickerStep
<1>4. CASE UNCHANGED vars
  <2>1. TypeOK'
    BY <1>4 DEF vars, IInv, TypeOK
  <2>. QED  BY <1>4, <2>1, ListsStay, TicksStay, JobsStay DEF vars, IInv
<1>. QED  BY <1>1, <1>2, <1>3, <1>4, TickPreserves, CrashPreserves, WorkPreserves DEF Next

-----------------------------------------------------------------------------
(* The theorems.                                                           *)

\* The inductive invariant holds for every set of automations, users,
\* listeners, ticks and jobs.
THEOREM AutomationInvariant == Spec => []IInv
  BY InitIInv, StepIInv, PTL DEF Spec

\* Whatever the interleaving of edits, loads and crashes, the automations that
\* an event is matched with were the active ones less than TTL_MS before it.
THEOREM AutomationStaleWithinTtl == Spec => []StaleWithinTtl
<1>1. IInv => StaleWithinTtl
  BY DEF IInv
<1>. QED  BY <1>1, AutomationInvariant, PTL

\* Whatever fails or crashes half-way, a count stands for a complete run of
\* the actions, and a job runs them no more often than its attempts allow.
THEOREM AutomationCountTellsRuns == Spec => []CountTellsRuns
<1>1. IInv => CountTellsRuns
  <2>. SUFFICES ASSUME IInv, NEW j \in Job
       PROVE  /\ counted[j] <= ran[j]
              /\ ran[j] <= Attempts + MaxStalls
              /\ job[j] = "done" => skipped[j] \/ counted[j] > 0
    BY DEF CountTellsRuns
  <2>1. tries[j] \in Nat /\ stalls[j] \in Nat /\ ran[j] \in Nat
    BY DEF IInv, TypeOK
  <2>. QED  BY <2>1, AutomationAssumption DEF IInv, JobsKnown
<1>. QED  BY <1>1, AutomationInvariant, PTL

\* A due run is given up only after it is queued, whatever other ticks do.
THEOREM AutomationDueIsFired == Spec => DueIsFired
<1>. DEFINE Fires(k) ==
       LET a == current[k] IN
       tpc[k] = "advance" /\ tpc'[k] = "add" /\ a \notin stale[k] /\ next' # next
           => next[a] \in Nat /\ fired[a] >= next[a]
<1>1. ASSUME IInv, [Next]_vars, NEW k \in Ticker  PROVE Fires(k)
  <2>. SUFFICES ASSUME tpc[k] = "advance", current[k] \notin stale[k]
       PROVE  next[current[k]] \in Nat /\ fired[current[k]] >= next[current[k]]
    OBVIOUS
  <2>1. current[k] \in AutoId /\ current[k] # NoAuto
    BY <1>1, AutomationAssumption DEF IInv, TypeOK, TicksKnow
  <2>. QED  BY <1>1, <2>1 DEF IInv, TypeOK, TicksKnow
<1>2. IInv /\ [Next]_vars => [\A k \in Ticker : Fires(k)]_vars
  BY <1>1
<1>. QED  BY <1>2, AutomationInvariant, PTL DEF Spec, DueIsFired
=============================================================================
