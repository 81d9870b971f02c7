--------------------------- MODULE TaskMergeProofs ---------------------------
(***************************************************************************)
(* Theorems about TaskMerge, for any number of tasks, requests and keys.   *)
(* The inductive invariant adds to the properties what a request knows     *)
(* while nobody has overtaken it (its tasks may be merged, and the tasks   *)
(* its climb has visited have their parents among themselves or at the     *)
(* task it reads next), that a task merged since a request read it was     *)
(* merged after the clock it read, and that a key's merge is never         *)
(* committed more often than its sources are announced.                    *)
(***************************************************************************)
EXTENDS TaskMerge, TLAPS

USE DEF tasks, history, calls, bounds

-----------------------------------------------------------------------------
(* The inductive invariant.                                                *)

LEMMA InitIInv == Init => IInv
  BY MergeAssumption
  DEF Init, IInv, TypeOK, CallKnows, Knows, MergesKnown,
      MergedOnce, TargetWasLive

\* MergedOnce, TargetWasLive and MergesKnown say nothing of the requests.
LEMMA HistoryStays ==
  ASSUME IInv, UNCHANGED <<mergedInto, body, history>>,
         gone \subseteq gone', \A k \in memo' : k \in memo \/ applied[k] > 0
  PROVE  MergesKnown' /\ MergedOnce' /\ TargetWasLive' /\ \A k \in memo' : applied'[k] > 0
<1>1. MergesKnown'
  BY DEF IInv, MergesKnown
<1>2. MergedOnce' /\ TargetWasLive'
  BY DEF IInv, MergedOnce, TargetWasLive
<1>3. \A k \in memo' : applied'[k] > 0
  BY DEF IInv
<1>. QED  BY <1>1, <1>2, <1>3

\* A new parent: the climbs that have read the old one are overtaken.
LEMMA ReparentPreserves ==
  ASSUME IInv, Reparent
  PROVE  IInv'
<1>. USE DEF Reparent, Edit
<1>1. TypeOK'
  BY DEF IInv, TypeOK, Climbers
<1>2. CallKnows'
  <2>1. PICK t \in Task \ gone, p \in Task \cup {NoTask} :
          /\ parent' = [parent EXCEPT ![t] = p]
          /\ overtaken' = overtaken \cup Climbers(t)
    OBVIOUS
  <2>2. ASSUME NEW c \in Call, c \notin overtaken'
        PROVE  c \notin overtaken /\ \A v \in visited[c] : parent'[v] = parent[v]
    BY <2>1, <2>2 DEF IInv, TypeOK, Climbers
  <2>. QED  BY <2>2 DEF IInv, CallKnows, Knows, Mergeable
<1>. QED  BY <1>1, <1>2, HistoryStays DEF IInv

\* A removal: the requests that have read the task are overtaken.
LEMMA RemovePreserves ==
  ASSUME IInv, Remove
  PROVE  IInv'
<1>. USE DEF Remove, Edit
<1>1. TypeOK'
  BY DEF IInv, TypeOK, Readers
<1>2. CallKnows'
  <2>1. PICK t \in Task \ gone :
          gone' = gone \cup {t} /\ overtaken' = overtaken \cup Readers(t)
    OBVIOUS
  <2>2. ASSUME NEW c \in Call, pc[c] \in {"climb", "commit"}, c \notin overtaken'
        PROVE  c \notin overtaken /\ t \notin {target[c]} \cup sources[c]
    BY <2>1, <2>2 DEF Readers
  <2>3. overtaken \subseteq overtaken'
    BY <2>1
  <2>. QED  BY <2>1, <2>2, <2>3 DEF IInv, CallKnows, Knows, Mergeable
<1>. QED  BY <1>1, <1>2, HistoryStays DEF IInv

LEMMA ForgetPreserves ==
  ASSUME IInv, Forget
  PROVE  IInv'
<1>. USE DEF Forget
<1>1. TypeOK'
  BY DEF IInv, TypeOK
<1>2. CallKnows'
  BY DEF IInv, CallKnows, Knows, Mergeable
<1>. QED  BY <1>1, <1>2, HistoryStays DEF IInv

\* A request that ends, with or without a stored result.
LEMMA AbortPreserves ==
  ASSUME IInv, NEW c \in Call, Abort(c),
         memo' \subseteq Key, \A k \in memo' : k \in memo \/ applied[k] > 0,
         UNCHANGED <<tasks, body, history, bounds>>
  PROVE  IInv'
<1>. USE DEF Abort, Finish
<1>1. TypeOK'
  BY DEF IInv, TypeOK
<1>2. CallKnows'
  <2>. SUFFICES ASSUME NEW d \in Call  PROVE Knows(d)'
    BY DEF CallKnows
  <2>1. CASE d = c
    BY <2>1, MergeAssumption DEF IInv, TypeOK, Knows
  <2>2. CASE d # c
    BY <2>2 DEF IInv, TypeOK, CallKnows, Knows, Mergeable
  <2>. QED  BY <2>1, <2>2
<1>. QED  BY <1>1, <1>2, HistoryStays DEF IInv

\* A merge is requested, or requested again.
LEMMA StartMergePreserves ==
  ASSUME IInv, NEW c \in Call, StartMerge(c)
  PROVE  IInv'
<1>1. PICK k \in Key \cup {NoKey} : \E m \in Merges :
        /\ m.sources # {} /\ m.target \notin m.sources
        /\ k \in Key => body[k] \subseteq {m}
        /\ body' = [j \in Key |-> IF j = k THEN {m} ELSE body[j]]
        /\ pc' = [pc EXCEPT ![c] = "read"]
        /\ key' = [key EXCEPT ![c] = k]
        /\ target' = [target EXCEPT ![c] = m.target]
        /\ sources' = [sources EXCEPT ![c] = m.sources]
  BY DEF StartMerge
<1>2. PICK m \in Merges :
        /\ m.sources # {} /\ m.target \notin m.sources
        /\ k \in Key => body[k] \subseteq {m}
        /\ body' = [j \in Key |-> IF j = k THEN {m} ELSE body[j]]
        /\ pc' = [pc EXCEPT ![c] = "read"]
        /\ key' = [key EXCEPT ![c] = k]
        /\ target' = [target EXCEPT ![c] = m.target]
        /\ sources' = [sources EXCEPT ![c] = m.sources]
  BY <1>1
<1>3. m.target \in Task /\ m.sources \in SUBSET Task
      /\ m = [target |-> m.target, sources |-> m.sources]
  BY DEF Merges
<1>4. UNCHANGED <<tasks, memo, visited, at, asOf, overtaken, history, edits>> /\ starts' = starts + 1
      /\ pc[c] = "idle"
  BY DEF StartMerge
<1>5. TypeOK'
  <2>1. body' \in [Key -> SUBSET Merges]
    BY <1>2 DEF IInv, TypeOK
  <2>. QED  BY <1>2, <1>3, <1>4, <2>1 DEF IInv, TypeOK
<1>6. \A j \in Key : body'[j] = body[j] \/ (body'[j] = {m} /\ body[j] = {} /\ j = k)
  BY <1>2 DEF IInv, TypeOK
<1>7. CallKnows'
  <2>. SUFFICES ASSUME NEW d \in Call  PROVE Knows(d)'
    BY DEF CallKnows
  <2>1. CASE d = c
    <3>1. pc'[c] = "read" /\ key'[c] = k /\ target'[c] = m.target /\ sources'[c] = m.sources
      BY <1>2 DEF IInv, TypeOK
    <3>2. k \in Key => body'[k] = {m}
      BY <1>2
    <3>3. visited'[c] = {}
      BY <1>4 DEF IInv, CallKnows, Knows
    <3>. QED  BY <1>2, <1>3, <2>1, <3>1, <3>2, <3>3 DEF Knows
  <2>2. CASE d # c
    <3>1. /\ pc'[d] = pc[d] /\ key'[d] = key[d]
          /\ target'[d] = target[d] /\ sources'[d] = sources[d]
      BY <1>2, <2>2 DEF IInv, TypeOK
    <3>2. key[d] \in Key => body'[key[d]] = body[key[d]]
      BY <1>6 DEF IInv, CallKnows, Knows
    <3>. QED  BY <1>4, <3>1, <3>2 DEF IInv, CallKnows, Knows, Mergeable
  <2>. QED  BY <2>1, <2>2
<1>8. MergesKnown'
  <2>1. \A j \in Key : body[j] = {} => applied[j] = 0
    BY DEF IInv, TypeOK, MergesKnown
  <2>2. ASSUME NEW j \in Key
        PROVE  /\ applied[j] > 0 => body'[j] # {}
               /\ \A n \in body'[j] : \A s \in n.sources : applied[j] <= events[s]
    <3>1. CASE body'[j] = body[j]
      BY <3>1 DEF IInv, MergesKnown
    <3>2. CASE body'[j] = {m} /\ body[j] = {}
      <4>1. applied[j] = 0
        BY <2>1, <3>2
      <4>2. \A s \in m.sources : events[s] \in Nat
        BY <1>3 DEF IInv, TypeOK
      <4>. QED  BY <3>2, <4>1, <4>2
    <3>. QED  BY <1>6, <3>1, <3>2
  <2>. QED  BY <1>4, <2>2 DEF IInv, MergesKnown
<1>9. MergedOnce' /\ TargetWasLive'
  BY <1>4 DEF IInv, MergedOnce, TargetWasLive
<1>10. \A j \in memo' : applied'[j] > 0
  BY <1>4 DEF IInv
<1>. QED  BY <1>5, <1>7, <1>8, <1>9, <1>10 DEF IInv

\* What the merge reads of its tasks, and where its climb begins.
LEMMA ReadRowsPreserves ==
  ASSUME IInv, NEW c \in Call, ReadRows(c)
  PROVE  IInv'
<1>1. CASE ~Mergeable(c)
  BY <1>1, AbortPreserves DEF ReadRows, IInv, TypeOK
<1>2. CASE Mergeable(c)
  <2>1. /\ pc[c] = "read"
        /\ pc' = [pc EXCEPT ![c] = "climb"] /\ at' = [at EXCEPT ![c] = target[c]]
        /\ asOf' = [asOf EXCEPT ![c] = clock]
        /\ UNCHANGED <<key, target, sources, visited, overtaken, tasks, memo, body, history, bounds>>
    BY <1>2 DEF ReadRows
  <2>2. target[c] \in Task /\ visited[c] = {}
    BY <2>1 DEF IInv, CallKnows, Knows
  <2>3. TypeOK'
    BY <2>1, <2>2 DEF IInv, TypeOK
  <2>4. CallKnows'
    <3>. SUFFICES ASSUME NEW d \in Call  PROVE Knows(d)'
      BY DEF CallKnows
    <3>1. CASE d = c
      <4>1. pc'[c] = "climb" /\ at'[c] = target[c] /\ Mergeable(c)'
        BY <1>2, <2>1 DEF IInv, TypeOK, Mergeable
      <4>2. /\ asOf'[c] <= clock'
            /\ \A t \in {target[c]} \cup sources[c] : mergedInto[t] = NoTask
        BY <1>2, <2>1, <2>2 DEF IInv, TypeOK, MergesKnown, Mergeable
      <4>3. /\ target[c] \in Task \ sources[c] /\ sources[c] # {}
            /\ key[c] \in Key => body[key[c]] = {[target |-> target[c], sources |-> sources[c]]}
        BY <2>1 DEF IInv, CallKnows, Knows
      <4>. QED  BY <2>1, <2>2, <3>1, <4>1, <4>2, <4>3 DEF Knows
    <3>2. CASE d # c
      BY <2>1, <3>2 DEF IInv, TypeOK, CallKnows, Knows, Mergeable
    <3>. QED  BY <3>1, <3>2
  <2>. QED  BY <2>1, <2>3, <2>4, HistoryStays DEF IInv
<1>. QED  BY <1>1, <1>2

\* One level of the climb.
LEMMA ClimbPreserves ==
  ASSUME IInv, NEW c \in Call, Climb(c)
  PROVE  IInv'
<1>. DEFINE p == parent[at[c]]
<1>1. CASE Cardinality(visited[c]) > MaxNodes \/ p \in sources[c]
  BY <1>1, AbortPreserves DEF Climb, IInv, TypeOK
<1>2. CASE ~(Cardinality(visited[c]) > MaxNodes \/ p \in sources[c])
  <2>1. /\ pc[c] = "climb"
        /\ visited' = [visited EXCEPT ![c] = @ \cup {at[c]}]
        /\ at' = [at EXCEPT ![c] = AfterParent(c, p)]
        /\ pc' = [pc EXCEPT ![c] = IF AfterParent(c, p) = NoTask THEN "commit" ELSE "climb"]
        /\ UNCHANGED <<key, target, sources, asOf, overtaken, tasks, memo, body, history, bounds>>
    BY <1>2 DEF Climb
  <2>2. at[c] \in Task /\ at[c] \notin visited[c] /\ p \in Task \cup {NoTask}
    BY <2>1 DEF IInv, TypeOK, CallKnows, Knows
  <2>3. /\ AfterParent(c, p) \in Task \cup {NoTask}
        /\ AfterParent(c, p) \notin visited[c] \cup {at[c]} \/ AfterParent(c, p) = NoTask
        /\ p \in visited[c] \cup {at[c], AfterParent(c, p)}
    BY <2>2 DEF AfterParent
  <2>4. TypeOK'
    BY <2>1, <2>2, <2>3 DEF IInv, TypeOK
  <2>5. CallKnows'
    <3>. SUFFICES ASSUME NEW d \in Call  PROVE Knows(d)'
      BY DEF CallKnows
    <3>. HIDE DEF p
    <3>1. CASE d = c
      <4>1. /\ visited'[c] = visited[c] \cup {at[c]}
            /\ at'[c] = AfterParent(c, p)
            /\ pc'[c] = IF at'[c] = NoTask THEN "commit" ELSE "climb"
        BY <2>1 DEF IInv, TypeOK
      <4>2. at'[c] = NoTask \/ at'[c] \in Task \ visited'[c]
        BY <2>3, <4>1
      <4>3. target[c] \in visited'[c]
        BY <2>1, <4>1 DEF IInv, CallKnows, Knows
      <4>4. c \notin overtaken => Mergeable(c)'
        BY <2>1 DEF IInv, CallKnows, Knows, Mergeable
      <4>5. ASSUME c \notin overtaken, NEW v \in visited'[c]
            PROVE  parent[v] \notin sources[c] /\ parent[v] \in visited'[c] \cup {at'[c], NoTask}
        <5>1. CASE v = at[c]
          BY <1>2, <2>3, <4>1, <5>1 DEF p
        <5>2. CASE v \in visited[c]
          BY <4>1, <4>5, <5>2 DEF IInv, CallKnows, Knows
        <5>. QED  BY <4>1, <5>1, <5>2
      <4>6. target[c] \in Task \ sources[c] /\ sources[c] # {}
            /\ (key[c] \in Key => body[key[c]] = {[target |-> target[c], sources |-> sources[c]]})
        BY <2>1 DEF IInv, CallKnows, Knows
      <4>7. /\ asOf[c] <= clock
            /\ \A t \in {target[c]} \cup sources[c] : mergedInto[t] # NoTask => asOf[c] < when[t]
        BY <2>1 DEF IInv, CallKnows, Knows
      <4>. QED
        BY <2>1, <3>1, <4>1, <4>2, <4>3, <4>4, <4>5, <4>6, <4>7, MergeAssumption DEF Knows
    <3>2. CASE d # c
      BY <2>1, <3>2 DEF IInv, TypeOK, CallKnows, Knows, Mergeable
    <3>. QED  BY <3>1, <3>2
  <2>. QED  BY <2>1, <2>4, <2>5, HistoryStays DEF IInv
<1>. QED  BY <1>1, <1>2

\* What a request about to write knows: as long as nobody has overtaken it,
\* its tasks are there and its sources were never merged.
LEMMA CommitKnows ==
  ASSUME IInv, NEW c \in Call, pc[c] = "commit"
  PROVE  /\ sources[c] \in SUBSET Task /\ target[c] \in Task \ sources[c] /\ sources[c] # {}
         /\ key[c] \in Key => body[key[c]] = {[target |-> target[c], sources |-> sources[c]]}
         /\ c \notin overtaken =>
                /\ mergedInto[target[c]] = NoTask
                /\ \A s \in sources[c] : mergedInto[s] = NoTask /\ events[s] = 0
  BY DEF IInv, TypeOK, CallKnows, Knows, Mergeable, MergesKnown

\* The merge commits.
LEMMA CommitMergePreserves ==
  ASSUME IInv, NEW c \in Call, CommitMerge(c)
  PROVE  IInv'
<1>. DEFINE S == sources[c]
            t == target[c]
<1>1. /\ pc[c] = "commit"
      /\ mergedInto' = [u \in Task |-> IF u \in S THEN t ELSE mergedInto[u]]
      /\ gone' = gone \cup S
      /\ events' = [u \in Task |-> IF u \in S THEN events[u] + 1 ELSE events[u]]
      /\ when' = [u \in Task |-> IF u \in S THEN clock + 1 ELSE when[u]]
      /\ based' = [u \in Task |-> IF u \in S THEN asOf[c] ELSE based[u]]
      /\ clock' = clock + 1
      /\ overtaken' = (overtaken \cup Late(c)) \ {c}
      /\ raced' = IF c \in overtaken THEN raced \cup S ELSE raced
      /\ UNCHANGED <<parent, memo, body, bounds>>
  BY DEF CommitMerge, MarkSources
<1>2. /\ pc' = [pc EXCEPT ![c] = IF key[c] = NoKey THEN "idle" ELSE "store"]
      /\ visited' = [visited EXCEPT ![c] = {}]
      /\ asOf' = [asOf EXCEPT ![c] = 0]
      /\ key' = [key EXCEPT ![c] = key[c]] \/ key' = [key EXCEPT ![c] = NoKey]
      /\ key[c] = NoKey =>
             /\ target' = [target EXCEPT ![c] = NoTask] /\ sources' = [sources EXCEPT ![c] = {}]
             /\ at' = [at EXCEPT ![c] = NoTask] /\ UNCHANGED applied
             /\ key' = [key EXCEPT ![c] = NoKey]
      /\ key[c] # NoKey =>
             /\ UNCHANGED <<key, target, sources, at>>
             /\ applied' = [applied EXCEPT ![key[c]] = @ + 1]
  BY DEF CommitMerge, Finish, IInv, TypeOK
<1>3. /\ S \in SUBSET Task /\ t \in Task \ S /\ S # {}
      /\ key[c] \in Key => body[key[c]] = {[target |-> t, sources |-> S]}
      /\ c \notin overtaken =>
             /\ mergedInto[t] = NoTask
             /\ \A s \in S : mergedInto[s] = NoTask /\ events[s] = 0
  BY <1>1, CommitKnows
<1>4. /\ asOf[c] \in Nat /\ asOf[c] <= clock
      /\ mergedInto[t] # NoTask => asOf[c] < when[t]
  BY <1>1 DEF IInv, TypeOK, CallKnows, Knows, t
<1>. HIDE DEF S, t
<1>5. /\ \A k \in Key : applied'[k] = IF k = key[c] THEN applied[k] + 1 ELSE applied[k]
      /\ applied' \in [Key -> Nat]
  BY <1>2, MergeAssumption DEF IInv, TypeOK
<1>6. TypeOK'
  <2>1. mergedInto' \in [Task -> Task \cup {NoTask}] /\ gone' \subseteq Task
        /\ events' \in [Task -> Nat] /\ when' \in [Task -> Nat] /\ clock' \in Nat
        /\ based' \in [Task -> Nat]
    BY <1>1, <1>3, <1>4 DEF IInv, TypeOK
  <2>2. overtaken' \subseteq Call /\ raced' \subseteq Task
    BY <1>1, <1>3 DEF IInv, TypeOK, Late, Readers
  <2>3. /\ pc' \in [Call -> {"idle", "read", "climb", "commit", "store"}]
        /\ key' \in [Call -> Key \cup {NoKey}]
        /\ visited' \in [Call -> SUBSET Task] /\ asOf' \in [Call -> Nat]
    BY <1>2 DEF IInv, TypeOK
  <2>4. /\ target' \in [Call -> Task \cup {NoTask}]
        /\ sources' \in [Call -> SUBSET Task]
        /\ at' \in [Call -> Task \cup {NoTask}]
    BY <1>2 DEF IInv, TypeOK
  <2>. QED  BY <1>1, <1>5, <2>1, <2>2, <2>3, <2>4 DEF IInv, TypeOK
<1>7. CallKnows'
  <2>. SUFFICES ASSUME NEW d \in Call  PROVE Knows(d)'
    BY DEF CallKnows
  <2>1. CASE d = c
    <3>1. pc'[c] = (IF key[c] = NoKey THEN "idle" ELSE "store") /\ visited'[c] = {}
      BY <1>2 DEF IInv, TypeOK
    <3>2. CASE key[c] = NoKey
      BY <1>2, <2>1, <3>1, <3>2, MergeAssumption DEF IInv, TypeOK, Knows
    <3>3. CASE key[c] # NoKey
      <4>1. key[c] \in Key
        BY <3>3 DEF IInv, TypeOK
      <4>2. applied'[key[c]] > 0
        BY <1>5, <4>1 DEF IInv, TypeOK
      <4>. QED  BY <1>1, <1>2, <1>3, <2>1, <3>1, <3>3, <4>1, <4>2 DEF Knows, S, t
    <3>. QED  BY <3>2, <3>3
  <2>2. CASE d # c
    <3>1. /\ pc'[d] = pc[d] /\ key'[d] = key[d] /\ visited'[d] = visited[d]
          /\ target'[d] = target[d] /\ sources'[d] = sources[d] /\ at'[d] = at[d]
          /\ asOf'[d] = asOf[d]
      BY <1>2, <2>2 DEF IInv, TypeOK
    <3>2. d \notin overtaken' => d \notin overtaken
      BY <1>1, <2>2
    <3>3. ASSUME pc[d] \in {"climb", "commit"}, d \notin overtaken'
          PROVE  Mergeable(d)'
      <4>1. ({target[d]} \cup sources[d]) \cap S = {}
        <5>1. d \notin Late(c)
          BY <1>1, <2>2, <3>3
        <5>2. \A s \in S : d \notin Readers(s)
          BY <2>2, <5>1 DEF Late, S
        <5>3. \A s \in S : s \notin {target[d]} \cup sources[d]
          BY <3>3, <5>2 DEF Readers
        <5>. QED  BY <5>3
      <4>2. Mergeable(d)
        BY <3>2, <3>3 DEF IInv, CallKnows, Knows
      <4>3. sources[d] \subseteq Task
        BY DEF IInv, TypeOK
      <4>. QED  BY <1>1, <3>1, <4>1, <4>2, <4>3 DEF Mergeable
    <3>4. pc[d] = "store" => applied'[key[d]] > 0
      BY <1>5 DEF IInv, TypeOK, CallKnows, Knows
    <3>5. ASSUME pc[d] \in {"climb", "commit"}
          PROVE  /\ asOf[d] <= clock'
                 /\ \A u \in {target[d]} \cup sources[d] :
                        mergedInto'[u] # NoTask => asOf[d] < when'[u]
      <4>1. /\ asOf[d] \in Nat /\ clock \in Nat /\ asOf[d] <= clock
            /\ target[d] \in Task /\ sources[d] \subseteq Task
            /\ \A u \in {target[d]} \cup sources[d] : mergedInto[u] # NoTask => asOf[d] < when[u]
        BY <3>5 DEF IInv, TypeOK, CallKnows, Knows
      <4>. QED  BY <1>1, <4>1
    <3>. QED  BY <1>1, <3>1, <3>2, <3>3, <3>4, <3>5 DEF IInv, CallKnows, Knows
  <2>. QED  BY <2>1, <2>2
<1>8. MergesKnown'
  <2>1. ASSUME NEW u \in Task
        PROVE  /\ mergedInto'[u] # NoTask => u \in gone'
               /\ events'[u] = 0 <=> mergedInto'[u] = NoTask
               /\ when'[u] <= clock' /\ based'[u] <= clock'
    BY <1>1, <1>3, <1>4, MergeAssumption DEF IInv, TypeOK, MergesKnown
  <2>2. ASSUME NEW k \in Key
        PROVE  /\ applied'[k] > 0 => body[k] # {}
               /\ \A m \in body[k] : \A s \in m.sources : applied'[k] <= events'[s]
    <3>1. CASE k = key[c]
      <4>1. body[k] = {[target |-> t, sources |-> S]}
        BY <1>3, <3>1
      <4>2. \A s \in S : applied[k] <= events[s]
        BY <4>1 DEF IInv, MergesKnown
      <4>3. \A s \in S : applied'[k] <= events'[s]
        BY <1>1, <1>3, <1>5, <3>1, <4>2 DEF IInv, TypeOK
      <4>. QED  BY <4>1, <4>3
    <3>2. CASE k # key[c]
      <4>1. ASSUME NEW m \in body[k], NEW s \in m.sources
            PROVE  applied[k] <= events'[s]
        <5>1. s \in Task /\ applied[k] <= events[s]
          BY DEF IInv, TypeOK, MergesKnown, Merges
        <5>. QED  BY <1>1, <5>1 DEF IInv, TypeOK
      <4>. QED  BY <1>5, <3>2, <4>1 DEF IInv, MergesKnown
    <3>. QED  BY <3>1, <3>2
  <2>. QED  BY <1>1, <2>1, <2>2 DEF MergesKnown
<1>9. MergedOnce'
  <2>. SUFFICES ASSUME NEW s \in Task, s \notin raced'
       PROVE  events'[s] = IF mergedInto'[s] = NoTask THEN 0 ELSE 1
    BY DEF MergedOnce
  <2>1. CASE s \in S
    BY <1>1, <1>3, <2>1, MergeAssumption
  <2>2. CASE s \notin S
    BY <1>1, <2>2 DEF IInv, MergedOnce
  <2>. QED  BY <2>1, <2>2
<1>10. \A k \in memo' : applied'[k] > 0
  BY <1>1, <1>5 DEF IInv, TypeOK
<1>11. TargetWasLive'
  <2>. SUFFICES ASSUME NEW s \in Task, mergedInto'[s] # NoTask,
                       mergedInto'[mergedInto'[s]] # NoTask
       PROVE  based'[s] < when'[mergedInto'[s]]
    BY DEF TargetWasLive
  <2>1. CASE s \in S
    \* The target was merged after the request had read it.
    BY <1>1, <1>3, <1>4, <2>1
  <2>2. CASE s \notin S
    <3>1. mergedInto'[s] = mergedInto[s] /\ mergedInto[s] \in Task /\ based'[s] = based[s]
      BY <1>1, <2>2 DEF IInv, TypeOK
    <3>2. CASE mergedInto[s] \in S
      BY <1>1, <3>1, <3>2 DEF IInv, TypeOK, MergesKnown
    <3>3. CASE mergedInto[s] \notin S
      BY <1>1, <3>1, <3>3 DEF IInv, TargetWasLive
    <3>. QED  BY <3>1, <3>2, <3>3
  <2>. QED  BY <2>1, <2>2
<1>. QED  BY <1>6, <1>7, <1>8, <1>9, <1>10, <1>11 DEF IInv

-----------------------------------------------------------------------------
(* Theorems.                                                               *)

LEMMA StepPreserves ==
  ASSUME IInv, [Next]_vars
  PROVE  IInv'
<1>1. CASE UNCHANGED vars
  <2>1. UNCHANGED <<tasks, memo, body, overtaken, history, calls, bounds>>
    BY <1>1 DEF vars
  <2>2. TypeOK' /\ CallKnows'
    BY <2>1 DEF IInv, TypeOK, CallKnows, Knows, Mergeable
  <2>. QED  BY <2>1, <2>2, HistoryStays DEF IInv
<1>2. ASSUME NEW c \in Call, StoreResult(c)  PROVE IInv'
  <2>1. key[c] \in Key /\ applied[key[c]] > 0
    BY <1>2 DEF StoreResult, IInv, CallKnows, Knows
  <2>. QED  BY <1>2, <2>1, AbortPreserves DEF StoreResult, IInv, TypeOK
<1>3. ASSUME NEW c \in Call, CallFails(c)  PROVE IInv'
  BY <1>3, AbortPreserves DEF CallFails, IInv, TypeOK
<1>. QED
  BY <1>1, <1>2, <1>3, ReparentPreserves, RemovePreserves,
     ForgetPreserves, StartMergePreserves, ReadRowsPreserves, ClimbPreserves,
     CommitMergePreserves
  DEF Next, MergeStep

\* IInv is an inductive invariant of every merge, whatever overlaps with it.
THEOREM MergeInvariant == Spec => []IInv
  BY InitIInv, StepPreserves, PTL DEF Spec

\* Every variable keeps to the values its column or request can have.
THEOREM MergeTypes == Spec => []TypeOK
<1>1. IInv => TypeOK
  BY DEF IInv
<1>. QED  BY <1>1, MergeInvariant, PTL

\* A task is merged and announced once, unless merges overtake each other.
THEOREM MergeOnce == Spec => []MergedOnce
<1>1. IInv => MergedOnce
  BY DEF IInv
<1>. QED  BY <1>1, MergeInvariant, PTL

\* A replayed result was committed, and a retry gets past the checks again
\* only if it read its tasks before the merge it repeats was committed.
THEOREM MergeRetriesAreSafe == Spec => []RetriesAreSafe
<1>1. ASSUME IInv, NEW c \in Call, pc[c] \in {"climb", "commit"},
             key[c] \in Key, applied[key[c]] > 0, NEW s \in sources[c]
      PROVE  asOf[c] < when[s]
  <2>1. body[key[c]] = {[target |-> target[c], sources |-> sources[c]]}
    BY <1>1 DEF IInv, CallKnows, Knows
  <2>2. \A m \in body[key[c]] : \A u \in m.sources : applied[key[c]] <= events[u]
    BY <1>1 DEF IInv, MergesKnown
  <2>3. s \in Task /\ applied[key[c]] <= events[s]
    BY <1>1, <2>1, <2>2 DEF IInv, TypeOK
  <2>4. mergedInto[s] # NoTask
    BY <1>1, <2>3 DEF IInv, TypeOK, MergesKnown
  <2>. QED  BY <1>1, <2>4 DEF IInv, CallKnows, Knows
<1>2. IInv => RetriesAreSafe
  BY <1>1 DEF IInv, RetriesAreSafe
<1>. QED  BY <1>2, MergeInvariant, PTL

\* Whatever overlaps, a merge goes into a task that was not merged when the
\* request read it.
THEOREM MergeTargetWasLive == Spec => []TargetWasLive
<1>1. IInv => TargetWasLive
  BY DEF IInv
<1>. QED  BY <1>1, MergeInvariant, PTL

\* When a climb is over, what it has visited is closed under parents and free
\* of sources: the target is below none of them.
THEOREM MergeNotBelowSource == Spec => []NotBelowSource
<1>1. IInv => NotBelowSource
  <2>. SUFFICES ASSUME IInv, NEW c \in Call, pc[c] = "commit", c \notin overtaken
       PROVE  \E V \in SUBSET Task : ClearOf(V, sources[c], target[c])
    BY DEF NotBelowSource
  <2>1. visited[c] \in SUBSET Task
    BY DEF IInv, TypeOK
  <2>2. ClearOf(visited[c], sources[c], target[c])
    BY DEF IInv, CallKnows, Knows, ClearOf
  <2>. QED  BY <2>1, <2>2
<1>. QED  BY <1>1, MergeInvariant, PTL

\* A climb never reads a parent twice: with finitely many tasks, it ends.
THEOREM MergeClimbAdvances == Spec => ClimbAdvances
<1>1. ASSUME IInv, Next, NEW c \in Call,
             pc[c] = "climb", at'[c] # at[c], pc'[c] # "idle"
      PROVE  visited[c] \subseteq visited'[c] /\ visited'[c] # visited[c]
  <2>1. Climb(c)
    BY <1>1 DEF Next, MergeStep, Reparent, Remove, Forget, StartMerge,
       ReadRows, Climb, CommitMerge, StoreResult, CallFails, Abort, Finish, IInv, TypeOK
  <2>2. visited' = [visited EXCEPT ![c] = @ \cup {at[c]}]
    BY <1>1, <2>1 DEF Climb, Abort, Finish, IInv, TypeOK
  <2>. QED  BY <1>1, <2>2 DEF IInv, TypeOK, CallKnows, Knows
<1>2. ASSUME IInv, [Next]_vars
      PROVE  [\A c \in Call :
                 pc[c] = "climb" /\ at'[c] # at[c] /\ pc'[c] # "idle" =>
                     visited[c] \subseteq visited'[c] /\ visited'[c] # visited[c]]_vars
  BY <1>1, <1>2
<1>. QED  BY <1>2, MergeInvariant, PTL DEF Spec, ClimbAdvances

-----------------------------------------------------------------------------
(* When requests do not overlap.                                           *)

\* The step of a request, or one that leaves what merges have done alone and
\* lets no request get past its checks.
LEMMA MergeSteps ==
  ASSUME IInv, [Next]_vars
  PROVE  \/ \E c \in Call : CommitMerge(c)
         \/ /\ UNCHANGED <<mergedInto, applied, clock, when, based>>
            /\ \A c \in Call : pc'[c] \in {"climb", "commit"} =>
                  /\ key'[c] = key[c]
                  /\ \/ pc[c] \in {"climb", "commit"} /\ asOf'[c] = asOf[c]
                     \/ pc[c] = "read" /\ Mergeable(c) /\ asOf'[c] = clock
<1>. DEFINE Keeps(c) == pc'[c] \in {"climb", "commit"} =>
              /\ key'[c] = key[c]
              /\ \/ pc[c] \in {"climb", "commit"} /\ asOf'[c] = asOf[c]
                 \/ pc[c] = "read" /\ Mergeable(c) /\ asOf'[c] = clock
            Same == UNCHANGED <<mergedInto, applied, clock, when, based>>
<1>1. CASE Reparent \/ Remove \/ Forget \/ UNCHANGED vars
  BY <1>1 DEF Reparent, Remove, Forget, vars
<1>2. ASSUME NEW c \in Call, StartMerge(c)
      PROVE  Same /\ \A d \in Call : Keeps(d)
  <2>1. /\ pc' = [pc EXCEPT ![c] = "read"]
        /\ \E k \in Key \cup {NoKey} : key' = [key EXCEPT ![c] = k]
        /\ UNCHANGED <<tasks, asOf, history>>
    BY <1>2 DEF StartMerge
  <2>. QED  BY <2>1 DEF IInv, TypeOK
<1>3. ASSUME NEW c \in Call, Abort(c), UNCHANGED <<tasks, history>>
      PROVE  Same /\ \A d \in Call : Keeps(d)
  BY <1>3 DEF Abort, Finish, IInv, TypeOK
<1>4. ASSUME NEW c \in Call, ReadRows(c)
      PROVE  Same /\ \A d \in Call : Keeps(d)
  BY <1>3, <1>4 DEF ReadRows, IInv, TypeOK
<1>5. ASSUME NEW c \in Call, Climb(c)
      PROVE  Same /\ \A d \in Call : Keeps(d)
  BY <1>3, <1>5 DEF Climb, IInv, TypeOK
<1>6. ASSUME NEW c \in Call, StoreResult(c) \/ CallFails(c)
      PROVE  Same /\ \A d \in Call : Keeps(d)
  BY <1>3, <1>6 DEF StoreResult, CallFails
<1>. QED  BY <1>1, <1>2, <1>4, <1>5, <1>6 DEF Next, MergeStep

\* What a commit does to what merges have done.
LEMMA CommitDoes ==
  ASSUME IInv, NEW c \in Call, CommitMerge(c)
  PROVE  /\ pc[c] = "commit" /\ pc'[c] \notin {"climb", "commit"}
         /\ \A d \in Call \ {c} : pc'[d] = pc[d] /\ key'[d] = key[d] /\ asOf'[d] = asOf[d]
         /\ clock' = clock + 1
         /\ \A u \in Task :
               /\ mergedInto'[u] = IF u \in sources[c] THEN target[c] ELSE mergedInto[u]
               /\ when'[u] = IF u \in sources[c] THEN clock + 1 ELSE when[u]
               /\ based'[u] = IF u \in sources[c] THEN asOf[c] ELSE based[u]
         /\ \A k \in Key :
               applied'[k] = IF k = key[c] THEN applied[k] + 1 ELSE applied[k]
  BY MergeAssumption DEF CommitMerge, MarkSources, Finish, IInv, TypeOK

\* Nobody merges between the reads of a request and its commit.
OneInv ==
    /\ \A c \in Call : pc[c] \in {"climb", "commit"} => asOf[c] = clock
    /\ \A s \in Task : mergedInto[s] # NoTask =>
          /\ when[s] = based[s] + 1
          /\ mergedInto[mergedInto[s]] # NoTask => when[s] # when[mergedInto[s]]

LEMMA OneInvPreserved ==
  ASSUME IInv, OneInv, OneMerge, [Next]_vars
  PROVE  OneInv'
<1>1. ASSUME NEW c \in Call, CommitMerge(c)  PROVE OneInv'
  <2>1. /\ sources[c] \in SUBSET Task /\ target[c] \in Task \ sources[c]
        /\ asOf[c] = clock
    BY <1>1, CommitKnows, CommitDoes DEF OneInv
  <2>2. \A d \in Call : pc'[d] \notin {"climb", "commit"}
    BY <1>1, CommitDoes DEF OneMerge
  <2>3. ASSUME NEW s \in Task, mergedInto'[s] # NoTask
        PROVE  /\ when'[s] = based'[s] + 1
               /\ mergedInto'[mergedInto'[s]] # NoTask => when'[s] # when'[mergedInto'[s]]
    <3>1. /\ mergedInto[s] \in Task \cup {NoTask}
          /\ \A u \in Task : when[u] \in Nat /\ clock \in Nat /\ when[u] <= clock
      BY DEF IInv, TypeOK, MergesKnown
    <3>2. CASE s \in sources[c]
      BY <1>1, <2>1, <3>1, <3>2, CommitDoes
    <3>3. CASE s \notin sources[c]
      BY <1>1, <2>1, <2>3, <3>1, <3>3, CommitDoes DEF OneInv
    <3>. QED  BY <3>2, <3>3
  <2>. QED  BY <2>2, <2>3 DEF OneInv
<1>. QED  BY <1>1, MergeSteps DEF OneInv

\* Merges that do not overlap run forward; so they never run in a circle.
THEOREM MergeRunsForward == Spec /\ []OneMerge => []MergesRunForward
<1>1. Init => OneInv
  BY DEF Init, OneInv
<1>2. IInv /\ OneInv => MergesRunForward
  BY DEF IInv, TypeOK, TargetWasLive, OneInv, MergesRunForward
<1>. QED  BY <1>1, <1>2, OneInvPreserved, MergeInvariant, PTL DEF Spec

\* A request whose key is past the checks repeats no merge.
KeyInv ==
    /\ AppliedOnce
    /\ \A c \in Call : pc[c] \in {"climb", "commit"} /\ key[c] \in Key => applied[key[c]] = 0

\* A request whose sources were never merged has a key that was not used.
LEMMA MergeableIsNew ==
  ASSUME IInv, NEW c \in Call, pc[c] = "read", Mergeable(c), key[c] \in Key
  PROVE  applied[key[c]] = 0
<1>1. PICK s \in sources[c] : TRUE
  BY DEF IInv, CallKnows, Knows
<1>2. body[key[c]] = {[target |-> target[c], sources |-> sources[c]]}
  BY DEF IInv, CallKnows, Knows
<1>3. \A m \in body[key[c]] : \A u \in m.sources : applied[key[c]] <= events[u]
  BY DEF IInv, MergesKnown
<1>4. s \in Task /\ applied[key[c]] <= events[s] /\ applied[key[c]] \in Nat
  BY <1>1, <1>2, <1>3 DEF IInv, TypeOK
<1>5. events[s] = 0
  BY <1>1, <1>4 DEF Mergeable, IInv, MergesKnown
<1>. QED  BY <1>4, <1>5

LEMMA KeyInvPreserved ==
  ASSUME IInv, KeyInv, OnePerKey, [Next]_vars
  PROVE  KeyInv'
<1>1. ASSUME NEW c \in Call, CommitMerge(c)  PROVE KeyInv'
  <2>1. ASSUME NEW k \in Key  PROVE applied'[k] <= 1
    BY <1>1, <2>1, CommitDoes DEF KeyInv, AppliedOnce
  <2>2. ASSUME NEW d \in Call, pc'[d] \in {"climb", "commit"}, key'[d] \in Key
        PROVE  applied'[key'[d]] = 0
    <3>1. d # c /\ pc[d] \in {"climb", "commit"} /\ key'[d] = key[d]
      BY <1>1, <2>2, CommitDoes
    <3>2. key[d] # key[c]
      BY <1>1, <2>2, <3>1, CommitDoes DEF OnePerKey
    <3>. QED  BY <1>1, <2>2, <3>1, <3>2, CommitDoes DEF KeyInv
  <2>. QED  BY <2>1, <2>2 DEF KeyInv, AppliedOnce
<1>. QED  BY <1>1, MergeSteps, MergeableIsNew DEF KeyInv, AppliedOnce

\* With a client that repeats a request only when the last one has ended, a
\* merge is committed once per key, whatever other merges do meanwhile and
\* whatever Redis loses.
THEOREM MergeAppliedOnce == Spec /\ []OnePerKey => []AppliedOnce
<1>1. Init => KeyInv
  BY DEF Init, KeyInv, AppliedOnce
<1>2. KeyInv => AppliedOnce
  BY DEF KeyInv
<1>. QED  BY <1>1, <1>2, KeyInvPreserved, MergeInvariant, PTL DEF Spec
=============================================================================
