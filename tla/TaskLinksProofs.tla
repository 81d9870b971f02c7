--------------------------- MODULE TaskLinksProofs ---------------------------
(***************************************************************************)
(* Theorems about TaskLinks, for any number of tasks, links, merges and    *)
(* other requests.  The inductive invariant adds to the two properties     *)
(* what a merge knows between its statements: a row it is about to delete  *)
(* has a twin at the target which it will leave alone, and a link that is  *)
(* still on its sources was either found by the running update or          *)
(* committed by somebody else since.                                       *)
(***************************************************************************)
EXTENDS TaskLinks, TLAPS

USE DEF table, merges, users, history, bounds

-----------------------------------------------------------------------------
(* Links.                                                                  *)

\* The ends of a link, and what replacing one does.
LEMMA Ends ==
  ASSUME NEW l \in Link, NEW d \in Dir, NEW t \in Task
  PROVE  /\ End(l, d) \in Task /\ Opposite(d) \in Dir /\ Opposite(d) # d
         /\ WithEnd(l, d, t) \in Link
         /\ End(WithEnd(l, d, t), d) = t
         /\ End(WithEnd(l, d, t), Opposite(d)) = End(l, Opposite(d))
         /\ WithEnd(l, d, t).type = l.type
  BY DEF Link, Dir, End, WithEnd, Opposite

\* What has both ends of a link.
LEMMA BothEnds ==
  ASSUME NEW l \in Link, NEW d \in Dir
  PROVE  {End(l, d), End(l, Opposite(d))} = {l.from, l.to}
  BY DEF Dir, End, Opposite

\* The link that a merge leaves has no end among its sources.
LEMMA ImageClear ==
  ASSUME NEW m \in Merger, target[m] \in Task \ sources[m], NEW l \in Link
  PROVE  Image(m, l) \in Link /\ ~OfSources(m, Image(m, l))
  BY DEF Image, OfSources, Link

\* A link with one end at a source arrives as the link with that end moved.
LEMMA ImageOfEnd ==
  ASSUME NEW m \in Merger, target[m] \in Task, NEW l \in Link, NEW d \in Dir,
         End(l, d) \in sources[m], End(l, Opposite(d)) \notin sources[m]
  PROVE  Image(m, l) = WithEnd(l, d, target[m])
  BY DEF Image, Link, Dir, End, Opposite, WithEnd

-----------------------------------------------------------------------------
(* The inductive invariant.                                                *)

LEMMA InitIInv == Init => IInv
<1>. SUFFICES ASSUME Init PROVE IInv
  OBVIOUS
<1>1. TypeOK
  BY DEF Init, TypeOK, Dir
<1>2. LocksHeld
  BY DEF Init, LocksHeld
<1>3. ASSUME NEW m \in Merger  PROVE Knows(m)
  BY <1>3, LinksAssumption
  DEF Init, Knows, Stage, DeletesKnown, Doomed, MovesKnown
<1>. QED  BY <1>1, <1>2, <1>3 DEF IInv

\* A merge none of whose variables change, in a table that has not changed.
LEMMA KnowsStays ==
  ASSUME TypeOK, NEW m \in Merger, Knows(m), UNCHANGED link,
         pc'[m] = pc[m], dir'[m] = dir[m], target'[m] = target[m], sources'[m] = sources[m],
         known'[m] = known[m], doomed'[m] = doomed[m], found'[m] = found[m],
         draft'[m] = draft[m], late'[m] = late[m], overwritten'[m] = overwritten[m]
  PROVE  Knows(m)'
<1>1. Stage(m)'
  BY DEF Knows, Stage
<1>2. DeletesKnown(m)'
  <2>1. \A k \in Row : \A l : Kept(m, k, l)' <=> Kept(m, k, l)
    BY DEF Kept, OfSources
  <2>2. \A i \in Row : Justified(m, i)' <=> Justified(m, i)
    <3>. SUFFICES ASSUME NEW i \in Row  PROVE Justified(m, i)' <=> Justified(m, i)
      OBVIOUS
    <3>1. Within(m, link[i])' = Within(m, link[i]) /\ Changed(m, i)' = Changed(m, i)
      BY DEF Within, Changed
    <3>2. Image(m, link[i])' = Image(m, link[i])
      BY DEF Image
    <3>. QED  BY <2>1, <3>1, <3>2 DEF Justified
  <2>3. Doomed(m)' = Doomed(m) /\ Doomed(m) \subseteq Row
    BY DEF Doomed, TypeOK
  <2>. QED  BY <2>1, <2>2, <2>3 DEF Knows, DeletesKnown
<1>3. MovesKnown(m)'
  BY DEF Knows, MovesKnown, Touching, View
<1>. QED  BY <1>1, <1>2, <1>3 DEF Knows

\* Steps that are neither a merge's nor change a link.
LEMMA LinksStay ==
  ASSUME IInv, TypeOK', UNCHANGED <<link, merges, history>>
  PROVE  IInv'
<1>1. LocksHeld'
  BY DEF IInv, LocksHeld
<1>2. ASSUME NEW m \in Merger  PROVE Knows(m)'
  BY <1>2, KnowsStays DEF IInv
<1>. QED  BY <1>1, <1>2 DEF IInv

\* Somebody else than merge m commits rows W: m notices.
LEMMA NoticeKeepsKnows ==
  ASSUME TypeOK, LocksHeld, NEW m \in Merger, Knows(m), NEW n, n # m,
         NEW W \in SUBSET Row, Notice(n, W),
         \A i \in W : draft[m][i] = Clean,
         \A i \in Row \ W : link'[i] = link[i],
         pc'[m] = pc[m], dir'[m] = dir[m], target'[m] = target[m], sources'[m] = sources[m],
         known'[m] = known[m], doomed'[m] = doomed[m], found'[m] = found[m],
         draft'[m] = draft[m]
  PROVE  Knows(m)'
<1>1. Stage(m)'
  BY DEF Knows, Stage
<1>2. pc[m] # "idle" =>
          /\ overwritten[m] \subseteq overwritten'[m]
          /\ \A i \in W : link[i] \in Link => <<i, link[i]>> \in overwritten'[m]
  BY DEF Notice
<1>3. DeletesKnown(m)'
  <2>1. CASE pc[m] = "idle"
    BY <2>1, LinksAssumption DEF Knows, Stage, DeletesKnown, Doomed
  <2>2. CASE pc[m] # "idle"
    <3>1. ASSUME NEW k \in Row, NEW l \in Link, Kept(m, k, l)  PROVE Kept(m, k, l)'
      BY <1>2, <2>2, <3>1 DEF Kept, OfSources
    <3>2. ASSUME NEW l \in known'[m]  PROVE \E k \in Row : Kept(m, k, l)'
      BY <3>1, <3>2 DEF Knows, DeletesKnown, TypeOK
    <3>3. Doomed(m)' = Doomed(m) /\ Doomed(m) \subseteq Row
      BY DEF Doomed, TypeOK
    <3>4. ASSUME NEW i \in Doomed(m)  PROVE Justified(m, i)'
      <4>1. Justified(m, i) /\ i \in Row
        BY <3>3 DEF Knows, DeletesKnown
      <4>2. CASE Changed(m, i)
        BY <1>2, <2>2, <4>2 DEF Justified, Changed
      <4>3. CASE ~Changed(m, i) /\ i \in W
        BY <1>2, <2>2, <4>1, <4>3 DEF Justified, Changed
      <4>4. CASE ~Changed(m, i) /\ i \notin W
        <5>1. link'[i] = link[i] /\ link[i] \in Link
          BY <4>1, <4>4 DEF Justified
        <5>2. Within(m, link[i])' <=> Within(m, link[i])
          BY <5>1 DEF Within
        <5>3. Image(m, link[i])' = Image(m, link[i]) /\ Image(m, link[i]) \in Link
          BY <2>2, <5>1, ImageClear DEF Image, Knows, Stage
        <5>. QED  BY <3>1, <4>1, <4>4, <5>1, <5>2, <5>3 DEF Justified
      <4>. QED  BY <4>2, <4>3, <4>4
    <3>. QED  BY <3>2, <3>3, <3>4 DEF DeletesKnown
  <2>. QED  BY <2>1, <2>2
<1>4. MovesKnown(m)'
  <2>1. pc[m] \in {"find", "move", "commit"} =>
            \A d \in Dir : late'[m][d] = late[m][d] \cup W
    BY DEF Notice
  <2>2. \A d \in Dir : Touching(m, d, sources[m])' \subseteq Touching(m, d, sources[m]) \cup W
    BY DEF Touching, View
  <2>3. dir[m] \in Dir /\ "from" \in Dir /\ "to" \in Dir
    BY DEF TypeOK, Dir
  <2>. QED  BY <2>1, <2>2, <2>3 DEF Knows, MovesKnown
<1>. QED  BY <1>1, <1>3, <1>4 DEF Knows

\* A statement of merge m that commits nothing leaves the other merges alone.
LEMMA StatementPreserves ==
  ASSUME IInv, NEW m \in Merger, TypeOK', LocksHeld', Knows(m)', UNCHANGED link,
         \A n \in Merger \ {m} :
            /\ pc'[n] = pc[n] /\ dir'[n] = dir[n]
            /\ target'[n] = target[n] /\ sources'[n] = sources[n]
            /\ known'[n] = known[n] /\ doomed'[n] = doomed[n] /\ found'[n] = found[n]
            /\ draft'[n] = draft[n] /\ late'[n] = late[n] /\ overwritten'[n] = overwritten[n]
  PROVE  IInv'
<1>1. ASSUME NEW n \in Merger \ {m}  PROVE Knows(n)'
  BY <1>1, KnowsStays DEF IInv
<1>. QED  BY <1>1 DEF IInv

LEMMA StartMergePreserves ==
  ASSUME IInv, NEW m \in Merger, StartMerge(m)
  PROVE  IInv'
<1>1. PICK t \in Task \ gone, S \in SUBSET (Task \ gone) :
        /\ t \notin S
        /\ target' = [target EXCEPT ![m] = t]
        /\ sources' = [sources EXCEPT ![m] = S]
  BY DEF StartMerge
<1>2. /\ pc[m] = "idle" /\ pc' = [pc EXCEPT ![m] = "target"] /\ started' = started + 1
      /\ UNCHANGED <<table, dir, known, doomed, found, draft, users, history, edits>>
  BY DEF StartMerge
<1>3. TypeOK'
  BY <1>1, <1>2 DEF IInv, TypeOK
<1>4. LocksHeld'
  BY <1>2 DEF IInv, LocksHeld
<1>5. Stage(m) /\ pc'[m] = "target" /\ target'[m] = t /\ sources'[m] = S
  BY <1>1, <1>2 DEF IInv, TypeOK, Knows
<1>6. Stage(m)'
  BY <1>1, <1>2, <1>5 DEF Stage
<1>7. known'[m] = {} /\ Doomed(m)' = {}
  BY <1>2, <1>5, LinksAssumption DEF Stage, Doomed
<1>8. DeletesKnown(m)' /\ MovesKnown(m)'
  BY <1>5, <1>7 DEF DeletesKnown, MovesKnown
<1>. QED  BY <1>1, <1>2, <1>3, <1>4, <1>6, <1>8, StatementPreserves DEF Knows, IInv, TypeOK

\* What Turn does: the same statement for the other end, or the next one.
LEMMA TurnDoes ==
  ASSUME TypeOK, NEW m \in Merger, NEW a, NEW b, Turn(m, a, b)
  PROVE  /\ dir[m] \in Dir /\ dir'[m] = Opposite(dir[m]) /\ dir'[m] \in Dir
         /\ dir[m] = "from" => pc'[m] = a /\ dir'[m] = "to"
         /\ dir[m] # "from" => pc'[m] = b /\ dir[m] = "to" /\ dir'[m] = "from"
         /\ \A n \in Merger \ {m} : pc'[n] = pc[n] /\ dir'[n] = dir[n]
         /\ dir' \in [Merger -> Dir]
         /\ \A P : pc \in [Merger -> P] /\ a \in P /\ b \in P => pc' \in [Merger -> P]
  BY DEF Turn, TypeOK, Dir, Opposite

\* The target's links are as the merge reads them.
LEMMA ReadTargetPreserves ==
  ASSUME IInv, NEW m \in Merger, ReadTarget(m)
  PROVE  IInv'
<1>. DEFINE T == Touching(m, dir[m], {target[m]})
<1>1. /\ pc[m] = "target" /\ Turn(m, "target", "source")
      /\ known' = [known EXCEPT ![m] = @ \cup {View(m, i) : i \in T}]
      /\ UNCHANGED <<table, target, sources, doomed, found, draft, users, history, bounds>>
  BY DEF ReadTarget
<1>2. Stage(m) /\ DeletesKnown(m) /\ TypeOK
  BY DEF IInv, Knows
<1>3. {View(m, i) : i \in T} \subseteq Link
  BY DEF Touching
<1>4. pc'[m] \in {"target", "source"} /\ \A n \in Merger \ {m} : pc'[n] = pc[n] /\ dir'[n] = dir[n]
  BY <1>1, <1>2, TurnDoes
<1>5. TypeOK'
  <2>1. /\ dir' \in [Merger -> Dir]
        /\ pc' \in [Merger -> {"idle", "target", "source", "delete", "find", "move", "commit"}]
    BY <1>1, <1>2, TurnDoes DEF TypeOK
  <2>2. known' \in [Merger -> SUBSET Link]
    BY <1>1, <1>2, <1>3 DEF TypeOK
  <2>. QED  BY <1>1, <1>2, <2>1, <2>2 DEF TypeOK
<1>6. LocksHeld'
  BY <1>1 DEF IInv, LocksHeld
<1>7. Stage(m)'
  BY <1>1, <1>2, <1>4 DEF Stage
<1>8. doomed'[m] = {} /\ doomed[m] = {} /\ Doomed(m)' = {} /\ \A i \in Row : draft[m][i] = Clean
  BY <1>1, <1>2, LinksAssumption DEF Stage, Doomed
<1>9. ASSUME NEW l \in known'[m]  PROVE \E k \in Row : Kept(m, k, l)'
  <2>1. known'[m] = known[m] \cup {View(m, i) : i \in T}
    BY <1>1, <1>2 DEF TypeOK
  <2>2. CASE l \in known[m]
    BY <1>1, <1>2, <2>2 DEF DeletesKnown, Kept, OfSources
  <2>3. CASE l \notin known[m]
    <3>1. PICK i \in T : l = View(m, i)
      BY <1>9, <2>1, <2>3
    <3>2. i \in Row /\ link[i] = l
      BY <1>8, <3>1 DEF Touching, View
    <3>. QED  BY <1>1, <1>8, <3>2 DEF Kept
  <2>. QED  BY <2>2, <2>3
<1>10. DeletesKnown(m)' /\ MovesKnown(m)'
  BY <1>4, <1>8, <1>9 DEF DeletesKnown, MovesKnown
<1>. QED
  BY <1>1, <1>4, <1>5, <1>6, <1>7, <1>10, StatementPreserves DEF Knows, IInv, TypeOK

\* A row is doomed because its end at the target is seen there, or its twin.
LEMMA DoomedForAReason ==
  ASSUME TypeOK, NEW m \in Merger, Stage(m), DeletesKnown(m), pc[m] = "source",
         NEW d \in Dir, NEW i \in Touching(m, d, sources[m]), Duplicate(m, View(m, i), d)
  PROVE  /\ link[i] \in Link /\ OfSources(m, link[i])
         /\ \/ Within(m, link[i])
            \/ \E k \in Row :
                  /\ Kept(m, k, Image(m, link[i]))
                  /\ link[k] = Image(m, link[i]) => ~OfSources(m, link[k])
<1>. DEFINE l == link[i]
            t == target[m]
<1>1. /\ i \in Row /\ View(m, i) = l /\ l \in Link /\ End(l, d) \in sources[m]
      /\ t \in Task \ sources[m]
  BY DEF Stage, Touching, View
<1>2. OfSources(m, l)
  BY <1>1 DEF OfSources, End
<1>3. CASE End(l, Opposite(d)) \in sources[m] \cup {t}
  BY <1>1, <1>2, <1>3, BothEnds DEF Within
<1>4. CASE End(l, Opposite(d)) \notin sources[m] \cup {t}
  <2>1. WithEnd(l, d, t) \in known[m]
    BY <1>1, <1>4 DEF Duplicate
  <2>2. WithEnd(l, d, t) = Image(m, l)
    BY <1>1, <1>4, ImageOfEnd
  <2>3. PICK k \in Row : Kept(m, k, Image(m, l))
    BY <2>1, <2>2 DEF DeletesKnown
  <2>4. ~OfSources(m, Image(m, l))
    BY <1>1, ImageClear
  <2>. QED  BY <1>1, <1>2, <2>3, <2>4
<1>. QED  BY <1>3, <1>4

LEMMA ReadSourcePreserves ==
  ASSUME IInv, NEW m \in Merger, ReadSource(m)
  PROVE  IInv'
<1>. DEFINE D == {i \in Touching(m, dir[m], sources[m]) : Duplicate(m, View(m, i), dir[m])}
<1>1. /\ pc[m] = "source" /\ Turn(m, "source", "delete")
      /\ doomed' = [doomed EXCEPT ![m] = @ \cup D]
      /\ known' = IF dir[m] = "to" THEN [known EXCEPT ![m] = {}] ELSE known
      /\ UNCHANGED <<table, target, sources, found, draft, users, history, bounds>>
  BY DEF ReadSource
<1>2. Stage(m) /\ DeletesKnown(m) /\ TypeOK /\ dir[m] \in Dir
  BY DEF IInv, Knows, TypeOK
<1>3. /\ pc'[m] \in {"source", "delete"}
      /\ pc'[m] = "delete" => dir[m] = "to" /\ dir'[m] = "from"
      /\ \A n \in Merger \ {m} : pc'[n] = pc[n] /\ dir'[n] = dir[n]
  BY <1>1, <1>2, TurnDoes DEF Dir
<1>4. D \subseteq Row /\ doomed'[m] = doomed[m] \cup D
  BY <1>1, <1>2 DEF Touching, TypeOK
<1>5. ASSUME NEW i \in D
      PROVE  /\ link[i] \in Link /\ OfSources(m, link[i])
             /\ \/ Within(m, link[i])
                \/ \E k \in Row :
                      /\ Kept(m, k, Image(m, link[i]))
                      /\ link[k] = Image(m, link[i]) => ~OfSources(m, link[k])
  BY <1>1, <1>2, <1>5, DoomedForAReason
<1>. HIDE DEF D
<1>6. TypeOK'
  <2>1. /\ dir' \in [Merger -> Dir]
        /\ pc' \in [Merger -> {"idle", "target", "source", "delete", "find", "move", "commit"}]
    BY <1>1, <1>2, TurnDoes DEF TypeOK
  <2>2. doomed' \in [Merger -> SUBSET Row] /\ known' \in [Merger -> SUBSET Link]
    BY <1>1, <1>2, <1>4 DEF TypeOK
  <2>. QED  BY <1>1, <1>2, <2>1, <2>2 DEF TypeOK
<1>7. LocksHeld'
  BY <1>1 DEF IInv, LocksHeld
<1>8. known'[m] \subseteq known[m] /\ (dir[m] = "to" => known'[m] = {})
  BY <1>1, <1>2 DEF TypeOK
<1>9. Stage(m)'
  BY <1>1, <1>2, <1>3, <1>8 DEF Stage
<1>10. \A i \in Row : draft[m][i] = Clean
  BY <1>1, <1>2 DEF Stage
<1>11. ASSUME NEW k \in Row, NEW l, Kept(m, k, l)  PROVE Kept(m, k, l)'
  BY <1>1, <1>4, <1>5, <1>11 DEF Kept, OfSources
<1>12. Doomed(m)' = doomed[m] \cup D /\ Doomed(m) = doomed[m]
  BY <1>1, <1>4, <1>10, LinksAssumption DEF Doomed
<1>13. ASSUME NEW i \in Doomed(m)'  PROVE Justified(m, i)'
  <2>1. i \in Row
    BY <1>2, <1>4, <1>12 DEF TypeOK
  <2>2. Image(m, link[i])' = Image(m, link[i])
        /\ Within(m, link[i])' = Within(m, link[i]) /\ Changed(m, i)' = Changed(m, i)
    BY <1>1 DEF Image, Within, Changed
  <2>3. Justified(m, i)
    BY <1>2, <1>5, <1>12, <2>1 DEF DeletesKnown, Justified
  <2>. QED  BY <1>1, <1>11, <2>2, <2>3 DEF Justified
<1>14. DeletesKnown(m)' /\ MovesKnown(m)'
  BY <1>2, <1>3, <1>8, <1>11, <1>13 DEF DeletesKnown, MovesKnown
<1>. QED
  BY <1>1, <1>2, <1>3, <1>6, <1>7, <1>9, <1>14, StatementPreserves DEF Knows, TypeOK

\* The doomed rows that are still there are locked and dropped.
LEMMA DeleteRowsPreserves ==
  ASSUME IInv, NEW m \in Merger, DeleteRows(m)
  PROVE  IInv'
<1>1. /\ pc[m] = "delete" /\ pc' = [pc EXCEPT ![m] = "find"]
      /\ \A i \in doomed[m] : ~LockedForMerge(m, i)
      /\ draft' = [draft EXCEPT ![m] = [i \in Row |->
            IF i \in doomed[m] /\ link[i] \in Link THEN Dropped ELSE @[i]]]
      /\ doomed' = [doomed EXCEPT ![m] = {}]
      /\ UNCHANGED <<table, dir, target, sources, known, found, users, history, bounds>>
  BY DEF DeleteRows
<1>2. Stage(m) /\ DeletesKnown(m) /\ TypeOK /\ LocksHeld
  BY DEF IInv, Knows
<1>3. \A i \in Row : draft[m][i] = Clean
  BY <1>1, <1>2 DEF Stage
<1>4. \A i \in Row : draft'[m][i] =
          IF i \in doomed[m] /\ link[i] \in Link THEN Dropped ELSE draft[m][i]
  BY <1>1, <1>2 DEF TypeOK
<1>5. TypeOK'
  <2>1. draft' \in [Merger -> [Row -> Link \cup {Dropped, Clean}]]
    BY <1>1, <1>2 DEF TypeOK
  <2>2. /\ pc' \in [Merger -> {"idle", "target", "source", "delete", "find", "move", "commit"}]
        /\ doomed' \in [Merger -> SUBSET Row]
    BY <1>1, <1>2 DEF TypeOK
  <2>. QED  BY <1>1, <1>2, <2>1, <2>2 DEF TypeOK
<1>6. LocksHeld'
  <2>. SUFFICES ASSUME NEW n \in Merger, NEW i \in Row, draft'[n][i] # Clean
       PROVE  link[i] \in Link /\ \A o \in Merger \ {n} : draft'[o][i] = Clean
    BY <1>1 DEF LocksHeld
  <2>1. \A o \in Merger \ {m} : draft'[o] = draft[o]
    BY <1>1, <1>2 DEF TypeOK
  <2>2. CASE n = m
    <3>1. i \in doomed[m] /\ link[i] \in Link
      BY <1>3, <1>4, <2>2
    <3>. QED  BY <1>1, <2>1, <2>2, <3>1 DEF LockedForMerge
  <2>3. CASE n # m
    <3>1. i \notin doomed[m]
      BY <1>1, <2>1, <2>3 DEF LockedForMerge
    <3>. QED  BY <1>2, <1>4, <2>1, <2>3, <3>1 DEF LocksHeld
  <2>. QED  BY <2>2, <2>3
<1>7. pc'[m] = "find" /\ doomed'[m] = {} /\ dir[m] = "from"
  BY <1>1, <1>2 DEF Stage, TypeOK
<1>8. Stage(m)'
  BY <1>1, <1>2, <1>7 DEF Stage
<1>9. known'[m] = {}
  BY <1>1, <1>2 DEF Stage
<1>10. Doomed(m)' \subseteq doomed[m] /\ doomed[m] \subseteq Doomed(m)
  BY <1>3, <1>4, <1>7, LinksAssumption DEF Doomed
<1>11. ASSUME NEW i \in Doomed(m)'  PROVE Justified(m, i)'
  <2>1. i \in Row /\ Justified(m, i)
    BY <1>2, <1>10 DEF TypeOK, DeletesKnown
  <2>2. Image(m, link[i])' = Image(m, link[i])
        /\ Within(m, link[i])' = Within(m, link[i]) /\ Changed(m, i)' = Changed(m, i)
    BY <1>1 DEF Image, Within, Changed
  <2>3. ASSUME link[i] \in Link, NEW k \in Row, Kept(m, k, Image(m, link[i]))
        PROVE  Kept(m, k, Image(m, link[i]))'
    <3>1. ~OfSources(m, Image(m, link[i]))
      BY <1>1, <1>2, <2>3, ImageClear DEF Stage
    <3>. QED  BY <1>1, <1>4, <1>7, <2>2, <2>3, <3>1 DEF Kept
  <2>. QED  BY <1>1, <2>1, <2>2, <2>3 DEF Justified
<1>12. DeletesKnown(m)' /\ MovesKnown(m)'
  BY <1>1, <1>7, <1>9, <1>11 DEF DeletesKnown, MovesKnown
<1>. QED
  BY <1>1, <1>2, <1>5, <1>6, <1>8, <1>12, StatementPreserves DEF Knows, TypeOK

\* What the update finds is all that its condition holds of.
LEMMA FindRowsPreserves ==
  ASSUME IInv, NEW m \in Merger, FindRows(m)
  PROVE  IInv'
<1>1. /\ pc[m] = "find" /\ pc' = [pc EXCEPT ![m] = "move"]
      /\ found' = [found EXCEPT ![m] = Touching(m, dir[m], sources[m])]
      /\ late' = [late EXCEPT ![m][dir[m]] = {}]
      /\ UNCHANGED <<table, dir, target, sources, known, doomed, draft, users, overwritten, bounds>>
  BY DEF FindRows
<1>2. Knows(m) /\ TypeOK /\ dir[m] \in Dir
  BY DEF IInv, TypeOK
<1>3. TypeOK'
  <2>1. found' \in [Merger -> SUBSET Row]
    BY <1>1, <1>2 DEF TypeOK, Touching
  <2>2. late' \in [Merger -> [Dir -> SUBSET Row]]
    BY <1>1, <1>2 DEF TypeOK
  <2>. QED  BY <1>1, <1>2, <2>1, <2>2 DEF TypeOK
<1>4. LocksHeld'
  BY <1>1 DEF IInv, LocksHeld
<1>5. pc'[m] = "move" /\ found'[m] = Touching(m, dir[m], sources[m])
      /\ \A d \in Dir : d # dir[m] => late'[m][d] = late[m][d]
  BY <1>1, <1>2 DEF TypeOK
<1>6. Stage(m)'
  BY <1>1, <1>2, <1>5 DEF Knows, Stage
<1>7. DeletesKnown(m)'
  <2>1. \A k \in Row : \A l : Kept(m, k, l)' <=> Kept(m, k, l)
    BY <1>1 DEF Kept, OfSources
  <2>2. Doomed(m)' = Doomed(m) /\ Doomed(m) \subseteq Row
    BY <1>1, <1>2 DEF Doomed, TypeOK
  <2>3. ASSUME NEW i \in Row, Justified(m, i)  PROVE Justified(m, i)'
    <3>1. Image(m, link[i])' = Image(m, link[i])
          /\ Within(m, link[i])' = Within(m, link[i]) /\ Changed(m, i)' = Changed(m, i)
      BY <1>1 DEF Image, Within, Changed
    <3>. QED  BY <1>1, <2>1, <2>3, <3>1 DEF Justified
  <2>. QED  BY <1>1, <1>2, <2>1, <2>2, <2>3 DEF Knows, DeletesKnown
<1>8. MovesKnown(m)'
  <2>1. \A d \in Dir : Touching(m, d, sources[m])' = Touching(m, d, sources[m])
    BY <1>1 DEF Touching, View
  <2>2. dir[m] = "to" => late'[m]["from"] = late[m]["from"]
    BY <1>5 DEF Dir
  <2>. QED  BY <1>1, <1>2, <1>5, <2>1, <2>2 DEF Knows, MovesKnown, Dir
<1>. QED
  BY <1>1, <1>2, <1>3, <1>4, <1>6, <1>7, <1>8, StatementPreserves DEF Knows, TypeOK

\* What the update writes, and which links it leaves on the sources.
LEMMA MovedRows ==
  ASSUME TypeOK, LocksHeld, NEW m \in Merger, Stage(m), pc[m] = "move", NEW i \in Row
  PROVE  LET mine == i \in found[m] \cap Touching(m, dir[m], sources[m])
         IN  /\ ~mine => Moved(m, i) = draft[m][i]
             /\ mine => /\ Moved(m, i) \in Link /\ link[i] \in Link
                        /\ End(Moved(m, i), dir[m]) \notin sources[m]
                        /\ End(Moved(m, i), Opposite(dir[m]))
                             = End(View(m, i), Opposite(dir[m]))
<1>1. target[m] \in Task \ sources[m] /\ dir[m] \in Dir
  BY DEF Stage, TypeOK
<1>2. CASE i \in found[m] \cap Touching(m, dir[m], sources[m])
  <2>1. View(m, i) \in Link /\ Moved(m, i) = WithEnd(View(m, i), dir[m], target[m])
    BY <1>2 DEF Touching, Moved
  <2>2. link[i] \in Link
    BY <2>1 DEF View, LocksHeld
  <2>3. /\ Moved(m, i) \in Link
        /\ End(Moved(m, i), dir[m]) = target[m]
        /\ End(Moved(m, i), Opposite(dir[m])) = End(View(m, i), Opposite(dir[m]))
    BY <1>1, <2>1, Ends
  <2>. QED  BY <1>1, <1>2, <2>2, <2>3
<1>3. CASE i \notin found[m] \cap Touching(m, dir[m], sources[m])
  BY <1>3 DEF Moved
<1>. QED  BY <1>2, <1>3

\* After the update no link has its end at a source, but the late ones.
LEMMA MoveRowsPreserves ==
  ASSUME IInv, NEW m \in Merger, MoveRows(m)
  PROVE  IInv'
<1>. DEFINE F == found[m] \cap Touching(m, dir[m], sources[m])
<1>1. /\ pc[m] = "move" /\ Turn(m, "find", "commit")
      /\ \A i \in found[m] : ~LockedForMerge(m, i)
      /\ draft' = [draft EXCEPT ![m] = [i \in Row |-> Moved(m, i)]]
      /\ found' = [found EXCEPT ![m] = {}]
      /\ UNCHANGED <<table, target, sources, known, doomed, users, history, bounds>>
  BY DEF MoveRows
<1>2. Knows(m) /\ Stage(m) /\ DeletesKnown(m) /\ TypeOK /\ LocksHeld /\ dir[m] \in Dir
  BY DEF IInv, Knows, TypeOK
<1>3. \A i \in Row : draft'[m][i] = Moved(m, i)
  BY <1>1, <1>2 DEF TypeOK
<1>4. \A n \in Merger \ {m} : draft'[n] = draft[n]
  BY <1>1, <1>2 DEF TypeOK
<1>5. \A i \in Row \ F : draft'[m][i] = draft[m][i]
  BY <1>1, <1>2, <1>3, MovedRows
<1>6. ASSUME NEW i \in Row \cap F
      PROVE  /\ draft'[m][i] \in Link /\ link[i] \in Link
             /\ End(draft'[m][i], dir[m]) \notin sources[m]
             /\ End(draft'[m][i], Opposite(dir[m])) = End(View(m, i), Opposite(dir[m]))
  BY <1>1, <1>2, <1>3, <1>6, MovedRows
<1>7. /\ dir'[m] \in Dir
      /\ dir[m] = "from" => pc'[m] = "find" /\ dir'[m] = "to"
      /\ dir[m] # "from" => pc'[m] = "commit" /\ dir[m] = "to" /\ dir'[m] = "from"
      /\ \A n \in Merger \ {m} : pc'[n] = pc[n] /\ dir'[n] = dir[n]
  BY <1>1, <1>2, TurnDoes
<1>8. TypeOK'
  <2>1. /\ dir' \in [Merger -> Dir]
        /\ pc' \in [Merger -> {"idle", "target", "source", "delete", "find", "move", "commit"}]
    BY <1>1, <1>2, TurnDoes DEF TypeOK
  <2>2. \A i \in Row : Moved(m, i) \in Link \cup {Dropped, Clean}
    <3>1. \A i \in Row : draft[m][i] \in Link \cup {Dropped, Clean}
      BY <1>2 DEF TypeOK
    <3>. HIDE DEF F
    <3>. QED  BY <1>3, <1>5, <1>6, <3>1
  <2>3. draft' \in [Merger -> [Row -> Link \cup {Dropped, Clean}]]
    BY <1>1, <1>2, <2>2 DEF TypeOK
  <2>4. found' \in [Merger -> SUBSET Row]
    BY <1>1, <1>2 DEF TypeOK
  <2>. QED  BY <1>1, <1>2, <2>1, <2>3, <2>4 DEF TypeOK
<1>9. LocksHeld'
  <2>. SUFFICES ASSUME NEW n \in Merger, NEW i \in Row, draft'[n][i] # Clean
       PROVE  link[i] \in Link /\ \A o \in Merger \ {n} : draft'[o][i] = Clean
    BY <1>1 DEF LocksHeld
  <2>1. CASE n = m /\ i \in F
    BY <1>1, <1>4, <1>6, <2>1 DEF LockedForMerge
  <2>2. CASE n = m /\ i \notin F
    BY <1>2, <1>4, <1>5, <2>2 DEF LocksHeld
  <2>3. CASE n # m
    <3>1. i \notin F
      BY <1>1, <1>4, <2>3 DEF LockedForMerge
    <3>. QED  BY <1>2, <1>4, <1>5, <2>3, <3>1 DEF LocksHeld
  <2>. QED  BY <2>1, <2>2, <2>3
<1>10. known'[m] = {} /\ doomed'[m] = doomed[m] /\ found'[m] = {}
  BY <1>1, <1>2 DEF Stage, TypeOK
<1>11. Stage(m)'
  BY <1>1, <1>2, <1>7, <1>10 DEF Stage
<1>12. \A i \in Row : draft'[m][i] = Dropped => draft[m][i] = Dropped
  BY <1>5, <1>6, LinksAssumption
<1>13. ASSUME NEW i \in Doomed(m)'  PROVE Justified(m, i)'
  <2>1. i \in Row /\ Justified(m, i)
    BY <1>2, <1>10, <1>12 DEF TypeOK, DeletesKnown, Doomed
  <2>2. Image(m, link[i])' = Image(m, link[i])
        /\ Within(m, link[i])' = Within(m, link[i]) /\ Changed(m, i)' = Changed(m, i)
    BY <1>1 DEF Image, Within, Changed
  <2>3. ASSUME link[i] \in Link, NEW k \in Row, Kept(m, k, Image(m, link[i]))
        PROVE  Kept(m, k, Image(m, link[i]))'
    <3>1. Image(m, link[i]) \in Link /\ ~OfSources(m, Image(m, link[i]))
      BY <1>1, <1>2, <2>3, ImageClear DEF Stage
    <3>2. link[k] = Image(m, link[i]) /\ draft[m][k] = Clean => k \notin F
      BY <1>2, <3>1 DEF Touching, View, OfSources, End
    <3>. QED  BY <1>1, <1>5, <1>10, <2>2, <2>3, <3>2 DEF Kept, OfSources
  <2>. QED  BY <1>1, <2>1, <2>2, <2>3 DEF Justified
<1>14. DeletesKnown(m)'
  BY <1>10, <1>13 DEF DeletesKnown
<1>15. ASSUME NEW d \in Dir, NEW i \in Touching(m, d, sources[m])'
       PROVE  i \in Touching(m, d, sources[m]) /\ (d = dir[m] => i \in late[m][d])
  <2>1. i \in Row /\ View(m, i)' \in Link /\ End(View(m, i)', d) \in sources[m]
    BY <1>1 DEF Touching
  <2>2. CASE i \in F
    <3>1. View(m, i)' = draft'[m][i]
      BY <1>6, <2>1, <2>2, LinksAssumption DEF View
    <3>2. d = Opposite(dir[m]) /\ d # dir[m]
      BY <1>2, <1>6, <2>1, <2>2, <3>1 DEF Dir, Opposite
    <3>. QED  BY <1>6, <2>1, <2>2, <3>1, <3>2 DEF Touching
  <2>3. CASE i \notin F
    <3>1. View(m, i)' = View(m, i)
      BY <1>1, <1>5, <2>1, <2>3 DEF View
    <3>2. i \in Touching(m, d, sources[m])
      BY <2>1, <3>1 DEF Touching
    <3>. QED  BY <1>1, <1>2, <2>3, <3>2 DEF Knows, MovesKnown
  <2>. QED  BY <2>2, <2>3
<1>16. MovesKnown(m)'
  BY <1>1, <1>2, <1>7, <1>15 DEF Knows, MovesKnown, Dir
<1>. QED
  BY <1>1, <1>2, <1>4, <1>7, <1>8, <1>9, <1>11, <1>14, <1>16, StatementPreserves
  DEF Knows, TypeOK

\* The end of a merge leaves nothing to know of it.
LEMMA FinishDoes ==
  ASSUME TypeOK, NEW m \in Merger, Finish(m)
  PROVE  /\ Knows(m)'
         /\ \A i \in Row : draft'[m][i] = Clean
         /\ \A n \in Merger \ {m} :
               /\ pc'[n] = pc[n] /\ dir'[n] = dir[n]
               /\ target'[n] = target[n] /\ sources'[n] = sources[n]
               /\ known'[n] = known[n] /\ doomed'[n] = doomed[n] /\ found'[n] = found[n]
               /\ draft'[n] = draft[n]
<1>1. /\ pc'[m] = "idle" /\ dir'[m] = "from" /\ known'[m] = {} /\ doomed'[m] = {}
      /\ \A i \in Row : draft'[m][i] = Clean
  BY DEF Finish, TypeOK
<1>2. Stage(m)'
  BY <1>1 DEF Stage
<1>3. DeletesKnown(m)' /\ MovesKnown(m)'
  BY <1>1, LinksAssumption DEF DeletesKnown, Doomed, MovesKnown
<1>4. /\ \A n \in Merger \ {m} : pc'[n] = pc[n] /\ dir'[n] = dir[n]
      /\ \A n \in Merger \ {m} : target'[n] = target[n] /\ sources'[n] = sources[n]
      /\ \A n \in Merger \ {m} : known'[n] = known[n] /\ doomed'[n] = doomed[n]
      /\ \A n \in Merger \ {m} : found'[n] = found[n] /\ draft'[n] = draft[n]
  BY DEF Finish, TypeOK
<1>. QED  BY <1>1, <1>2, <1>3, <1>4 DEF Knows

LEMMA FinishTypes ==
  ASSUME TypeOK, NEW m \in Merger, Finish(m)
  PROVE  /\ pc' \in [Merger -> {"idle", "target", "source", "delete", "find", "move", "commit"}]
         /\ dir' \in [Merger -> Dir]
         /\ target' \in [Merger -> Task \cup {NoTask}]
         /\ sources' \in [Merger -> SUBSET Task]
         /\ known' \in [Merger -> SUBSET Link]
         /\ doomed' \in [Merger -> SUBSET Row]
         /\ found' \in [Merger -> SUBSET Row]
         /\ draft' \in [Merger -> [Row -> Link \cup {Dropped, Clean}]]
<1>1. /\ pc' \in [Merger -> {"idle", "target", "source", "delete", "find", "move", "commit"}]
      /\ dir' \in [Merger -> Dir]
      /\ target' \in [Merger -> Task \cup {NoTask}]
      /\ sources' \in [Merger -> SUBSET Task]
  BY DEF Finish, TypeOK, Dir
<1>2. /\ known' \in [Merger -> SUBSET Link]
      /\ doomed' \in [Merger -> SUBSET Row]
      /\ found' \in [Merger -> SUBSET Row]
      /\ draft' \in [Merger -> [Row -> Link \cup {Dropped, Clean}]]
  BY DEF Finish, TypeOK
<1>. QED  BY <1>1, <1>2

\* Histories keep their types.
LEMMA NoticeTypes ==
  ASSUME TypeOK, NEW n, NEW W \in SUBSET Row, Notice(n, W)
  PROVE  /\ late' \in [Merger -> [Dir -> SUBSET Row]]
         /\ overwritten' \in [Merger -> SUBSET (Row \X Link)]
  BY DEF Notice, TypeOK

\* Others learn of the rows of a merge that commits; none of them is theirs.
LEMMA CommitMergePreserves ==
  ASSUME IInv, NEW m \in Merger, CommitMerge(m)
  PROVE  IInv'
<1>. DEFINE W == {i \in Row : draft[m][i] # Clean}
<1>1. /\ link' = [i \in Row |-> View(m, i)]
      /\ gone' = gone \cup sources[m]
      /\ Notice(m, W) /\ Finish(m)
      /\ UNCHANGED <<users, bounds>>
  BY DEF CommitMerge
<1>2. TypeOK /\ LocksHeld
  BY DEF IInv
<1>3. \A i \in Row \ W : link'[i] = link[i]
  BY <1>1 DEF View
<1>4. \A n \in Merger \ {m} : \A i \in W : draft[n][i] = Clean
  BY <1>2 DEF LocksHeld
<1>. HIDE DEF W
<1>5. W \in SUBSET Row
  BY DEF W
<1>6. TypeOK'
  <2>1. \A i \in Row : View(m, i) \in Link \cup {Free, Dropped}
    <3>. SUFFICES ASSUME NEW i \in Row  PROVE View(m, i) \in Link \cup {Free, Dropped}
      OBVIOUS
    <3>1. draft[m][i] \in Link \cup {Dropped, Clean} /\ link[i] \in Link \cup {Free, Dropped}
      BY <1>2 DEF TypeOK
    <3>. QED  BY <3>1 DEF View
  <2>2. link' \in [Row -> Link \cup {Free, Dropped}] /\ gone' \subseteq Task
    BY <1>1, <1>2, <2>1 DEF TypeOK
  <2>3. /\ late' \in [Merger -> [Dir -> SUBSET Row]]
        /\ overwritten' \in [Merger -> SUBSET (Row \X Link)]
    BY <1>1, <1>2, <1>5, NoticeTypes
  <2>4. /\ pc' \in [Merger -> {"idle", "target", "source", "delete", "find", "move", "commit"}]
        /\ dir' \in [Merger -> Dir]
        /\ target' \in [Merger -> Task \cup {NoTask}]
        /\ sources' \in [Merger -> SUBSET Task]
        /\ known' \in [Merger -> SUBSET Link]
        /\ doomed' \in [Merger -> SUBSET Row]
        /\ found' \in [Merger -> SUBSET Row]
        /\ draft' \in [Merger -> [Row -> Link \cup {Dropped, Clean}]]
    BY <1>1, <1>2, FinishTypes
  <2>. QED  BY <1>1, <1>2, <2>2, <2>3, <2>4 DEF TypeOK
<1>7. Knows(m)' /\ \A i \in Row : draft'[m][i] = Clean
  BY <1>1, <1>2, FinishDoes
<1>8. ASSUME NEW n \in Merger \ {m}
      PROVE  /\ pc'[n] = pc[n] /\ dir'[n] = dir[n]
             /\ target'[n] = target[n] /\ sources'[n] = sources[n]
             /\ known'[n] = known[n] /\ doomed'[n] = doomed[n] /\ found'[n] = found[n]
             /\ draft'[n] = draft[n]
  BY <1>1, <1>2, <1>8, FinishDoes
<1>9. LocksHeld'
  <2>. SUFFICES ASSUME NEW n \in Merger, NEW i \in Row, draft'[n][i] # Clean
       PROVE  link'[i] \in Link /\ \A o \in Merger \ {n} : draft'[o][i] = Clean
    BY DEF LocksHeld
  <2>1. n # m /\ draft[n][i] # Clean
    BY <1>7, <1>8
  <2>2. i \notin W
    BY <1>4, <2>1
  <2>. QED  BY <1>2, <1>3, <1>7, <1>8, <2>1, <2>2 DEF LocksHeld
<1>10. ASSUME NEW n \in Merger \ {m}  PROVE Knows(n)'
  <2>1. Knows(n)
    BY DEF IInv
  <2>. QED  BY <1>1, <1>2, <1>3, <1>4, <1>5, <1>8, <2>1, NoticeKeepsKnows
<1>. QED  BY <1>6, <1>7, <1>9, <1>10 DEF IInv

LEMMA MergeFailsPreserves ==
  ASSUME IInv, NEW m \in Merger, MergeFails(m)
  PROVE  IInv'
<1>1. /\ late' = [late EXCEPT ![m] = [d \in Dir |-> {}]]
      /\ overwritten' = [overwritten EXCEPT ![m] = {}]
      /\ Finish(m) /\ UNCHANGED <<table, users, bounds>>
  BY DEF MergeFails
<1>2. TypeOK /\ LocksHeld
  BY DEF IInv
<1>3. /\ Knows(m)' /\ \A i \in Row : draft'[m][i] = Clean
      /\ \A n \in Merger \ {m} :
            /\ pc'[n] = pc[n] /\ dir'[n] = dir[n]
            /\ target'[n] = target[n] /\ sources'[n] = sources[n]
            /\ known'[n] = known[n] /\ doomed'[n] = doomed[n] /\ found'[n] = found[n]
            /\ draft'[n] = draft[n]
  BY <1>1, <1>2, FinishDoes
<1>4. TypeOK'
  <2>1. /\ pc' \in [Merger -> {"idle", "target", "source", "delete", "find", "move", "commit"}]
        /\ dir' \in [Merger -> Dir]
        /\ target' \in [Merger -> Task \cup {NoTask}]
        /\ sources' \in [Merger -> SUBSET Task]
        /\ known' \in [Merger -> SUBSET Link]
        /\ doomed' \in [Merger -> SUBSET Row]
        /\ found' \in [Merger -> SUBSET Row]
        /\ draft' \in [Merger -> [Row -> Link \cup {Dropped, Clean}]]
    BY <1>1, <1>2, FinishTypes
  <2>2. /\ late' \in [Merger -> [Dir -> SUBSET Row]]
        /\ overwritten' \in [Merger -> SUBSET (Row \X Link)]
    BY <1>1, <1>2 DEF TypeOK
  <2>. QED  BY <1>1, <1>2, <2>1, <2>2 DEF TypeOK
<1>5. LocksHeld'
  BY <1>1, <1>2, <1>3 DEF LocksHeld
<1>6. \A n \in Merger \ {m} : late'[n] = late[n] /\ overwritten'[n] = overwritten[n]
  BY <1>1, <1>2 DEF TypeOK
<1>. QED  BY <1>1, <1>3, <1>4, <1>5, <1>6, StatementPreserves

-----------------------------------------------------------------------------
(* Users and automations.                                                  *)

\* A request that writes one row which no merge has locked.
LEMMA RowWritten ==
  ASSUME IInv, TypeOK', NEW i \in Row, \A m \in Merger : draft[m][i] = Clean,
         \A j \in Row \ {i} : link'[j] = link[j],
         Notice(NoTask, {i}), UNCHANGED merges
  PROVE  IInv'
<1>1. LocksHeld'
  BY DEF IInv, LocksHeld
<1>2. ASSUME NEW m \in Merger  PROVE Knows(m)'
  <2>1. TypeOK /\ LocksHeld /\ Knows(m) /\ NoTask # m
    BY LinksAssumption DEF IInv
  <2>. QED  BY <2>1, NoticeKeepsKnows
<1>. QED  BY <1>1, <1>2 DEF IInv

\* A new row is nobody's.
LEMMA InsertPreserves ==
  ASSUME IInv, NEW l \in Link, Insert(l), UNCHANGED <<gone, merges>>,
         /\ upc' \in [User -> {"idle", "pair", "insert", "delete"}]
         /\ edge' \in [User -> Link \cup {NoLink}]
         /\ row' \in [User -> Row \cup {NoRow}]
         /\ \A u \in User : /\ upc'[u] \in {"pair", "insert"} => edge'[u] \in Link
                            /\ upc'[u] = "delete" => row'[u] \in Row,
         started' \in Nat, edits' \in Nat
  PROVE  IInv'
<1>1. PICK i \in Row : link[i] = Free /\ link' = [link EXCEPT ![i] = l] /\ Notice(NoTask, {i})
  BY DEF Insert
<1>2. TypeOK /\ LocksHeld
  BY DEF IInv
<1>3. \A m \in Merger : draft[m][i] = Clean
  BY <1>1, <1>2, LinksAssumption DEF LocksHeld
<1>4. /\ late' \in [Merger -> [Dir -> SUBSET Row]]
      /\ overwritten' \in [Merger -> SUBSET (Row \X Link)]
  BY <1>1, <1>2, NoticeTypes
<1>5. link' \in [Row -> Link \cup {Free, Dropped}] /\ \A j \in Row \ {i} : link'[j] = link[j]
  BY <1>1, <1>2 DEF TypeOK
<1>6. TypeOK'
  BY <1>2, <1>4, <1>5 DEF TypeOK
<1>. QED  BY <1>1, <1>3, <1>5, <1>6, RowWritten

\* The end of a user's request.
LEMMA DoneDoes ==
  ASSUME TypeOK, NEW u \in User, Done(u)
  PROVE  /\ upc' \in [User -> {"idle", "pair", "insert", "delete"}]
         /\ edge' \in [User -> Link \cup {NoLink}]
         /\ row' \in [User -> Row \cup {NoRow}]
         /\ \A v \in User : /\ upc'[v] \in {"pair", "insert"} => edge'[v] \in Link
                            /\ upc'[v] = "delete" => row'[v] \in Row
  BY DEF Done, TypeOK

LEMMA DeleteLinkPreserves ==
  ASSUME IInv, NEW u \in User, DeleteLink(u)
  PROVE  IInv'
<1>1. /\ upc[u] = "delete" /\ ~Locked(row[u])
      /\ link' = [link EXCEPT ![row[u]] = Dropped]
      /\ Notice(NoTask, {row[u]}) /\ Done(u) /\ UNCHANGED <<gone, merges, bounds>>
  BY DEF DeleteLink
<1>2. TypeOK /\ row[u] \in Row
  BY <1>1 DEF IInv, TypeOK
<1>3. /\ late' \in [Merger -> [Dir -> SUBSET Row]]
      /\ overwritten' \in [Merger -> SUBSET (Row \X Link)]
  BY <1>1, <1>2, NoticeTypes
<1>4. /\ link' \in [Row -> Link \cup {Free, Dropped}]
      /\ \A j \in Row \ {row[u]} : link'[j] = link[j]
  BY <1>1, <1>2 DEF TypeOK
<1>5. TypeOK'
  BY <1>1, <1>2, <1>3, <1>4, DoneDoes DEF TypeOK
<1>. QED  BY <1>1, <1>2, <1>4, <1>5, RowWritten DEF Locked

\* The steps of users and automations.
LEMMA EditsPreserve ==
  ASSUME IInv,
         \/ AddTaskLink \/ RemoveTask
         \/ \E u \in User : AskLink(u) \/ FindPair(u) \/ InsertLink(u)
                            \/ AskRemove(u) \/ DeleteLink(u) \/ UserFails(u)
  PROVE  IInv'
<1>. USE DEF IInv
<1>1. CASE AddTaskLink
  <2>1. started' \in Nat /\ edits' \in Nat
    BY <1>1 DEF AddTaskLink, Edit, TypeOK
  <2>2. PICK l \in Link : Insert(l)
    BY <1>1 DEF AddTaskLink
  <2>3. UNCHANGED <<gone, merges, users>>
    BY <1>1 DEF AddTaskLink
  <2>4. /\ upc' \in [User -> {"idle", "pair", "insert", "delete"}]
        /\ edge' \in [User -> Link \cup {NoLink}]
        /\ row' \in [User -> Row \cup {NoRow}]
        /\ \A u \in User : /\ upc'[u] \in {"pair", "insert"} => edge'[u] \in Link
                           /\ upc'[u] = "delete" => row'[u] \in Row
    BY <2>3 DEF TypeOK
  <2>. QED  BY <2>1, <2>2, <2>3, <2>4, InsertPreserves
<1>2. CASE RemoveTask
  <2>1. TypeOK'
    BY <1>2 DEF RemoveTask, Edit, TypeOK
  <2>. QED  BY <1>2, <2>1, LinksStay DEF RemoveTask
<1>3. ASSUME NEW u \in User, AskLink(u)  PROVE IInv'
  <2>1. TypeOK'
    BY <1>3 DEF AskLink, Edit, TypeOK
  <2>. QED  BY <1>3, <2>1, LinksStay DEF AskLink
<1>4. ASSUME NEW u \in User, FindPair(u)  PROVE IInv'
  <2>1. TypeOK'
    BY <1>4 DEF FindPair, TypeOK
  <2>. QED  BY <1>4, <2>1, LinksStay DEF FindPair
<1>5. ASSUME NEW u \in User, InsertLink(u)  PROVE IInv'
  <2>1. edge[u] \in Link /\ Insert(edge[u]) /\ Done(u) /\ UNCHANGED <<gone, merges, bounds>>
    BY <1>5 DEF InsertLink, TypeOK
  <2>2. started' \in Nat /\ edits' \in Nat
    BY <2>1 DEF TypeOK
  <2>. QED  BY <2>1, <2>2, DoneDoes, InsertPreserves
<1>6. ASSUME NEW u \in User, AskRemove(u)  PROVE IInv'
  <2>1. TypeOK'
    BY <1>6 DEF AskRemove, Edit, TypeOK
  <2>. QED  BY <1>6, <2>1, LinksStay DEF AskRemove
<1>7. ASSUME NEW u \in User, UserFails(u)  PROVE IInv'
  <2>1. Done(u) /\ UNCHANGED <<table, merges, history, bounds>>
    BY <1>7 DEF UserFails
  <2>2. TypeOK'
    BY <2>1, DoneDoes DEF TypeOK
  <2>. QED  BY <2>1, <2>2, LinksStay
<1>. QED  BY <1>1, <1>2, <1>3, <1>4, <1>5, <1>6, <1>7, DeleteLinkPreserves

-----------------------------------------------------------------------------
(* The theorems.                                                           *)

LEMMA NextIInv == IInv /\ [Next]_vars => IInv'
<1>1. ASSUME IInv, UNCHANGED vars  PROVE IInv'
  <2>1. TypeOK'
    BY <1>1 DEF vars, IInv, TypeOK
  <2>. QED  BY <1>1, <2>1, LinksStay DEF vars
<1>2. ASSUME IInv, NEW m \in Merger,
             \/ StartMerge(m) \/ ReadTarget(m) \/ ReadSource(m) \/ DeleteRows(m)
             \/ FindRows(m) \/ MoveRows(m) \/ CommitMerge(m) \/ MergeFails(m)
      PROVE  IInv'
  BY <1>2, StartMergePreserves, ReadTargetPreserves, ReadSourcePreserves, DeleteRowsPreserves,
     FindRowsPreserves, MoveRowsPreserves, CommitMergePreserves, MergeFailsPreserves
<1>. QED  BY <1>1, <1>2, EditsPreserve DEF Next

\* The inductive invariant holds always: the types, one transaction to a
\* locked row, and what a merge knows between its statements.
THEOREM LinksInvariant == Spec => []IInv
BY InitIInv, NextIInv, PTL DEF Spec

\* moveEdgesForMerge leaves no link on the merged tasks, but those that
\* others commit after its update has looked for the links to move.
THEOREM LinksMove == Spec => []LinksFollowMerge
<1>1. IInv => LinksFollowMerge
  BY DEF IInv, Knows, MovesKnown, LinksFollowMerge, Dir
<1>. QED  BY <1>1, LinksInvariant, PTL

\* moveEdgesForMerge deletes a link only when it is among the merged tasks
\* or the target has the same one, unless others changed either meanwhile.
THEOREM LinksNoneLost == Spec => []NoLinkLost
<1>1. ASSUME IInv, NEW m \in Merger, pc[m] = "commit", NEW i \in Row, draft[m][i] = Dropped
      PROVE  \/ Within(m, link[i])
             \/ \E k \in Row : View(m, k) = Image(m, link[i])
             \/ \E k \in Row : <<k, Image(m, link[i])>> \in overwritten[m]
             \/ \E l \in Link : <<i, l>> \in overwritten[m]
  <2>1. Justified(m, i)
    BY <1>1 DEF IInv, Knows, DeletesKnown, Doomed
  <2>. QED  BY <2>1 DEF Justified, Changed, Kept, View
<1>2. IInv => NoLinkLost
  BY <1>1 DEF NoLinkLost
<1>. QED  BY <1>2, LinksInvariant, PTL
=============================================================================
