----------------------------- MODULE SchemaProofs -----------------------------
(* Theorems about Schema, for any processes, initial files and bounds.       *)
EXTENDS Schema, TLAPS

-----------------------------------------------------------------------------
(* The inductive invariant.                                                *)

TransactionSteps == {"read", "migrate", "record", "commit"}

\* A file of a version: nothing beyond the version, nothing of it missing that no reset
\* drops.
Holds(f, v) == Kept(Complete(v)) \subseteq f.objects /\ f.objects \subseteq Complete(v)

\* The version that counts from the latest one on is the one in schema_meta, which no
\* reset drops.
Recording(f) == CurrentVersion(f) >= Latest => f.schemaMeta # None

Sound(f) == Holds(f, CurrentVersion(f)) /\ Recording(f)

\* A process is inside the transaction exactly as long as it holds the lock.
Exclusive == \A p \in Proc : lock = p <=> pc[p] \in TransactionSteps

\* What the transaction has made of the file so far: everything of the version it has
\* reached, and between a migration and its record everything of the next one.
Drafted ==
    \A p \in Proc :
        /\ pc[p] = "read" => draft = file
        /\ pc[p] \in {"migrate", "record"} => version[p] < Latest
        /\ pc[p] = "migrate" => CurrentVersion(draft) = version[p] /\ Holds(draft, version[p])
        /\ pc[p] = "record" => Holds(draft, version[p] + 1)
        /\ pc[p] = "commit" => draft.schemaMeta = Latest /\ Holds(draft, Latest)

\* Whoever has opened the file has left the latest version in schema_meta, and nobody
\* takes it away again: only a server that has opened the file can reset it.
Opened ==
    /\ \A p \in Proc : pc[p] \in {"open", "drop"} => file.schemaMeta = Latest
    /\ serving # {} => file.schemaMeta = Latest

IInv == TypeOK /\ Sound(file) /\ Exclusive /\ Drafted /\ Opened

-----------------------------------------------------------------------------
(* Lemmas about files and versions.                                        *)

\* Migrations are named by the version they start from.
LEMMA ObjectVersion ==
    ASSUME NEW o \in Object
    PROVE  o[2] \in 0 .. Latest - 1
<1>1. CASE o \in RetrievalTables
  BY <1>1 DEF RetrievalTables, Latest
<1>2. CASE o \in QueryTables
  BY <1>2 DEF QueryTables, Latest
<1>3. CASE o \in FunnelTables
  BY <1>3 DEF FunnelTables, Latest
<1>4. CASE o \in ClusterTables
  BY <1>4 DEF ClusterTables, Latest
<1> QED
  BY <1>1, <1>2, <1>3, <1>4 DEF Object

\* A version holds what the version before it held, and its migration's objects.
LEMMA CompleteNext ==
    ASSUME NEW v \in Nat
    PROVE  Complete(v + 1) = Complete(v) \cup Contributes(v)
<1>1. \A o \in Object : o[2] < v + 1 <=> o[2] < v \/ o[2] = v
  BY ObjectVersion DEF Latest
<1> QED
  BY <1>1 DEF Complete, Contributes

\* Applying the migration of a version makes the next one.
LEMMA MigrationHolds ==
    ASSUME NEW f, NEW g, NEW v \in Nat, Holds(f, v),
           g.objects = f.objects \cup Contributes(v)
    PROVE  Holds(g, v + 1)
<1>1. Complete(v + 1) = Complete(v) \cup Contributes(v)
  BY CompleteNext
<1>2. Kept(Complete(v + 1)) \subseteq Kept(Complete(v)) \cup Contributes(v)
  BY <1>1 DEF Kept
<1> QED
  BY <1>1, <1>2 DEF Holds

\* What a file holds does not depend on where its version is recorded.
LEMMA HoldsObjects ==
    ASSUME NEW f, NEW g, NEW v, Holds(f, v), g.objects = f.objects
    PROVE  Holds(g, v)
BY DEF Holds

\* A reset takes only objects of its tables.
LEMMA DropHolds ==
    ASSUME NEW f, NEW g, NEW v, Holds(f, v), NEW i \in DOMAIN DropOrder,
           g.objects = {o \in f.objects : o[1] # DropOrder[i]}
    PROVE  Holds(g, v)
BY DEF Holds, Kept

LEMMA CurrentVersionType ==
    ASSUME NEW f \in DatabaseFile
    PROVE  CurrentVersion(f) \in Version
BY DEF DatabaseFile, CurrentVersion, Version, Latest

\* The version in schema_meta comes first.
LEMMA RecordedVersion ==
    ASSUME NEW f \in DatabaseFile, NEW v \in Version
    PROVE  /\ Recorded(f, v) \in DatabaseFile
           /\ Recorded(f, v).objects = f.objects
           /\ Recorded(f, v).schemaMeta = v
           /\ CurrentVersion(Recorded(f, v)) = v
BY SchemaAssumption DEF Recorded, DatabaseFile, CurrentVersion, Version

\* A file that records the latest version in schema_meta is sound when it holds it.
LEMMA LatestSound ==
    ASSUME NEW f \in DatabaseFile, f.schemaMeta = Latest, Holds(f, Latest)
    PROVE  Sound(f) /\ CurrentVersion(f) = Latest
<1>1. Latest # None
  BY SchemaAssumption DEF Latest
<1> QED
  BY <1>1 DEF Sound, CurrentVersion, Recording

LEMMA DropCount == Len(DropOrder) = 10 /\ DOMAIN DropOrder = 1 .. 10
BY DEF DropOrder

-----------------------------------------------------------------------------
(* The initial states.                                                     *)

\* An initial file holds what its version says.
LEMMA InitSound ==
    ASSUME Init
    PROVE  file \in DatabaseFile /\ unclustered \in Nat /\ Sound(file)
<1>1. PICK f \in File :
         /\ file = [objects |-> Complete(f.version),
                    schemaMeta |-> IF f.records = "both" THEN f.version ELSE None,
                    meta |-> IF f.version = 0 THEN None ELSE f.version]
         /\ unclustered = f.unclustered
  BY DEF Init
<1>2. /\ f.version \in Version /\ f.unclustered \in Nat
      /\ f.version >= Latest => f.records = "both"
      /\ f.version # None
  BY SchemaAssumption DEF Version
<1>3. file \in DatabaseFile
  BY <1>1, <1>2 DEF DatabaseFile, Complete
<1>4. CurrentVersion(file) = f.version
  BY <1>1, <1>2 DEF CurrentVersion
<1>5. Holds(file, f.version)
  BY <1>1 DEF Holds, Kept
<1>6. Recording(file)
  BY <1>1, <1>2, <1>4 DEF Recording
<1> QED
  BY <1>1, <1>2, <1>3, <1>4, <1>5, <1>6 DEF Sound

LEMMA InitIInv == Init => IInv
<1> SUFFICES ASSUME Init PROVE IInv
  OBVIOUS
<1>1. file \in DatabaseFile /\ unclustered \in Nat /\ Sound(file)
  BY InitSound
<1>2. TypeOK
  BY <1>1, DropCount, SchemaAssumption DEF Init, TypeOK, Version, Latest
<1>3. Exclusive /\ Drafted /\ Opened
  BY SchemaAssumption DEF Init, Exclusive, Drafted, Opened, TransactionSteps
<1> QED
  BY <1>1, <1>2, <1>3 DEF IInv

-----------------------------------------------------------------------------
(* The steps.                                                              *)

\* A step that throws: the lock is given up if it was held, and the file stays.
LEMMA ThrowIInv ==
    ASSUME IInv, NEW p \in Proc, Throw(p), crashes' \in 0 .. MaxCrashes
    PROVE  IInv'
<1> USE DEF IInv
<1>1. /\ pc' = [pc EXCEPT ![p] = "idle"]
      /\ UNCHANGED <<file, unclustered, draft, version, drops, ops>>
      /\ serving' = serving \ {p}
      /\ lock' = IF lock = p THEN None ELSE lock
  BY DEF Throw, Goto
<1>2. TypeOK'
  BY <1>1 DEF TypeOK
<1>3. Sound(file)'
  BY <1>1
<1>4. Exclusive'
  <2> SUFFICES ASSUME NEW q \in Proc
               PROVE  (lock = q <=> pc[q] \in TransactionSteps)'
    BY DEF Exclusive
  <2>1. CASE q = p
    BY <1>1, <2>1, SchemaAssumption DEF TransactionSteps, TypeOK
  <2>2. CASE q # p
    BY <1>1, <2>2, SchemaAssumption DEF Exclusive, TypeOK
  <2> QED BY <2>1, <2>2
<1>5. Drafted'
  <2> SUFFICES ASSUME NEW q \in Proc
               PROVE  /\ pc'[q] = pc[q] \/ pc'[q] = "idle"
                      /\ version' = version /\ draft' = draft /\ file' = file
    BY DEF Drafted
  <2> QED BY <1>1 DEF TypeOK
<1>6. Opened'
  BY <1>1 DEF Opened, TypeOK
<1> QED BY <1>2, <1>3, <1>4, <1>5, <1>6

\* A reset drops a table between two transactions, and the version stays where it is.
LEMMA DropTableIInv ==
    ASSUME IInv, NEW p \in Proc, DropTable(p)
    PROVE  IInv'
<1> USE DEF IInv
<1> DEFINE i == drops[p] + 1
<1>1. /\ pc[p] = "drop" /\ lock = None /\ lock' = None
      /\ drops' = [drops EXCEPT ![p] = i]
      /\ pc' = [pc EXCEPT ![p] = IF i = 10 THEN "begin" ELSE "drop"]
      /\ UNCHANGED <<unclustered, draft, version, serving, ops, crashes>>
  BY DropCount DEF DropTable, Goto, LastDrop
<1>2. i \in 1 .. 10 /\ i \in DOMAIN DropOrder
  BY <1>1, DropCount DEF TypeOK
<1>3. \/ file' = [file EXCEPT !.meta = None]
      \/ file' = [file EXCEPT !.objects = {o \in @ : o[1] # DropOrder[i]}]
  BY DEF DropTable
<1>4. file.schemaMeta = Latest /\ Holds(file, Latest)
  <2>1. file.schemaMeta = Latest
    BY <1>1 DEF Opened
  <2>2. CurrentVersion(file) = Latest
    BY <2>1, SchemaAssumption DEF CurrentVersion, Latest
  <2> QED BY <2>1, <2>2 DEF Sound
<1>5. file' \in DatabaseFile /\ file'.schemaMeta = Latest /\ Holds(file', Latest)
  <2>1. CASE file' = [file EXCEPT !.meta = None]
    <3>1. file' \in DatabaseFile /\ file'.schemaMeta = Latest /\ file'.objects = file.objects
      BY <1>4, <2>1 DEF TypeOK, DatabaseFile
    <3> QED BY <1>4, <3>1, HoldsObjects
  <2>2. CASE file' = [file EXCEPT !.objects = {o \in @ : o[1] # DropOrder[i]}]
    <3>1. /\ file' \in DatabaseFile /\ file'.schemaMeta = Latest
          /\ file'.objects = {o \in file.objects : o[1] # DropOrder[i]}
      BY <1>4, <2>2 DEF TypeOK, DatabaseFile
    <3> QED BY <1>2, <1>4, <3>1, DropHolds
  <2> QED BY <1>3, <2>1, <2>2
<1> HIDE DEF i
<1>6. TypeOK'
  BY <1>1, <1>2, <1>5, DropCount DEF TypeOK
<1>7. Sound(file)'
  BY <1>5, LatestSound
<1>8. \A q \in Proc : pc[q] \notin TransactionSteps /\ pc'[q] \notin TransactionSteps
  BY <1>1, SchemaAssumption DEF Exclusive, TypeOK, TransactionSteps
<1>9. Exclusive'
  BY <1>1, <1>8, SchemaAssumption DEF Exclusive
<1>10. Drafted'
  BY <1>8 DEF Drafted, TransactionSteps
<1>11. Opened'
  BY <1>5 DEF Opened
<1> QED BY <1>6, <1>7, <1>9, <1>10, <1>11

\* Any step of a process that leaves the file and the lock alone, and the process
\* inside or outside the transaction as it was.
LEMMA LocalIInv ==
    ASSUME IInv, TypeOK', NEW p \in Proc,
           UNCHANGED <<file, lock>>,
           \A q \in Proc : q # p => pc'[q] = pc[q] /\ version'[q] = version[q],
           (pc[p] \in TransactionSteps) <=> (pc'[p] \in TransactionSteps),
           pc[p] \notin TransactionSteps => draft' = draft,
           /\ pc'[p] = "read" => draft' = file
           /\ pc'[p] \in {"migrate", "record"} => version'[p] < Latest
           /\ pc'[p] = "migrate" =>
                 CurrentVersion(draft') = version'[p] /\ Holds(draft', version'[p])
           /\ pc'[p] = "record" => Holds(draft', version'[p] + 1)
           /\ pc'[p] = "commit" => draft'.schemaMeta = Latest /\ Holds(draft', Latest),
           pc'[p] \in {"open", "drop"} => file.schemaMeta = Latest,
           serving' # {} => file.schemaMeta = Latest
    PROVE  IInv'
<1>1. Sound(file)'
  BY DEF IInv
<1>2. Exclusive'
  BY DEF IInv, Exclusive
<1>3. Drafted'
  <2> SUFFICES ASSUME NEW q \in Proc, q # p, pc[q] \in TransactionSteps
               PROVE  draft' = draft
    BY DEF IInv, Drafted, TransactionSteps
  <2>1. lock = q
    BY DEF IInv, Exclusive
  <2>2. pc[p] \notin TransactionSteps
    BY <2>1 DEF IInv, Exclusive
  <2> QED BY <2>2
<1>4. Opened'
  BY DEF IInv, Opened
<1> QED BY <1>1, <1>2, <1>3, <1>4 DEF IInv

LEMMA BeginTransactionIInv ==
    ASSUME IInv, NEW p \in Proc, BeginTransaction(p)
    PROVE  IInv'
<1> USE DEF IInv
<1>1. /\ pc[p] = "begin" /\ lock = None /\ lock' = p /\ draft' = file
      /\ pc' = [pc EXCEPT ![p] = "read"]
      /\ UNCHANGED <<file, unclustered, version, drops, serving, ops, crashes>>
  BY DEF BeginTransaction, Goto
<1>2. TypeOK'
  BY <1>1 DEF TypeOK
<1>3. Sound(file)'
  BY <1>1
<1>4. \A q \in Proc : pc[q] \notin TransactionSteps
  BY <1>1, SchemaAssumption DEF Exclusive
<1>5. pc'[p] = "read" /\ \A q \in Proc : q # p => pc'[q] = pc[q]
  BY <1>1 DEF TypeOK
<1>6. Exclusive'
  BY <1>1, <1>4, <1>5 DEF Exclusive, TransactionSteps
<1>7. Drafted'
  BY <1>1, <1>4, <1>5 DEF Drafted, TransactionSteps
<1>8. Opened'
  BY <1>1, <1>5 DEF Opened
<1> QED BY <1>2, <1>3, <1>6, <1>7, <1>8

\* The lock is released, and the file becomes what the transaction made of it: the
\* latest version, complete but for the tables of a reset.
LEMMA CommitIInv ==
    ASSUME IInv, NEW p \in Proc, Commit(p)
    PROVE  IInv' /\ CurrentVersion(file') = Latest
<1> USE DEF IInv
<1>1. /\ pc[p] = "commit" /\ file' = draft /\ lock' = None
      /\ pc' = [pc EXCEPT ![p] = "open"]
      /\ UNCHANGED <<unclustered, draft, version, drops, serving, ops, crashes>>
  BY DEF Commit, Goto
<1>2. TypeOK'
  BY <1>1 DEF TypeOK
<1>3. file' \in DatabaseFile /\ file'.schemaMeta = Latest /\ Holds(file', Latest)
  BY <1>1 DEF TypeOK, Drafted
<1>4. Sound(file)' /\ CurrentVersion(file') = Latest
  BY <1>3, LatestSound
<1>5. \A q \in Proc : pc'[q] \notin TransactionSteps
  <2> SUFFICES ASSUME NEW q \in Proc
               PROVE  pc'[q] \notin TransactionSteps
    OBVIOUS
  <2>1. lock = p
    BY <1>1 DEF Exclusive, TransactionSteps
  <2>2. CASE q = p
    BY <1>1, <2>2 DEF TypeOK, TransactionSteps
  <2>3. CASE q # p
    BY <1>1, <2>1, <2>3 DEF TypeOK, Exclusive
  <2> QED BY <2>2, <2>3
<1>6. Exclusive'
  BY <1>1, <1>5, SchemaAssumption DEF Exclusive
<1>7. Drafted'
  BY <1>5 DEF Drafted, TransactionSteps
<1>8. Opened'
  BY <1>3 DEF Opened
<1> QED BY <1>2, <1>4, <1>6, <1>7, <1>8

\* From the version it has read or recorded, a process migrates on or commits.
LEMMA LoopSteps ==
    ASSUME TypeOK, NEW p \in Proc, NEW v \in 0 .. Latest, Loop(p, v)
    PROVE  /\ version' = [version EXCEPT ![p] = v]
           /\ version'[p] = v /\ version' \in [Proc -> Version]
           /\ pc' = [pc EXCEPT ![p] = IF v < Latest THEN "migrate" ELSE "commit"]
           /\ pc'[p] = (IF v < Latest THEN "migrate" ELSE "commit")
           /\ \A q \in Proc : q # p => pc'[q] = pc[q] /\ version'[q] = version[q]
<1>1. version \in [Proc -> Version] /\ v \in Version
  BY DEF TypeOK, Version, Latest
<1>2. /\ version' = [version EXCEPT ![p] = v]
      /\ pc' = [pc EXCEPT ![p] = IF v < Latest THEN "migrate" ELSE "commit"]
  BY DEF Loop, Goto, Outdated
<1> QED BY <1>1, <1>2 DEF TypeOK

LEMMA ReadVersionIInv ==
    ASSUME IInv, NEW p \in Proc, ReadVersion(p)
    PROVE  IInv'
<1> DEFINE v == CurrentVersion(draft)
<1>1. /\ pc[p] = "read" /\ Loop(p, v)
      /\ UNCHANGED <<file, unclustered, lock, draft, drops, serving, ops, crashes>>
  BY DEF ReadVersion
<1>2. TypeOK /\ draft = file /\ Sound(draft)
  BY <1>1 DEF IInv, Drafted
<1>3. v \in 0 .. Latest
  BY <1>2, CurrentVersionType DEF ReadVersion, Newer, TypeOK, Version, Latest
<1> HIDE DEF v
<1>4. /\ version'[p] = v /\ version' \in [Proc -> Version]
      /\ pc' = [pc EXCEPT ![p] = IF v < Latest THEN "migrate" ELSE "commit"]
      /\ pc'[p] = (IF v < Latest THEN "migrate" ELSE "commit")
      /\ \A q \in Proc : q # p => pc'[q] = pc[q] /\ version'[q] = version[q]
  BY <1>1, <1>2, <1>3, LoopSteps
<1>5. TypeOK'
  BY <1>1, <1>2, <1>4 DEF TypeOK
<1>6. Holds(draft, v) /\ v = CurrentVersion(draft)
  BY <1>2 DEF Sound, v
<1>7. v = Latest => draft.schemaMeta = Latest
  <2> SUFFICES ASSUME v = Latest PROVE draft.schemaMeta = Latest
    OBVIOUS
  <2>1. draft.schemaMeta # None
    BY <1>2, <1>6 DEF Sound, Recording, Latest
  <2> QED BY <1>6, <2>1 DEF CurrentVersion
<1>8. pc[p] \in TransactionSteps /\ pc'[p] \in TransactionSteps
  BY <1>1, <1>4 DEF TransactionSteps
<1>9. /\ pc'[p] = "migrate" => v < Latest
      /\ pc'[p] = "commit" => v = Latest
      /\ pc'[p] \in {"migrate", "commit"}
  BY <1>3, <1>4 DEF Latest
<1>10. serving' # {} => file.schemaMeta = Latest
  BY <1>1 DEF IInv, Opened
<1> QED BY <1>1, <1>4, <1>5, <1>6, <1>7, <1>8, <1>9, <1>10, LocalIInv

LEMMA ApplyMigrationIInv ==
    ASSUME IInv, NEW p \in Proc, ApplyMigration(p)
    PROVE  IInv'
<1> DEFINE v == version[p]
<1>1. /\ pc[p] = "migrate" /\ pc' = [pc EXCEPT ![p] = "record"]
      /\ draft' = [draft EXCEPT !.objects = @ \cup Contributes(v)]
      /\ UNCHANGED <<file, unclustered, lock, version, drops, serving, ops, crashes>>
  BY DEF ApplyMigration, Goto
<1>2. v \in Nat /\ v < Latest /\ Holds(draft, v)
  BY <1>1 DEF IInv, Drafted, TypeOK, Version
<1>3. draft \in DatabaseFile
  BY DEF IInv, TypeOK
<1>4. draft' \in DatabaseFile /\ draft'.objects = draft.objects \cup Contributes(v)
  BY <1>1, <1>3 DEF DatabaseFile, Contributes
<1>5. Holds(draft', v + 1)
  BY <1>2, <1>4, MigrationHolds
<1>6. pc'[p] = "record" /\ \A q \in Proc : q # p => pc'[q] = pc[q]
  BY <1>1 DEF IInv, TypeOK
<1>7. TypeOK'
  BY <1>1, <1>4 DEF IInv, TypeOK
<1>8. pc[p] \in TransactionSteps /\ pc'[p] \in TransactionSteps
  BY <1>1, <1>6 DEF TransactionSteps
<1>9. serving' # {} => file.schemaMeta = Latest
  BY <1>1 DEF IInv, Opened
<1> QED BY <1>1, <1>2, <1>5, <1>6, <1>7, <1>8, <1>9, LocalIInv

LEMMA SetSchemaVersionIInv ==
    ASSUME IInv, NEW p \in Proc, SetSchemaVersion(p)
    PROVE  IInv'
<1> DEFINE v == version[p] + 1
<1>1. /\ pc[p] = "record" /\ draft' = Recorded(draft, v) /\ Loop(p, v)
      /\ UNCHANGED <<file, unclustered, lock, drops, serving, ops, crashes>>
  BY DEF SetSchemaVersion
<1>2. v \in 0 .. Latest /\ Holds(draft, v)
  <2>1. version[p] < Latest /\ Holds(draft, v)
    BY <1>1 DEF IInv, Drafted
  <2>2. version[p] \in Version
    BY DEF IInv, TypeOK
  <2> QED BY <2>1, <2>2 DEF Version, Latest
<1>3. TypeOK /\ draft \in DatabaseFile /\ v \in Version
  BY <1>2 DEF IInv, TypeOK, Version, Latest
<1> HIDE DEF v
<1>4. /\ version'[p] = v /\ version' \in [Proc -> Version]
      /\ pc' = [pc EXCEPT ![p] = IF v < Latest THEN "migrate" ELSE "commit"]
      /\ pc'[p] = (IF v < Latest THEN "migrate" ELSE "commit")
      /\ \A q \in Proc : q # p => pc'[q] = pc[q] /\ version'[q] = version[q]
  BY <1>1, <1>2, <1>3, LoopSteps
<1>5. /\ draft' \in DatabaseFile /\ draft'.objects = draft.objects
      /\ draft'.schemaMeta = v /\ CurrentVersion(draft') = v
  BY <1>1, <1>3, RecordedVersion
<1>6. Holds(draft', v)
  BY <1>2, <1>5, HoldsObjects
<1>7. TypeOK'
  BY <1>1, <1>3, <1>4, <1>5 DEF TypeOK
<1>8. pc[p] \in TransactionSteps /\ pc'[p] \in TransactionSteps
  BY <1>1, <1>4 DEF TransactionSteps
<1>9. /\ pc'[p] = "migrate" => v < Latest
      /\ pc'[p] = "commit" => v = Latest
      /\ pc'[p] \in {"migrate", "commit"}
  BY <1>2, <1>4 DEF Latest
<1>10. serving' # {} => file.schemaMeta = Latest
  BY <1>1 DEF IInv, Opened
<1> QED BY <1>1, <1>4, <1>5, <1>6, <1>7, <1>8, <1>9, <1>10, LocalIInv

\* The steps outside the transaction that touch neither the file nor the lock.
LEMMA OutsideIInv ==
    ASSUME IInv, NEW p \in Proc, Open(p) \/ StartReset(p) \/ Close(p)
    PROVE  IInv'
<1>1. /\ pc[p] \in {"idle", "open"} /\ UNCHANGED <<file, unclustered, lock, draft, version, crashes>>
      /\ \/ pc[p] = "idle" /\ pc' = [pc EXCEPT ![p] = "begin"] /\ serving' = serving
         \/ pc[p] = "idle" /\ pc' = [pc EXCEPT ![p] = "drop"] /\ serving' = serving /\ p \in serving
         \/ pc[p] = "open" /\ pc' = [pc EXCEPT ![p] = "idle"]
  BY DEF Open, StartReset, Close, Goto
<1>2. pc'[p] \in {"idle", "begin", "drop"} /\ \A q \in Proc : q # p => pc'[q] = pc[q]
  BY <1>1 DEF IInv, TypeOK
<1>3. TypeOK'
  BY DropCount, SchemaAssumption DEF IInv, TypeOK, Open, StartReset, Close, Goto
<1>4. pc[p] \notin TransactionSteps /\ pc'[p] \notin TransactionSteps
  BY <1>1, <1>2 DEF TransactionSteps
<1>5. /\ pc'[p] \in {"open", "drop"} => file.schemaMeta = Latest
      /\ serving' # {} => file.schemaMeta = Latest
  <2>1. CASE pc[p] = "open"
    BY <1>2, <2>1 DEF IInv, Opened
  <2>2. CASE pc[p] = "idle"
    BY <1>1, <1>2, <2>2 DEF IInv, Opened, TypeOK
  <2> QED BY <1>1, <2>1, <2>2
<1> QED BY <1>1, <1>2, <1>3, <1>4, <1>5, LocalIInv

LEMMA NextIInv ==
    ASSUME IInv, [Next]_vars
    PROVE  IInv'
<1>0. crashes \in 0 .. MaxCrashes
  BY DEF IInv, TypeOK
<1>1. CASE UNCHANGED vars
  BY <1>1 DEF vars, IInv, TypeOK, Sound, Exclusive, Drafted, Opened
<1>2. ASSUME NEW p \in Proc, Open(p) \/ StartReset(p) \/ Close(p)
      PROVE  IInv'
  BY <1>2, OutsideIInv
<1>3. ASSUME NEW p \in Proc, DropTable(p)
      PROVE  IInv'
  BY <1>3, DropTableIInv
<1>4. ASSUME NEW p \in Proc, Busy(p) \/ RefuseNewer(p) \/ MigrationFails(p)
      PROVE  IInv'
  BY <1>0, <1>4, ThrowIInv DEF Busy, RefuseNewer, MigrationFails
<1>5. ASSUME NEW p \in Proc, Crash(p)
      PROVE  IInv'
  <2>1. crashes' \in 0 .. MaxCrashes
    BY <1>0, <1>5, SchemaAssumption DEF Crash
  <2> QED BY <1>5, <2>1, ThrowIInv DEF Crash
<1>6. ASSUME NEW p \in Proc, BeginTransaction(p)
      PROVE  IInv'
  BY <1>6, BeginTransactionIInv
<1>7. ASSUME NEW p \in Proc, ReadVersion(p)
      PROVE  IInv'
  BY <1>7, ReadVersionIInv
<1>8. ASSUME NEW p \in Proc, ApplyMigration(p)
      PROVE  IInv'
  BY <1>8, ApplyMigrationIInv
<1>9. ASSUME NEW p \in Proc, SetSchemaVersion(p)
      PROVE  IInv'
  BY <1>9, SetSchemaVersionIInv
<1>10. ASSUME NEW p \in Proc, Commit(p)
       PROVE  IInv'
  BY <1>10, CommitIInv
<1> QED
  BY <1>1, <1>2, <1>3, <1>4, <1>5, <1>6, <1>7, <1>8, <1>9, <1>10 DEF Next, EnsureSchema

-----------------------------------------------------------------------------
(* The theorems.                                                           *)

\* The committed file is sound, and the draft of the one open transaction is as far as its
\* process has come.
THEOREM Invariant == Spec => []IInv
BY InitIInv, NextIInv, PTL DEF Spec

\* Opening and resetting a file keeps every variable in its type: in particular a
\* transaction only ever writes objects of known migrations and versions it knows.
THEOREM SchemaTypeCorrect == Spec => []TypeOK
<1>1. IInv => TypeOK
  BY DEF IInv
<1> QED BY <1>1, Invariant, PTL

\* Whatever processes open, reset and are stopped on the file, in any order, the
\* committed file holds nothing beyond the version it records, lacks nothing of it that
\* no reset drops, and has the latest version whenever ensure_schema let a process on.
THEOREM VersionCorrect == Spec => []VersionIsHonest
<1>1. IInv => VersionIsHonest
  <2> SUFFICES ASSUME IInv PROVE VersionIsHonest
    OBVIOUS
  <2>1. Kept(Complete(CurrentVersion(file))) \subseteq file.objects
        /\ file.objects \subseteq Complete(CurrentVersion(file))
    BY DEF IInv, Sound, Holds
  <2>2. ASSUME NEW p \in Proc, pc[p] = "open"
        PROVE  CurrentVersion(file) = Latest
    <3>1. file.schemaMeta = Latest
      BY <2>2 DEF IInv, Opened
    <3> QED BY <3>1, SchemaAssumption DEF CurrentVersion, Latest
  <2> QED BY <2>1, <2>2 DEF VersionIsHonest
<1> QED BY <1>1, Invariant, PTL

\* The version of the committed file changes in one way only, straight to the latest
\* one: however a migration run is interrupted, no version in between is ever committed.
THEOREM MigratedInOneTransaction == Spec => OneTransaction
<1> DEFINE Step == CurrentVersion(file') # CurrentVersion(file) => CurrentVersion(file') = Latest
<1>1. IInv /\ [Next]_vars => [Step]_vars
  <2> SUFFICES ASSUME IInv, [Next]_vars, file' # file
               PROVE  Step
    OBVIOUS
  <2>1. ASSUME NEW p \in Proc, DropTable(p)
        PROVE  CurrentVersion(file') = Latest
    <3>1. IInv' /\ file.schemaMeta = Latest
      BY <2>1, DropTableIInv DEF IInv, Opened, DropTable
    <3>2. file'.schemaMeta = file.schemaMeta
      BY <2>1 DEF DropTable, IInv, TypeOK, DatabaseFile
    <3> QED BY <3>1, <3>2, SchemaAssumption DEF CurrentVersion, Latest
  <2>2. ASSUME NEW p \in Proc, Commit(p)
        PROVE  CurrentVersion(file') = Latest
    BY <2>2, CommitIInv
  <2>3. \E p \in Proc : DropTable(p) \/ Commit(p)
    BY DEF Next, EnsureSchema, vars, Open, StartReset, Busy, BeginTransaction, ReadVersion,
           RefuseNewer, ApplyMigration, MigrationFails, SetSchemaVersion, Close, Crash, Throw
  <2> QED BY <2>1, <2>2, <2>3
<1> QED BY <1>1, Invariant, PTL DEF Spec, OneTransaction
=============================================================================
