-------------------------- MODULE LegacyLoadProofs ---------------------------
(***************************************************************************)
(* Proofs about LegacyLoad, for any number of attempts, of columns and of   *)
(* versions of the input, with any number of rows.                          *)
(*                                                                          *)
(* The argument.  While a load works no root holds a data record (Roots),   *)
(* so it may create and remove names freely; before it publishes one, its   *)
(* unit is linked, synchronized and alone (Names) and holds the rows of one *)
(* version: the version read last is the one inspected, and versions only   *)
(* grow (Contents).  The handle's charge is twice the first pass and covers *)
(* what the second may write (Sizes).  Callers know the answers of a record *)
(* that every surviving root equals or continues (Told).                    *)
(***************************************************************************)
EXTENDS LegacyLoad, FiniteSetTheorems, TLAPS

-----------------------------------------------------------------------------
(* The inductive invariant.                                                 *)

\* Before the attempt is known to callers, and after its data was published.
Fetching ==
  {"inspect", "open1", "scan1", "reserve", "issue", "issueSync", "issued"}
Publishing == {"publishSync", "published"}
Stage == {"closed", "ready"} \union Recovering \union Fetching \union Building
           \union Publishing

\* Records a legacy database can have: at most one commit, never a later one.
LegacyRecord ==
  {r \in Record : /\ r.issued <= MaxIssued /\ r.seq <= r.issued
                  /\ r.gen = IF r.seq = 0 THEN 0 ELSE 1}

Cell == Version \union {Garbled}

Types ==
  /\ version \in Version /\ identity \in Version
  /\ root \in rootSurvivors /\ rootSurvivors \subseteq LegacyRecord
  /\ entry \in [Name -> 0 .. MaxIssued]
  /\ survivors \in [Name -> SUBSET (0 .. MaxIssued)]
  /\ \A n \in Name : entry[n] \in survivors[n]
  /\ staged \in Seq(Cell) /\ unit \in [Attempt -> Seq(Cell)]
  /\ whole \subseteq Attempt
  /\ pc \in Stage /\ why \in {"open", "load", "rollback"}
  /\ state \in {"Empty", "Loaded", "ReopenRequired"}
  /\ reserved \in Nat
  /\ read \in Seq(Version) /\ first \in Seq(Version)

\* A load works while no root holds data and the roots are synchronized.
Roots ==
  /\ pc \in {"rRemove"} \union Fetching \union Building \/ state = "Empty" =>
       \A r \in rootSurvivors : r.seq = 0
  /\ \/ pc \in {"rRemove", "rUnits", "rPrivate", "rDone", "published"} \union Building
     \/ pc \in Fetching \ {"issueSync"}
     \/ state = "Empty"
     => rootSurvivors = {root}
  /\ pc \in Building \union {"issueSync", "issued"} => root.issued # 0
  /\ pc \in Publishing => root.seq # 0
  /\ pc = "issue" => root.issued < MaxIssued
  /\ state = "Empty" => pc \in {"ready", "inspect", "open1", "scan1", "reserve"}
  /\ state = "Loaded" => pc = "ready"

\* A name is as it is seen in every view.
Settled(n, a) == entry[n] = a /\ survivors[n] = {a}

Unlinked == {"create", "open2", "scan2", "assemble", "verify", "assembled", "unstage",
             "syncUnstaged", "recheck", "link"}
Synchronized == {"unstage", "syncUnstaged", "recheck", "link", "syncLinked", "unlink",
                 "syncUnlinked", "publish"}
Unstaged == {"recheck", "link", "syncLinked", "unlink", "syncUnlinked", "publish"}
Linked == {"unlink", "syncUnlinked", "publish"}

\* The names of each stage.
Names ==
  /\ pc \in Fetching \/ state = "Empty" => \A n \in Name : Settled(n, 0)
  /\ pc \in {"rUnits", "rPrivate", "rDone"} /\ root.seq = 0 =>
       \A n \in Name : entry[n] = 0
  /\ pc \in {"rPrivate", "rDone"} /\ root.seq = 0 => survivors[UnitFinal] = {0}
  /\ pc = "rDone" /\ root.seq = 0 => \A n \in Private : survivors[n] = {0}
  /\ pc \in Unlinked => Settled(UnitFinal, 0)
  /\ pc \in {"create", "open2", "scan2"} => Settled(UnitNext, 0)
  /\ pc \in {"assemble", "verify", "assembled"} \union (Synchronized \ {"syncUnlinked", "publish"})
       => entry[UnitNext] = root.issued
  /\ pc \in Synchronized => root.issued \in whole
  /\ pc = "syncUnstaged" => \A c \in Column : entry[c] = 0
  /\ pc \in Unstaged => \A c \in Column : Settled(c, 0)
  /\ pc = "syncLinked" => entry[UnitFinal] = root.issued
  /\ pc \in Linked => Settled(UnitFinal, root.issued)
  /\ pc \in {"syncUnlinked", "publish"} => entry[UnitNext] = 0
  /\ pc = "publish" => survivors[UnitNext] = {0}

\* All rows of one version.
OneVersion(rows) == \E v \in Version : rows = [row \in 1 .. Rows[v] |-> v]

\* The input is read from one version, or was rewritten since.
Contents ==
  /\ identity <= version
  /\ pc \in {"scan1", "scan2"} /\ version = identity =>
       /\ \A i \in DOMAIN read : read[i] = identity
       /\ Len(read) <= Rows[identity]
  /\ pc = "assemble" => OneVersion(read)
  /\ pc = "verify" => OneVersion(staged)
  /\ pc \in {"assembled"} \union Synchronized =>
       OneVersion(unit[root.issued])

\* The second pass writes no more than the first one counted.
Sizes ==
  /\ \A r \in rootSurvivors : \A a \in Attempt : a > r.issued => unit[a] = <<>>
  /\ pc \in {"issueSync", "issued", "create", "open2", "scan2", "assemble"} =>
       unit[root.issued] = <<>>
  /\ pc \in {"issue", "issueSync", "issued"} \union Building =>
       reserved = TemporaryPeak(Len(first))
  /\ pc = "create" /\ Present(Column) # {} => staged = <<>>
  /\ pc = "open2" => staged = <<>>
  /\ pc = "scan2" => Len(staged) = Len(read) /\ Len(read) <= Len(first)
  /\ pc \in {"assemble", "verify"} => Len(staged) = Len(first)
  /\ pc \in {"assembled"} \union Synchronized => Len(staged) <= Len(first)
  /\ pc \in {"verify", "assembled"} \union Synchronized => Len(unit[root.issued]) = Len(first)

\* What callers can be told of an attempt.
Answer == {Promise!Unknown, Promise!Pending, Promise!Aborted, Promise!Durable(1)}

\* Callers know the answers of record k, but for the pending attempt p (or 0).
Tells(k, p) ==
  /\ p # 0 => k.seq = 0 /\ p = k.issued
  /\ \A a \in Attempt :
       outcome[a] = IF a = p THEN Promise!Pending ELSE Resolution(k, a)

Issuing(k) == [issued |-> k.issued + 1, gen |-> 0, seq |-> 0]
Committing(k) == [issued |-> k.issued, gen |-> 1, seq |-> k.issued]

\* Record r is k, or continues it.
Continues(r, k, p) ==
  \/ r = k
  \/ k.seq = 0 /\ p = 0 /\ r = Issuing(k)
  \/ k.seq = 0 /\ p # 0 /\ r = Committing(k)

Told ==
  /\ outcome \in [Attempt -> Answer]
  /\ \E k \in LegacyRecord : \E p \in 0 .. MaxIssued :
       Tells(k, p) /\ \A r \in rootSurvivors : Continues(r, k, p)
  /\ pc \in {"inspect", "open1", "scan1", "reserve", "issue"} \/ state = "Empty"
       => Tells(root, 0)
  /\ pc \in Recovering /\ why = "load" => Tells(root, 0)
  /\ pc \in Building \/ (pc \in Recovering /\ why = "rollback") =>
       Tells(root, root.issued) /\ root.issued # 0
  /\ pc \in {"issueSync", "issued"} =>
       \E k \in LegacyRecord : Tells(k, 0) /\ root = Issuing(k) /\ k.seq = 0
  /\ pc \in Publishing =>
       \E k \in LegacyRecord : Tells(k, k.issued) /\ root = Committing(k) /\ k.issued # 0

IInv ==
  /\ Types /\ Roots /\ Names /\ Contents /\ RootsFindTheirUnit
  /\ Sizes /\ ChargeCoversFiles /\ Told

-----------------------------------------------------------------------------
(* Names, records and types.                                                *)

\* The names are distinct.
LEMMA NamesApart ==
  /\ UnitNext \notin Column /\ UnitFinal \notin Private /\ UnitFinal \notin Column
  /\ UnitNext # UnitFinal /\ Column \subseteq Private /\ UnitNext \in Private
  /\ Private \subseteq Name /\ UnitFinal \in Name
  /\ \A n \in Name : n = UnitFinal \/ n \in Private
  /\ \A n \in Private : n = UnitNext \/ n \in Column
BY LegacyLoadAssumption DEF UnitNext, UnitFinal, Column, Private, Name

LEMMA Versions ==
  /\ 1 \in Version /\ Len(Rows) \in Nat
  /\ \A v \in Version : v \in Nat /\ v # 0 /\ Rows[v] \in Nat
  /\ Version = 1 .. Len(Rows)
BY LegacyLoadAssumption DEF Version

LEMMA Records ==
  ASSUME NEW r \in LegacyRecord
  PROVE  /\ r.issued \in Nat /\ r.seq \in Nat /\ r.gen \in Nat
         /\ r.issued \in 0 .. MaxIssued /\ r.seq \in 0 .. MaxIssued
         /\ r.issued # 0 => r.issued \in Attempt
         /\ r.seq # 0 => r.seq \in Attempt /\ r.gen = 1
         /\ r.seq = 0 => r.gen = 0
         /\ r = [issued |-> r.issued, gen |-> r.gen, seq |-> r.seq]
BY LegacyLoadAssumption DEF LegacyRecord, Record, Attempt

\* The records a load writes.
LEMMA NextRecords ==
  ASSUME root \in LegacyRecord, root.seq = 0
  PROVE  /\ NextIssued = Issuing(root) /\ NextData = Committing(root)
         /\ root.issued < MaxIssued => Issuing(root) \in LegacyRecord
         /\ root.issued # 0 => Committing(root) \in LegacyRecord
<1>1. /\ root \in Record /\ root.gen = 0 /\ root.issued \in Nat /\ root.issued <= MaxIssued
      /\ MaxIssued \in Nat
    BY LegacyLoadAssumption DEF LegacyRecord, Record
<1>2. NextIssued = Issuing(root)
    BY <1>1 DEF NextIssued, Issuing, Record
<1>3. NextData = Committing(root)
    BY DEF NextData, Committing
<1>4. root.issued < MaxIssued => Issuing(root) \in LegacyRecord
    BY <1>1 DEF Issuing, LegacyRecord, Record
<1>5. root.issued # 0 => Committing(root) \in LegacyRecord
    BY <1>1 DEF Committing, LegacyRecord, Record
<1> QED
    BY <1>2, <1>3, <1>4, <1>5

EntryTypes ==
  /\ entry \in [Name -> 0 .. MaxIssued]
  /\ survivors \in [Name -> SUBSET (0 .. MaxIssued)]
  /\ \A n \in Name : entry[n] \in survivors[n]

LEMMA PutTypes ==
  ASSUME EntryTypes, NEW n \in Name, NEW a \in 0 .. MaxIssued, PutEntry(n, a)
  PROVE  EntryTypes'
BY DEF EntryTypes, PutEntry

LEMMA SettleTypes ==
  ASSUME EntryTypes, NEW ns, Settle(ns), UNCHANGED entry
  PROVE  EntryTypes'
BY DEF EntryTypes, Settle

LEMMA LossTypes ==
  ASSUME EntryTypes, PowerLoss
  PROVE  EntryTypes'
BY DEF EntryTypes, PowerLoss

\* What sequences over a set keep.
LEMMA SequencesOver ==
  ASSUME NEW S
  PROVE  /\ <<>> \in Seq(S)
         /\ \A s \in Seq(S) : /\ Len(s) \in Nat /\ DOMAIN s = 1 .. Len(s)
                              /\ \A i \in DOMAIN s : s[i] \in S
         /\ \A s \in Seq(S) : \A e \in S :
              /\ Append(s, e) \in Seq(S) /\ Len(Append(s, e)) = Len(s) + 1
              /\ \A i \in DOMAIN s :
                   /\ [s EXCEPT ![i] = e] \in Seq(S)
                   /\ Len([s EXCEPT ![i] = e]) = Len(s)
<1>1. <<>> \in Seq(S)
    OBVIOUS
<1>2. \A s \in Seq(S) : /\ Len(s) \in Nat /\ DOMAIN s = 1 .. Len(s)
                        /\ \A i \in DOMAIN s : s[i] \in S
    OBVIOUS
<1>3. ASSUME NEW s \in Seq(S), NEW e \in S
      PROVE  Append(s, e) \in Seq(S) /\ Len(Append(s, e)) = Len(s) + 1
    OBVIOUS
<1>4. ASSUME NEW s \in Seq(S), NEW e \in S, NEW i \in DOMAIN s
      PROVE  /\ [s EXCEPT ![i] = e] \in Seq(S)
             /\ Len([s EXCEPT ![i] = e]) = Len(s)
    BY <1>2
<1> QED
    BY <1>1, <1>2, <1>3, <1>4

LEMMA TypesStep ==
  ASSUME Types, Roots, Next
  PROVE  Types'
<1>0. /\ EntryTypes /\ root \in LegacyRecord /\ 1 \in Version /\ MaxIssued \in Nat
      /\ 0 \in 0 .. MaxIssued /\ root.issued \in 0 .. MaxIssued
    BY LegacyLoadAssumption, Versions, Records DEF Types, EntryTypes
<1>1. /\ <<>> \in Seq(Version) /\ <<>> \in Seq(Cell)
      /\ Append(read, version) \in Seq(Version) /\ Len(first) \in Nat
      /\ Append(staged, version) \in Seq(Cell) /\ Append(staged, Garbled) \in Seq(Cell)
      /\ \A i \in DOMAIN staged : [staged EXCEPT ![i] = Garbled] \in Seq(Cell)
  <2>1. version \in Cell /\ Garbled \in Cell
      BY DEF Types, Cell
  <2>2. /\ version \in Version /\ read \in Seq(Version) /\ first \in Seq(Version)
        /\ staged \in Seq(Cell)
      BY DEF Types
  <2> QED
      BY <2>1, <2>2, SequencesOver
<1> USE DEF Types, EntryTypes, diskVars, loadVars, Goto, DropLocals
<1>2. ASSUME NEW from, NEW to \in Stage, NEW ns, SyncDirectory(from, to, ns)
      PROVE  Types'
  <2>1. EntryTypes'
      BY <1>0, <1>2, SettleTypes DEF SyncDirectory
  <2> QED
      BY <1>2, <2>1 DEF SyncDirectory
<1>3. ASSUME NEW from, NEW to \in Stage, SyncRoot(from, to)
      PROVE  Types'
    BY <1>3 DEF SyncRoot
<1>4. ASSUME NEW from, NEW to \in Stage, NEW r \in LegacyRecord, RenameRoot(from, to, r)
      PROVE  Types'
    BY <1>4 DEF RenameRoot
<1>5. ASSUME NEW n \in Name, PutEntry(n, 0) \/ PutEntry(n, root.issued)
      PROVE  EntryTypes'
    BY <1>0, <1>5, PutTypes
<1>6. CASE RecoverStep
  <2>1. CASE Open \/ RecoverNamesDone \/ OpenDone \/ RecoveredBeforeLoad
      BY <2>1 DEF Open, StartRecovery, RecoverNamesDone, OpenDone, RecoveredBeforeLoad,
         Stage, Recovering, Fetching
  <2>2. CASE RolledBack
      BY <1>0, <2>2 DEF RolledBack, Stage
  <2>3. CASE RecoverRoots
    <3>1. pc' \in Stage
        BY <2>3 DEF RecoverRoots, Stage, Recovering
    <3> QED
        BY <2>3, <3>1 DEF RecoverRoots
  <2>4. CASE RecoverName
    <3>1. EntryTypes'
        BY <1>5, <2>4 DEF RecoverName, Present
    <3> QED
        BY <2>4, <3>1 DEF RecoverName
  <2>5. {"rPrivate", "rDone"} \subseteq Stage
      BY DEF Stage, Recovering
  <2> QED
      BY <1>2, <1>6, <2>1, <2>2, <2>3, <2>4, <2>5 DEF RecoverStep
<1>7. CASE LoadStep
  <2> USE DEF Stage, Fetching, Building, Publishing, Recovering
  <2>1. CASE BeginLoad \/ InspectInput \/ EndFirstPass \/ Issued \/ VerifyUnit
               \/ CheckAfterBuild
      BY <2>1 DEF BeginLoad, StartRecovery, InspectInput, EndFirstPass, Issued, VerifyUnit,
         CheckAfterBuild
  <2>2. CASE Reserve
    <3>1. reserved' \in Nat
        BY <1>1, <2>2 DEF Reserve, TemporaryPeak, UnitBytes
    <3> QED
        BY <2>2, <3>1 DEF Reserve
  <2>3. CASE Loaded
      BY <1>0, <2>3 DEF Loaded
  <2>4. ASSUME NEW from, NEW to \in Stage, OpenPass(from, to)
        PROVE  Types'
    BY <1>1, <2>4 DEF OpenPass
  <2>5. ASSUME NEW pass, ReadRow(pass)
        PROVE  Types'
    <3>1. staged' \in Seq(Cell)
        BY <1>1, <2>5 DEF ReadRow
    <3> QED
        BY <1>1, <2>5, <3>1 DEF ReadRow
  <2>6. CASE CreateStaging
    <3>1. EntryTypes'
        BY <1>5, <2>6, NamesApart DEF CreateStaging, Create
    <3>2. pc' \in Stage
        BY <2>6 DEF CreateStaging
    <3> QED
        BY <1>1, <2>6, <3>1, <3>2 DEF CreateStaging
  <2>7. CASE CreatePrivateUnit \/ LinkUnit \/ RemovePrivateUnit
    <3>1. EntryTypes'
        BY <1>5, <2>7, NamesApart DEF CreatePrivateUnit, LinkUnit, RemovePrivateUnit, Create
    <3> QED
        BY <2>7, <3>1 DEF CreatePrivateUnit, LinkUnit, RemovePrivateUnit
  <2>8. CASE RemoveStaging
    <3>1. EntryTypes'
        BY <1>5, <2>8, NamesApart DEF RemoveStaging, Present
    <3>2. pc' \in Stage
        BY <2>8 DEF RemoveStaging
    <3> QED
        BY <2>8, <3>1, <3>2 DEF RemoveStaging
  <2>9. CASE AssembleUnit
    <3>1. PICK rows \in Seq(Cell) : unit' = [unit EXCEPT ![root.issued] = rows]
        BY <1>1, <2>9 DEF AssembleUnit, Assembled
    <3>2. unit' \in [Attempt -> Seq(Cell)]
        BY <3>1
    <3> QED
        BY <2>9, <3>2 DEF AssembleUnit, Assembled
  <2>10. CASE SyncUnit
    <3>1. root.issued \in Attempt
        BY <1>0, <2>10, Records DEF SyncUnit, Roots
    <3> QED
        BY <2>10, <3>1 DEF SyncUnit
  <2>11. CASE Issue
    <3>1. NextIssued \in LegacyRecord
        BY <1>0, <2>11, NextRecords DEF Issue, RenameRoot, Roots
    <3> QED
        BY <1>4, <2>11, <3>1 DEF Issue
  <2>12. CASE RenameRoot("publish", "publishSync", NextData)
    <3>1. NextData \in LegacyRecord
        BY <1>0, <2>12, NextRecords DEF RenameRoot, Roots
    <3> QED
        BY <1>4, <2>12, <3>1
  <2>13. /\ {"scan1", "scan2", "issued", "recheck", "unlink", "publish", "published"}
              \subseteq Stage
      OBVIOUS
  <2> QED
      BY <1>2, <1>3, <1>7, <2>1, <2>2, <2>3, <2>4, <2>5, <2>6, <2>7, <2>8, <2>9, <2>10,
         <2>11, <2>12, <2>13 DEF LoadStep
<1>8. CASE Fault
  <2> USE DEF Stage
  <2>1. CASE RefuseLoad \/ IssuanceFails \/ CommitAmbiguous \/ CloseOrKill
    <3>1. /\ pc' \in {"ready", "closed"} /\ reserved' \in {0, reserved}
          /\ state' \in {state, "ReopenRequired"}
          /\ identity' = 1 /\ read' = <<>> /\ first' = <<>>
          /\ UNCHANGED <<version, diskVars, why>>
        BY <2>1 DEF RefuseLoad, IssuanceFails, CommitAmbiguous, CloseOrKill, Return
    <3> QED
        BY <1>0, <1>1, <3>1
  <2>2. CASE RecoveryFails
      BY <1>0, <1>1, <2>2 DEF RecoveryFails
  <2>3. CASE BuildFails
      BY <2>3 DEF BuildFails, StartRecovery, Recovering
  <2>4. CASE PowerLoss
    <3>1. EntryTypes'
        BY <1>0, <2>4, LossTypes
    <3> QED
        BY <1>0, <2>4, <3>1 DEF PowerLoss
  <2>5. CASE RewriteInput
      BY <2>5, Versions DEF RewriteInput
  <2> QED
      BY <1>8, <2>1, <2>2, <2>3, <2>4, <2>5 DEF Fault
<1> QED
    BY <1>6, <1>7, <1>8 DEF Next

-----------------------------------------------------------------------------
(* Roots.                                                                   *)

LEMMA RootsStep ==
  ASSUME Types, Roots, Next
  PROVE  Roots'
<1>0. root \in rootSurvivors /\ root \in LegacyRecord
    BY DEF Types
<1> USE DEF Roots, Fetching, Building, Publishing, Recovering, diskVars, loadVars, Goto
<1>2. ASSUME NEW from, NEW to \in {"rPrivate", "rDone", "recheck", "unlink", "publish"},
             NEW ns, SyncDirectory(from, to, ns),
             from \in Building <=> to \in Building, from \in {"rUnits", "rPrivate"} \union Building
      PROVE  Roots'
    BY <1>2 DEF SyncDirectory
<1>6. CASE RecoverStep
  <2>1. CASE Open \/ RecoverNamesDone
      BY <2>1 DEF Open, StartRecovery, RecoverNamesDone
  <2>2. CASE OpenDone \/ RecoveredBeforeLoad \/ RolledBack
      BY <2>2 DEF OpenDone, RecoveredBeforeLoad, RolledBack
  <2>3. CASE RecoverRoots
    <3>1. rootSurvivors' = {root} /\ root' = root /\ state' = state
          /\ pc = "rRoots" /\ pc' \in {"rRemove", "rUnits"} /\ (pc' = "rRemove" => root.seq = 0)
        BY <2>3 DEF RecoverRoots
    <3> QED
        BY <1>0, <3>1
  <2>4. CASE RecoverName
      BY <2>4 DEF RecoverName
  <2>5. \A ns : SyncDirectory("rUnits", "rPrivate", ns) => Roots'
      BY <1>2
  <2>6. \A ns : SyncDirectory("rPrivate", "rDone", ns) => Roots'
      BY <1>2
  <2> QED
      BY <1>6, <2>1, <2>2, <2>3, <2>4, <2>5, <2>6 DEF RecoverStep
<1>7. CASE LoadStep
  <2>1. CASE BeginLoad \/ InspectInput \/ EndFirstPass \/ Issued \/ VerifyUnit
               \/ CheckAfterBuild \/ Loaded
      BY <2>1 DEF BeginLoad, StartRecovery, InspectInput, EndFirstPass, Issued, VerifyUnit,
         CheckAfterBuild, Loaded
  <2>2. CASE Reserve
      BY <2>2 DEF Reserve
  <2>3. OpenPass("open1", "scan1") \/ OpenPass("open2", "scan2") => Roots'
      BY DEF OpenPass
  <2>4. ReadRow("scan1") \/ ReadRow("scan2") => Roots'
      BY DEF ReadRow
  <2>5. CASE CreateStaging
    <3>1. pc' \in {"open2", "create"} /\ pc = "create" /\ UNCHANGED <<root, rootSurvivors, state>>
        BY <2>5 DEF CreateStaging
    <3> QED
        BY <3>1
  <2>6. CASE CreatePrivateUnit \/ LinkUnit \/ RemovePrivateUnit
      BY <2>6 DEF CreatePrivateUnit, LinkUnit, RemovePrivateUnit
  <2>7. CASE RemoveStaging
    <3>1. /\ pc' \in {"unstage", "syncUnstaged"} /\ pc = "unstage"
          /\ UNCHANGED <<root, rootSurvivors, state>>
        BY <2>7 DEF RemoveStaging
    <3> QED
        BY <3>1
  <2>8. CASE AssembleUnit \/ SyncUnit
      BY <2>8 DEF AssembleUnit, Assembled, SyncUnit
  <2>9. CASE Issue
    <3>1. /\ root.seq = 0 /\ root.issued \in Nat /\ rootSurvivors = {root}
          /\ root' = Issuing(root) /\ rootSurvivors' = {root, Issuing(root)}
          /\ pc = "issue" /\ pc' = "issueSync" /\ UNCHANGED state
          /\ state \notin {"Empty", "Loaded"}
        BY <1>0, <2>9, NextRecords, Records DEF Issue, RenameRoot
    <3>2. Issuing(root).seq = 0 /\ Issuing(root).issued = root.issued + 1
        BY DEF Issuing
    <3>3. root.issued + 1 # 0
        BY <3>1
    <3> QED
        BY <3>1, <3>2, <3>3
  <2>10. CASE RenameRoot("publish", "publishSync", NextData)
    <3>1. /\ root' = Committing(root) /\ root.issued # 0
          /\ pc' = "publishSync" /\ UNCHANGED state
          /\ state \notin {"Empty", "Loaded"}
        BY <1>0, <2>10, NextRecords DEF RenameRoot
    <3>2. Committing(root).seq = root.issued
        BY DEF Committing
    <3> QED
        BY <3>1, <3>2
  <2>11. SyncRoot("issueSync", "issued") \/ SyncRoot("publishSync", "published") => Roots'
      BY <1>0 DEF SyncRoot
  <2>12. \A ns : SyncDirectory("syncUnstaged", "recheck", ns) => Roots'
      BY <1>2
  <2>13. \A ns : SyncDirectory("syncLinked", "unlink", ns) => Roots'
      BY <1>2
  <2>14. \A ns : SyncDirectory("syncUnlinked", "publish", ns) => Roots'
      BY <1>2
  <2> QED
      BY <1>7, <2>1, <2>2, <2>3, <2>4, <2>5, <2>6, <2>7, <2>8, <2>9, <2>10,
         <2>11, <2>12, <2>13, <2>14 DEF LoadStep
<1>8. CASE Fault
  <2>1. CASE RefuseLoad \/ IssuanceFails \/ CommitAmbiguous \/ CloseOrKill
      BY <2>1 DEF RefuseLoad, IssuanceFails, CommitAmbiguous, CloseOrKill, Return
  <2>2. CASE RecoveryFails \/ BuildFails \/ RewriteInput
      BY <2>2 DEF RecoveryFails, BuildFails, StartRecovery, RewriteInput
  <2>3. CASE PowerLoss
      BY <2>3 DEF PowerLoss
  <2> QED
      BY <1>8, <2>1, <2>2, <2>3 DEF Fault
<1> QED
    BY <1>6, <1>7, <1>8 DEF Next

-----------------------------------------------------------------------------
(* Names.                                                                   *)

LEMMA PutOne ==
  ASSUME EntryTypes, NEW n \in Name, NEW a, PutEntry(n, a)
  PROVE  /\ entry'[n] = a
         /\ \A m \in Name : m # n => entry'[m] = entry[m] /\ survivors'[m] = survivors[m]
BY DEF EntryTypes, PutEntry

LEMMA SettleSome ==
  ASSUME NEW ns, Settle(ns)
  PROVE  \A m \in Name : survivors'[m] = IF m \in ns THEN {entry[m]} ELSE survivors[m]
BY DEF Settle

\* Steps that leave the directory and the records alone.
LEMMA NamesStill ==
  ASSUME Roots, Names, UNCHANGED <<entry, survivors, whole, root>>,
         pc' = pc /\ state' = state
  PROVE  Names'
BY DEF Names, Settled

LEMMA NamesStep ==
  ASSUME Types, Roots, Names, Next
  PROVE  Names'
<1>0. EntryTypes
    BY DEF Types, EntryTypes
<1>a. \A n \in Name : n \in Private \/ n = UnitFinal
    BY NamesApart
<1> USE DEF Goto, diskVars, loadVars
<1>1. ASSUME UNCHANGED <<entry, survivors>>, pc' \in {"rRoots", "rRemove", "closed"},
             state' # "Empty"
      PROVE  Names'
    BY <1>1 DEF Names, Fetching, Unlinked, Synchronized, Unstaged, Linked
<1>2. ASSUME pc' \in {"closed", "published", "publishSync"}, state' # "Empty"
      PROVE  Names'
    BY <1>2 DEF Names, Fetching, Unlinked, Synchronized, Unstaged, Linked
<1>3. ASSUME pc' = "ready", state' = "Empty" => \A n \in Name : Settled(n, 0)'
      PROVE  Names'
    BY <1>3 DEF Names, Fetching, Unlinked, Synchronized, Unstaged, Linked
<1>4. ASSUME \A n \in Name : Settled(n, 0)',
             pc' \in {"ready", "create"} \union Fetching
      PROVE  Names'
    BY <1>4, NamesApart DEF Names, Fetching, Unlinked, Synchronized, Unstaged, Linked
<1>5. UNCHANGED <<entry, survivors>> =>
        \A n \in Name : \A a : Settled(n, a) => Settled(n, a)'
    BY DEF Settled
<1>6. CASE RecoverStep
  <2>1. CASE Open
      BY <1>1, <2>1 DEF Open, StartRecovery, Roots
  <2>2. CASE RecoverRoots
    <3>1. /\ UNCHANGED <<entry, survivors, root, state>> /\ pc = "rRoots"
          /\ \/ pc' = "rRemove"
             \/ pc' = "rUnits" /\ root.seq # 0
        BY <2>2 DEF RecoverRoots
    <3>2. state # "Empty"
        BY <3>1 DEF Roots
    <3> QED
        BY <3>1, <3>2 DEF Names, Fetching, Unlinked, Synchronized, Unstaged, Linked
  <2>3. CASE RecoverName
      BY <2>3 DEF RecoverName, Roots, Names, Fetching, Unlinked, Synchronized, Unstaged,
         Linked
  <2>4. CASE RecoverNamesDone
    <3>1. /\ UNCHANGED <<entry, survivors, root, state>> /\ pc = "rRemove" /\ pc' = "rUnits"
          /\ \A n \in Name : entry[n] = 0
        BY <2>4 DEF RecoverNamesDone, Present
    <3>2. state # "Empty"
        BY <3>1 DEF Roots
    <3> QED
        BY <3>1, <3>2 DEF Names, Fetching, Unlinked, Synchronized, Unstaged, Linked
  <2>5. pc = "rDone" /\ root.seq = 0 => \A n \in Name : Settled(n, 0)
      BY <1>a DEF Names, Settled
  <2>6. CASE OpenDone \/ RolledBack
    <3>1. /\ UNCHANGED <<entry, survivors>> /\ pc = "rDone" /\ pc' = "ready"
          /\ state' = "Empty" => root.seq = 0
        BY <2>6 DEF OpenDone, RolledBack
    <3> QED
        BY <1>3, <1>5, <2>5, <3>1
  <2>7. CASE RecoveredBeforeLoad
    <3>1. /\ UNCHANGED <<entry, survivors>> /\ pc = "rDone" /\ pc' \in Fetching
          /\ root.seq = 0
        BY <2>7 DEF RecoveredBeforeLoad, Fetching
    <3> QED
        BY <1>4, <1>5, <2>5, <3>1
  <2>8. CASE SyncDirectory("rUnits", "rPrivate", {UnitFinal})
    <3>1. /\ UNCHANGED <<entry, root, state>> /\ pc = "rUnits" /\ pc' = "rPrivate"
          /\ survivors'[UnitFinal] = {entry[UnitFinal]}
        BY <2>8, SettleSome, NamesApart DEF SyncDirectory
    <3>2. state # "Empty" /\ (root.seq = 0 => \A n \in Name : entry[n] = 0)
        BY <3>1 DEF Roots, Names
    <3>3. root.seq = 0 => entry[UnitFinal] = 0
        BY <3>2, NamesApart
    <3> QED
        BY <3>1, <3>2, <3>3 DEF Names, Fetching, Unlinked, Synchronized, Unstaged, Linked
  <2>9. CASE SyncDirectory("rPrivate", "rDone", Private)
    <3>1. /\ UNCHANGED <<entry, root, state>> /\ pc = "rPrivate" /\ pc' = "rDone"
          /\ survivors'[UnitFinal] = survivors[UnitFinal]
          /\ \A n \in Private : survivors'[n] = {entry[n]}
        BY <2>9, SettleSome, NamesApart DEF SyncDirectory
    <3>2. /\ state # "Empty"
          /\ root.seq = 0 => /\ \A n \in Name : entry[n] = 0
                             /\ survivors[UnitFinal] = {0}
        BY <3>1 DEF Roots, Names
    <3>3. root.seq = 0 => \A n \in Private : entry[n] = 0
        BY <3>2, NamesApart
    <3> QED
        BY <3>1, <3>2, <3>3 DEF Names, Fetching, Unlinked, Synchronized, Unstaged, Linked
  <2> QED
      BY <1>6, <2>1, <2>2, <2>3, <2>4, <2>6, <2>7, <2>8, <2>9 DEF RecoverStep
<1>7. CASE LoadStep
  <2>1. CASE BeginLoad
      BY <1>1, <2>1 DEF BeginLoad, StartRecovery
  <2>2. ASSUME pc \in Fetching, pc' \in Fetching \union {"create"}, UNCHANGED <<entry, survivors>>
        PROVE  Names'
      BY <1>4, <1>5, <2>2 DEF Names
  <2>3. CASE InspectInput \/ EndFirstPass \/ Reserve \/ Issue \/ Issued
      BY <2>2, <2>3 DEF InspectInput, EndFirstPass, Reserve, Issue, RenameRoot, Issued, Fetching
  <2>4. CASE \/ OpenPass("open1", "scan1") \/ ReadRow("scan1")
             \/ SyncRoot("issueSync", "issued")
      BY <2>2, <2>4 DEF OpenPass, ReadRow, SyncRoot, Fetching
  <2>5. CASE RenameRoot("publish", "publishSync", NextData) \/ SyncRoot("publishSync", "published")
      BY <1>2, <2>5 DEF RenameRoot, SyncRoot, Roots
  <2>6. CASE Loaded
      BY <1>3, <2>6 DEF Loaded
  <2>7. CASE CreateStaging
    <3>1. PICK c \in Column : Create(c)
        BY <2>7 DEF CreateStaging
    <3>2. /\ entry'[UnitNext] = entry[UnitNext] /\ survivors'[UnitNext] = survivors[UnitNext]
          /\ entry'[UnitFinal] = entry[UnitFinal]
          /\ survivors'[UnitFinal] = survivors[UnitFinal]
        BY <1>0, <3>1, PutOne, NamesApart DEF Create
    <3>3. /\ pc = "create" /\ pc' \in {"create", "open2"} /\ state' = state
          /\ state # "Empty"
        BY <2>7 DEF CreateStaging, Roots
    <3> QED
        BY <3>2, <3>3 DEF Names, Settled, Fetching, Unlinked, Synchronized, Unstaged, Linked
  <2>8. CASE OpenPass("open2", "scan2") \/ ReadRow("scan2")
    <3>1. /\ UNCHANGED <<entry, survivors, root, whole, state>> /\ pc \in {"open2", "scan2"}
          /\ pc' = "scan2" /\ state # "Empty"
        BY <2>8 DEF OpenPass, ReadRow, Roots
    <3> QED
        BY <3>1 DEF Names, Settled, Fetching, Unlinked, Synchronized, Unstaged, Linked
  <2>9. CASE CreatePrivateUnit
    <3>1. /\ entry'[UnitNext] = root.issued /\ entry'[UnitFinal] = entry[UnitFinal]
          /\ survivors'[UnitFinal] = survivors[UnitFinal]
        BY <1>0, <2>9, PutOne, NamesApart DEF Create, CreatePrivateUnit
    <3>2. /\ pc = "scan2" /\ pc' = "assemble" /\ UNCHANGED <<root, whole, state>>
          /\ state # "Empty"
        BY <2>9 DEF CreatePrivateUnit, Roots
    <3> QED
        BY <3>1, <3>2 DEF Names, Settled, Fetching, Unlinked, Synchronized, Unstaged, Linked
  <2>10. CASE AssembleUnit \/ VerifyUnit
    <3>1. /\ UNCHANGED <<entry, survivors, root, whole, state>> /\ state # "Empty"
          /\ \/ pc = "assemble" /\ pc' = "verify"
             \/ pc = "verify" /\ pc' = "assembled"
        BY <2>10 DEF AssembleUnit, Assembled, VerifyUnit, Roots
    <3> QED
        BY <3>1 DEF Names, Settled, Fetching, Unlinked, Synchronized, Unstaged, Linked
  <2>11. CASE SyncUnit
    <3>1. /\ UNCHANGED <<entry, survivors, root, state>> /\ state # "Empty"
          /\ pc = "assembled" /\ pc' = "unstage" /\ root.issued \in whole'
        BY <2>11 DEF SyncUnit, Roots
    <3> QED
        BY <3>1 DEF Names, Settled, Fetching, Unlinked, Synchronized, Unstaged, Linked
  <2>12. CASE RemoveStaging
    <3>1. PICK c \in Present(Column) :
            /\ PutEntry(c, 0)
            /\ pc' = IF Present(Column) = {c} THEN "syncUnstaged" ELSE "unstage"
        BY <2>12 DEF RemoveStaging
    <3>2. c \in Column /\ c \in Name
        BY NamesApart DEF Present
    <3>3. /\ entry'[UnitNext] = entry[UnitNext]
          /\ entry'[UnitFinal] = entry[UnitFinal]
          /\ survivors'[UnitFinal] = survivors[UnitFinal]
        BY <1>0, <3>1, <3>2, PutOne, NamesApart
    <3>4. Present(Column) = {c} => \A d \in Column : entry'[d] = 0
      <4>1. ASSUME Present(Column) = {c}, NEW d \in Column PROVE entry'[d] = 0
        <5>1. CASE d = c
            BY <1>0, <3>1, <3>2, <5>1, PutOne
        <5>2. CASE d # c
            BY <1>0, <3>1, <3>2, <4>1, <5>2, PutOne, NamesApart DEF Present
        <5> QED
            BY <5>1, <5>2
      <4> QED
          BY <4>1
    <3>5. /\ pc = "unstage" /\ UNCHANGED <<root, whole, state>> /\ state # "Empty"
          /\ \/ pc' = "unstage"
             \/ pc' = "syncUnstaged" /\ \A d \in Column : entry'[d] = 0
        BY <2>12, <3>1, <3>4 DEF RemoveStaging, Roots
    <3> QED
        BY <3>3, <3>5 DEF Names, Settled, Fetching, Unlinked, Synchronized, Unstaged, Linked
  <2>13. CASE SyncDirectory("syncUnstaged", "recheck", Private)
    <3>1. /\ UNCHANGED <<entry, root, whole, state>> /\ pc = "syncUnstaged" /\ pc' = "recheck"
          /\ survivors'[UnitFinal] = survivors[UnitFinal]
          /\ \A c \in Column : survivors'[c] = {entry[c]}
        BY <2>13, SettleSome, NamesApart DEF SyncDirectory
    <3>2. state # "Empty"
        BY <3>1 DEF Roots
    <3> QED
        BY <3>1, <3>2 DEF Names, Settled, Fetching, Unlinked, Synchronized, Unstaged, Linked
  <2>14. CASE CheckAfterBuild
    <3>1. /\ UNCHANGED <<entry, survivors, root, whole, state>> /\ state # "Empty"
          /\ pc = "recheck" /\ pc' = "link"
        BY <2>14 DEF CheckAfterBuild, Roots
    <3> QED
        BY <3>1 DEF Names, Settled, Fetching, Unlinked, Synchronized, Unstaged, Linked
  <2>15. CASE LinkUnit
    <3>1. /\ entry'[UnitFinal] = root.issued /\ entry'[UnitNext] = entry[UnitNext]
          /\ \A c \in Column : entry'[c] = entry[c] /\ survivors'[c] = survivors[c]
        BY <1>0, <2>15, PutOne, NamesApart DEF Create, LinkUnit
    <3>2. /\ pc = "link" /\ pc' = "syncLinked" /\ UNCHANGED <<root, whole, state>>
          /\ state # "Empty"
        BY <2>15 DEF LinkUnit, Roots
    <3> QED
        BY <3>1, <3>2 DEF Names, Settled, Fetching, Unlinked, Synchronized, Unstaged, Linked
  <2>16. CASE SyncDirectory("syncLinked", "unlink", {UnitFinal})
    <3>1. /\ UNCHANGED <<entry, root, whole, state>> /\ pc = "syncLinked" /\ pc' = "unlink"
          /\ survivors'[UnitFinal] = {entry[UnitFinal]}
          /\ \A c \in Column : survivors'[c] = survivors[c]
        BY <2>16, SettleSome, NamesApart DEF SyncDirectory
    <3>2. state # "Empty"
        BY <3>1 DEF Roots
    <3> QED
        BY <3>1, <3>2 DEF Names, Settled, Fetching, Unlinked, Synchronized, Unstaged, Linked
  <2>17. CASE RemovePrivateUnit
    <3>1. /\ entry'[UnitNext] = 0 /\ entry'[UnitFinal] = entry[UnitFinal]
          /\ survivors'[UnitFinal] = survivors[UnitFinal]
          /\ \A c \in Column : entry'[c] = entry[c] /\ survivors'[c] = survivors[c]
        BY <1>0, <2>17, PutOne, NamesApart DEF RemovePrivateUnit
    <3>2. /\ pc = "unlink" /\ pc' = "syncUnlinked" /\ UNCHANGED <<root, whole, state>>
          /\ state # "Empty"
        BY <2>17 DEF RemovePrivateUnit, Roots
    <3> QED
        BY <3>1, <3>2 DEF Names, Settled, Fetching, Unlinked, Synchronized, Unstaged, Linked
  <2>18. CASE SyncDirectory("syncUnlinked", "publish", Private)
    <3>1. /\ UNCHANGED <<entry, root, whole, state>> /\ pc = "syncUnlinked" /\ pc' = "publish"
          /\ survivors'[UnitFinal] = survivors[UnitFinal]
          /\ survivors'[UnitNext] = {entry[UnitNext]}
          /\ \A c \in Column : survivors'[c] = {entry[c]}
        BY <2>18, SettleSome, NamesApart DEF SyncDirectory
    <3>2. state # "Empty"
        BY <3>1 DEF Roots
    <3> QED
        BY <3>1, <3>2 DEF Names, Settled, Fetching, Unlinked, Synchronized, Unstaged, Linked
  <2> QED
      BY <1>7, <2>1, <2>3, <2>4, <2>5, <2>6, <2>7, <2>8, <2>9, <2>10, <2>11, <2>12, <2>13,
         <2>14, <2>15, <2>16, <2>17, <2>18 DEF LoadStep
<1>8. CASE Fault
  <2>1. CASE RefuseLoad
    <3>1. UNCHANGED <<entry, survivors>> /\ pc \in Fetching /\ pc' = "ready"
        BY <2>1 DEF RefuseLoad, Return, Fetching
    <3> QED
        BY <1>4, <1>5, <3>1 DEF Names
  <2>2. CASE IssuanceFails \/ CommitAmbiguous
    <3>1. pc' = "ready" /\ state' # "Empty"
        BY <2>2 DEF IssuanceFails, CommitAmbiguous, Return, Roots
    <3> QED
        BY <1>3, <3>1
  <2>3. CASE RecoveryFails
    <3>1. pc' \in {"ready", "closed"} /\ state' # "Empty"
        BY <2>3 DEF RecoveryFails, Recovering, Roots
    <3> QED
        BY <1>2, <1>3, <3>1
  <2>4. CASE BuildFails
      BY <1>1, <2>4 DEF BuildFails, StartRecovery, Roots, Building
  <2>5. CASE CloseOrKill \/ PowerLoss
      BY <1>2, <2>5 DEF CloseOrKill, PowerLoss
  <2>6. CASE RewriteInput
      BY <2>6, NamesStill DEF RewriteInput
  <2> QED
      BY <1>8, <2>1, <2>2, <2>3, <2>4, <2>5, <2>6 DEF Fault
<1> QED
    BY <1>6, <1>7, <1>8 DEF Next

-----------------------------------------------------------------------------
(* Contents.                                                                *)

LEMMA ContentsStep ==
  ASSUME Types, Types', Contents, Next
  PROVE  Contents'
<1>0. /\ version \in Version /\ version \in Nat /\ 1 <= version /\ identity \in Nat
      /\ read \in Seq(Version) /\ Len(read) \in Nat /\ DOMAIN read = 1 .. Len(read)
      /\ identity <= version
    BY Versions, SequencesOver DEF Types, Contents
<1> USE DEF Goto, diskVars, loadVars
<1>1. ASSUME identity' <= version',
             pc' \notin {"scan1", "scan2", "assemble", "verify", "assembled"}
                          \union Synchronized
      PROVE  Contents'
    BY <1>1 DEF Contents
<1>2. ASSUME pc \in {"assembled"} \union Synchronized, pc' \in Synchronized,
             UNCHANGED <<version, identity, unit, root>>
      PROVE  Contents'
    BY <1>2 DEF Contents, Synchronized, OneVersion
<1>6. CASE RecoverStep
  <2>1. /\ UNCHANGED <<version, identity>> \/ (UNCHANGED version /\ identity' = 1)
        /\ pc' \in Recovering \union {"ready", "inspect"}
      BY <1>6 DEF RecoverStep, Open, StartRecovery, RecoverRoots, RecoverName,
         RecoverNamesDone, SyncDirectory, OpenDone, RecoveredBeforeLoad, RolledBack,
         DropLocals, Recovering
  <2> QED
      BY <1>0, <1>1, <2>1 DEF Recovering, Synchronized
<1>7. CASE LoadStep
  <2>1. CASE \/ BeginLoad \/ EndFirstPass \/ Reserve \/ Issue \/ Issued
             \/ SyncRoot("issueSync", "issued")
    <3>1. /\ UNCHANGED <<version, identity>>
          /\ pc' \in {"rRoots", "reserve", "issue", "issueSync", "issued", "create"}
        BY <2>1 DEF BeginLoad, StartRecovery, EndFirstPass, Reserve, Issue, RenameRoot,
           Issued, SyncRoot
    <3> QED
        BY <1>0, <1>1, <3>1 DEF Synchronized
  <2>2. CASE \/ RenameRoot("publish", "publishSync", NextData)
             \/ SyncRoot("publishSync", "published") \/ Loaded
    <3>1. /\ UNCHANGED version /\ identity' \in {1, identity}
          /\ pc' \in {"publishSync", "published", "ready"}
        BY <2>2 DEF RenameRoot, SyncRoot, Loaded, DropLocals
    <3> QED
        BY <1>0, <1>1, <3>1 DEF Synchronized
  <2>3. CASE InspectInput
    <3>1. pc' = "open1" /\ UNCHANGED version /\ identity' = version
        BY <2>3 DEF InspectInput
    <3> QED
        BY <1>0, <1>1, <3>1 DEF Synchronized
  <2>4. CASE CreateStaging
    <3>1. pc' \in {"create", "open2"} /\ UNCHANGED <<version, identity>>
        BY <2>4 DEF CreateStaging
    <3> QED
        BY <1>0, <1>1, <3>1 DEF Synchronized
  <2>5. CASE OpenPass("open1", "scan1") \/ OpenPass("open2", "scan2")
    <3>1. /\ pc' \in {"scan1", "scan2"} /\ UNCHANGED <<version, identity>>
          /\ version = identity /\ read' = <<>>
        BY <2>5 DEF OpenPass
    <3>2. DOMAIN read' = {} /\ Len(read') = 0 /\ 0 <= Rows[identity]
        BY <1>0, <3>1, Versions
    <3> QED
        BY <1>0, <3>1, <3>2 DEF Contents, Synchronized
  <2>6. CASE ReadRow("scan1") \/ ReadRow("scan2")
    <3>1. /\ pc \in {"scan1", "scan2"} /\ pc' = pc /\ UNCHANGED <<version, identity>>
          /\ Len(read) < Rows[version] /\ read' = Append(read, version)
        BY <2>6 DEF ReadRow
    <3>2. ASSUME version = identity
          PROVE  (\A i \in DOMAIN read' : read'[i] = identity) /\ Len(read') <= Rows[identity]
      <4>1. \A i \in DOMAIN read : read[i] = identity
          BY <3>1, <3>2 DEF Contents
      <4>2. /\ Len(read') = Len(read) + 1 /\ DOMAIN read' = 1 .. Len(read) + 1
            /\ \A i \in 1 .. Len(read) + 1 :
                 read'[i] = IF i \in 1 .. Len(read) THEN read[i] ELSE version
          BY <1>0, <3>1
      <4>3. Len(read) + 1 <= Rows[identity]
          BY <1>0, <3>1, <3>2, Versions
      <4>4. ASSUME NEW i \in 1 .. Len(read) + 1 PROVE read'[i] = identity
          BY <1>0, <3>2, <4>1, <4>2
      <4> QED
          BY <4>2, <4>3, <4>4
    <3> QED
        BY <1>0, <3>1, <3>2 DEF Contents, Synchronized
  <2>7. CASE CreatePrivateUnit
    <3>1. /\ pc = "scan2" /\ pc' = "assemble" /\ UNCHANGED <<version, identity, read>>
          /\ Len(read) >= Rows[version] /\ version = identity
        BY <2>7 DEF CreatePrivateUnit, EndOfInput
    <3>2. (\A i \in DOMAIN read : read[i] = identity) /\ Len(read) <= Rows[identity]
        BY <3>1 DEF Contents
    <3>3. Len(read) = Rows[identity] /\ identity \in Version
        BY <1>0, <3>1, <3>2, Versions
    <3>4. read = [row \in 1 .. Rows[identity] |-> identity]
        BY <1>0, <3>2, <3>3
    <3>5. OneVersion(read)
        BY <3>3, <3>4 DEF OneVersion
    <3>6. OneVersion(read)'
        BY <3>1, <3>5 DEF OneVersion
    <3> QED
        BY <1>0, <3>1, <3>6 DEF Contents, Synchronized
  <2>8. CASE AssembleUnit
    <3>1. /\ pc = "assemble" /\ pc' = "verify" /\ UNCHANGED <<version, identity, staged>>
          /\ staged = read
        BY <2>8 DEF AssembleUnit, Assembled
    <3>2. OneVersion(staged)'
        BY <3>1 DEF Contents, OneVersion
    <3> QED
        BY <1>0, <3>1, <3>2 DEF Contents, Synchronized
  <2>9. CASE VerifyUnit
    <3>1. /\ pc = "verify" /\ pc' = "assembled" /\ UNCHANGED <<version, identity, unit, root>>
          /\ unit[root.issued] = staged
        BY <2>9 DEF VerifyUnit
    <3>2. OneVersion(unit[root.issued])'
        BY <3>1 DEF Contents, OneVersion
    <3> QED
        BY <1>0, <3>1, <3>2 DEF Contents, Synchronized
  <2>10. CASE \/ SyncUnit \/ RemoveStaging \/ CheckAfterBuild \/ LinkUnit \/ RemovePrivateUnit
    <3>1. /\ pc \in {"assembled"} \union Synchronized /\ pc' \in Synchronized
          /\ UNCHANGED <<version, identity, unit, root>>
        BY <2>10 DEF SyncUnit, RemoveStaging, CheckAfterBuild, LinkUnit, RemovePrivateUnit,
           Synchronized
    <3> QED
        BY <1>2, <3>1
  <2>11. CASE \/ SyncDirectory("syncUnstaged", "recheck", Private)
              \/ SyncDirectory("syncLinked", "unlink", {UnitFinal})
              \/ SyncDirectory("syncUnlinked", "publish", Private)
    <3>1. /\ pc \in {"assembled"} \union Synchronized /\ pc' \in Synchronized
          /\ UNCHANGED <<version, identity, unit, root>>
        BY <2>11 DEF SyncDirectory, Synchronized
    <3> QED
        BY <1>2, <3>1
  <2> QED
      BY <1>7, <2>1, <2>2, <2>3, <2>4, <2>5, <2>6, <2>7, <2>8, <2>9, <2>10, <2>11
         DEF LoadStep
<1>8. CASE Fault
  <2>1. CASE \/ RefuseLoad \/ IssuanceFails \/ CommitAmbiguous \/ CloseOrKill \/ PowerLoss
             \/ RecoveryFails
    <3>1. UNCHANGED version /\ identity' = 1 /\ pc' \in {"ready", "closed"}
        BY <2>1 DEF RefuseLoad, IssuanceFails, CommitAmbiguous, CloseOrKill, PowerLoss,
           RecoveryFails, Return, DropLocals
    <3> QED
        BY <1>0, <1>1, <3>1 DEF Synchronized
  <2>2. CASE BuildFails
    <3>1. UNCHANGED <<version, identity>> /\ pc' = "rRoots"
        BY <2>2 DEF BuildFails, StartRecovery
    <3> QED
        BY <1>0, <1>1, <3>1 DEF Synchronized
  <2>3. CASE RewriteInput
    <3>1. version' = version + 1 /\ UNCHANGED <<diskVars, identity, read, pc>>
        BY <2>3 DEF RewriteInput
    <3>2. identity' <= version' /\ version' # identity'
        BY <1>0, <3>1
    <3> QED
        BY <3>1, <3>2 DEF Contents, Synchronized, OneVersion
  <2> QED
      BY <1>8, <2>1, <2>2, <2>3 DEF Fault
<1> QED
    BY <1>6, <1>7, <1>8 DEF Next

-----------------------------------------------------------------------------
(* RootsFindTheirUnit.                                                      *)

\* What the directory has for a record of attempt a's data.
Finds(a) ==
  /\ Settled(UnitFinal, a) /\ \A n \in Private : Settled(n, 0)
  /\ a \in whole /\ OneVersion(unit[a])

LEMMA FindsAll ==
  ASSUME root \in rootSurvivors
  PROVE  RootsFindTheirUnit <=> \A r \in rootSurvivors : r.seq # 0 => Finds(r.seq)
BY DEF RootsFindTheirUnit, Finds, Settled, OneVersion

LEMMA FindsStep ==
  ASSUME Types, Types', Roots, Names, Contents, RootsFindTheirUnit, Next
  PROVE  RootsFindTheirUnit'
<1>0. /\ \A r \in rootSurvivors : r.seq # 0 => Finds(r.seq)
      /\ root \in LegacyRecord /\ EntryTypes
    BY FindsAll DEF Types, EntryTypes
<1>1. SUFFICES \A r \in rootSurvivors' : r.seq # 0 => Finds(r.seq)'
  <2>1. root' \in rootSurvivors'
      BY DEF Types
  <2> QED
      BY <2>1 DEF RootsFindTheirUnit, Finds, Settled, OneVersion
<1>2. ASSUME rootSurvivors' \subseteq rootSurvivors, whole \subseteq whole',
             UNCHANGED <<entry, survivors, unit>>
      PROVE  \A r \in rootSurvivors' : r.seq # 0 => Finds(r.seq)'
    BY <1>0, <1>2 DEF Finds, Settled, OneVersion
<1>3. ASSUME pc \in {"rRemove"} \union Building, rootSurvivors' = rootSurvivors
      PROVE  \A r \in rootSurvivors' : r.seq # 0 => Finds(r.seq)'
    BY <1>3 DEF Roots
<1> USE DEF Goto, diskVars, loadVars
<1>4. ASSUME NEW from, NEW to, NEW ns, SyncDirectory(from, to, ns)
      PROVE  \A r \in rootSurvivors' : r.seq # 0 => Finds(r.seq)'
  <2>1. /\ UNCHANGED <<rootSurvivors, entry, unit, whole>>
        /\ \A m \in Name : survivors'[m] = IF m \in ns THEN {entry[m]} ELSE survivors[m]
      BY <1>4, SettleSome DEF SyncDirectory
  <2>2. \A n \in Name : \A a : Settled(n, a) => Settled(n, a)'
      BY <2>1 DEF Settled
  <2>3. \A r \in rootSurvivors : r.seq # 0 => Finds(r.seq)'
      BY <1>0, <2>1, <2>2, NamesApart DEF Finds, OneVersion
  <2> QED
      BY <2>1, <2>3
<1>6. CASE RecoverStep
  <2>1. CASE Open \/ RecoverRoots \/ RecoverNamesDone \/ OpenDone \/ RecoveredBeforeLoad
               \/ RolledBack
    <3>1. /\ rootSurvivors' \subseteq rootSurvivors /\ UNCHANGED <<entry, survivors, unit, whole>>
        BY <2>1 DEF Open, StartRecovery, RecoverRoots, RecoverNamesDone, OpenDone,
           RecoveredBeforeLoad, RolledBack, Types
    <3> QED
        BY <1>2, <3>1
  <2>2. CASE RecoverName
    <3>1. pc = "rRemove" /\ rootSurvivors' = rootSurvivors
        BY <2>2 DEF RecoverName
    <3> QED
        BY <1>3, <3>1
  <2> QED
      BY <1>4, <1>6, <2>1, <2>2 DEF RecoverStep
<1>7. CASE LoadStep
  <2>1. CASE \/ BeginLoad \/ InspectInput \/ EndFirstPass \/ Reserve \/ Issued
             \/ VerifyUnit \/ CheckAfterBuild \/ Loaded
    <3>1. UNCHANGED <<rootSurvivors, entry, survivors, unit, whole>>
        BY <2>1 DEF BeginLoad, StartRecovery, InspectInput, EndFirstPass, Reserve, Issued,
           VerifyUnit, CheckAfterBuild, Loaded
    <3> QED
        BY <1>2, <3>1
  <2>2. ASSUME NEW from, NEW to,
               \/ OpenPass(from, to) \/ ReadRow(from) \/ SyncRoot(from, to)
        PROVE  \A r \in rootSurvivors' : r.seq # 0 => Finds(r.seq)'
    <3>1. rootSurvivors' \subseteq rootSurvivors /\ UNCHANGED <<entry, survivors, unit, whole>>
        BY <2>2 DEF OpenPass, ReadRow, SyncRoot, Types
    <3> QED
        BY <1>2, <3>1
  <2>3. CASE \/ CreateStaging \/ CreatePrivateUnit \/ AssembleUnit \/ SyncUnit
             \/ RemoveStaging \/ LinkUnit \/ RemovePrivateUnit
    <3>1. pc \in Building /\ rootSurvivors' = rootSurvivors
        BY <2>3 DEF CreateStaging, CreatePrivateUnit, AssembleUnit, Assembled, SyncUnit,
           RemoveStaging, LinkUnit, RemovePrivateUnit, Building
    <3> QED
        BY <1>3, <3>1
  <2>4. CASE Issue
    <3>1. /\ rootSurvivors' = rootSurvivors \union {NextIssued}
          /\ UNCHANGED <<entry, survivors, unit, whole>> /\ pc \in Fetching
        BY <2>4 DEF Issue, RenameRoot, Fetching
    <3>2. (\A r \in rootSurvivors : r.seq = 0) /\ root \in rootSurvivors
        BY <3>1 DEF Roots, Types
    <3>3. NextIssued.seq = 0
        BY <1>0, <3>2 DEF NextIssued, LegacyRecord, Record
    <3> QED
        BY <3>1, <3>2, <3>3
  <2>5. CASE RenameRoot("publish", "publishSync", NextData)
    <3>1. /\ rootSurvivors' = rootSurvivors \union {NextData} /\ pc = "publish"
          /\ UNCHANGED <<entry, survivors, unit, whole>>
        BY <2>5 DEF RenameRoot
    <3>2. \A r \in rootSurvivors : r.seq = 0
        BY <3>1 DEF Roots, Building
    <3>3. NextData.seq = root.issued
        BY DEF NextData
    <3>4. /\ Settled(UnitFinal, root.issued) /\ (\A c \in Column : Settled(c, 0))
          /\ Settled(UnitNext, 0) /\ root.issued \in whole
        BY <3>1 DEF Names, Linked, Unstaged, Synchronized, Settled
    <3>5. \A n \in Private : Settled(n, 0)
        BY <3>4, NamesApart
    <3>6. OneVersion(unit[root.issued])
        BY <3>1 DEF Contents, Synchronized
    <3>7. Finds(root.issued)
        BY <3>4, <3>5, <3>6 DEF Finds
    <3>8. \A r \in rootSurvivors' : r.seq # 0 => r.seq = root.issued
        BY <3>1, <3>2, <3>3
    <3>9. ASSUME NEW r \in rootSurvivors', r.seq # 0 PROVE Finds(r.seq)'
        BY <3>1, <3>7, <3>8, <3>9 DEF Finds, Settled, OneVersion
    <3> QED
        BY <3>9
  <2> QED
      BY <1>4, <1>7, <2>1, <2>2, <2>3, <2>4, <2>5 DEF LoadStep
<1>8. CASE Fault
  <2>1. CASE \/ RecoveryFails \/ RefuseLoad \/ IssuanceFails \/ BuildFails \/ CommitAmbiguous
             \/ CloseOrKill \/ RewriteInput
    <3>1. UNCHANGED <<rootSurvivors, entry, survivors, unit, whole>>
        BY <2>1 DEF RecoveryFails, RefuseLoad, IssuanceFails, BuildFails, StartRecovery,
           CommitAmbiguous, CloseOrKill, RewriteInput, Return
    <3> QED
        BY <1>2, <3>1
  <2>2. CASE PowerLoss
    <3>1. /\ rootSurvivors' \subseteq rootSurvivors /\ UNCHANGED <<unit, whole>>
          /\ \A n \in Name : entry'[n] \in survivors[n] /\ survivors'[n] = {entry'[n]}
        BY <2>2 DEF PowerLoss
    <3>2. \A n \in Name : \A a : Settled(n, a) => Settled(n, a)'
        BY <3>1 DEF Settled
    <3>3. ASSUME NEW r \in rootSurvivors', r.seq # 0 PROVE Finds(r.seq)'
        BY <1>0, <3>1, <3>2, <3>3, NamesApart DEF Finds, OneVersion
    <3> QED
        BY <3>3
  <2> QED
      BY <1>8, <2>1, <2>2 DEF Fault
<1> QED
    BY <1>6, <1>7, <1>8 DEF Next

-----------------------------------------------------------------------------
(* Sizes.                                                                   *)

\* Steps outside an attempt, which leave the unit files alone.
LEMMA SizesOutside ==
  ASSUME Sizes, rootSurvivors' \subseteq rootSurvivors, UNCHANGED unit,
         pc' \notin {"issue", "issueSync", "issued"} \union Building
  PROVE  Sizes'
<1>1. \A a \in Attempt : unit'[a] = unit[a]
    OBVIOUS
<1> QED
    BY <1>1 DEF Sizes, Synchronized, Building

\* Steps from the unit's synchronization on.
LEMMA SizesAfter ==
  ASSUME Sizes, UNCHANGED <<root, rootSurvivors, unit, staged, first, reserved>>,
         pc \in {"assembled"} \union Synchronized, pc' \in Synchronized
  PROVE  Sizes'
<1>1. pc' \notin {"issue", "issueSync", "issued", "create", "open2", "scan2", "assemble",
                  "verify"}
      /\ pc \in Building /\ pc' \in Building
    BY DEF Synchronized, Building
<1> QED
    BY <1>1 DEF Sizes

LEMMA SizesStep ==
  ASSUME Types, Types', Roots, Names, Sizes, Next
  PROVE  Sizes'
<1>0. /\ root \in rootSurvivors /\ root \in LegacyRecord /\ Len(first) \in Nat
      /\ read \in Seq(Version) /\ Len(read) \in Nat /\ Len(staged) \in Nat
      /\ unit \in [Attempt -> Seq(Cell)]
      /\ rootSurvivors \subseteq LegacyRecord
    BY SequencesOver DEF Types
<1> USE DEF Goto, diskVars, loadVars
<1>6. CASE RecoverStep
  <2>1. /\ UNCHANGED unit /\ pc' \in Recovering \union {"ready", "inspect"}
        /\ rootSurvivors' \subseteq rootSurvivors
      BY <1>0, <1>6 DEF RecoverStep, Open, StartRecovery, RecoverRoots, RecoverName,
         RecoverNamesDone, SyncDirectory, OpenDone, RecoveredBeforeLoad, RolledBack,
         Recovering
  <2> QED
      BY <2>1, SizesOutside DEF Recovering, Building
<1>7. CASE LoadStep
  <2>1. CASE \/ BeginLoad \/ InspectInput \/ EndFirstPass \/ Loaded
             \/ OpenPass("open1", "scan1") \/ SyncRoot("publishSync", "published")
    <3>1. /\ UNCHANGED unit /\ rootSurvivors' \subseteq rootSurvivors
          /\ pc' \in {"rRoots", "open1", "reserve", "ready", "scan1", "published"}
        BY <1>0, <2>1 DEF BeginLoad, StartRecovery, InspectInput, EndFirstPass, Loaded,
           OpenPass, SyncRoot
    <3> QED
        BY <3>1, SizesOutside DEF Building
  <2>2. CASE ReadRow("scan1")
    <3>1. UNCHANGED <<unit, rootSurvivors>> /\ pc' = "scan1"
        BY <2>2 DEF ReadRow
    <3> QED
        BY <3>1, SizesOutside DEF Building
  <2>3. CASE RenameRoot("publish", "publishSync", NextData)
    <3>1. /\ UNCHANGED unit /\ rootSurvivors' = rootSurvivors \union {NextData}
          /\ NextData.issued = root.issued /\ pc' = "publishSync"
        BY <2>3 DEF RenameRoot, NextData
    <3>2. \A r \in rootSurvivors' : \A a \in Attempt : a > r.issued => unit'[a] = <<>>
        BY <1>0, <3>1 DEF Sizes
    <3> QED
        BY <3>1, <3>2 DEF Sizes, Synchronized, Building
  <2>4. CASE Reserve
    <3>1. /\ UNCHANGED <<unit, rootSurvivors, first>> /\ pc' = "issue"
          /\ reserved' = TemporaryPeak(Len(first'))
        BY <2>4 DEF Reserve
    <3> QED
        BY <3>1 DEF Sizes, Synchronized, Building
  <2>5. CASE Issue
    <3>1. /\ UNCHANGED <<unit, first, reserved>> /\ pc' = "issueSync" /\ pc = "issue"
          /\ rootSurvivors' = rootSurvivors \union {NextIssued}
          /\ root' = NextIssued
        BY <2>5 DEF Issue, RenameRoot
    <3>2. root.issued \in Nat /\ root.issued < MaxIssued /\ NextIssued.issued = root.issued + 1
        BY <1>0, <3>1, Records DEF Roots, NextIssued, LegacyRecord, Record
    <3>3. root.issued + 1 \in Attempt
        BY <3>2, LegacyLoadAssumption DEF Attempt
    <3>4. \A a \in Attempt : a \in Nat
        BY DEF Attempt
    <3>5. \A a \in Attempt : a > root.issued => unit[a] = <<>>
        BY <1>0 DEF Sizes
    <3>6. unit[root.issued + 1] = <<>>
        BY <3>2, <3>3, <3>5
    <3>7. \A a \in Attempt : a > NextIssued.issued => unit[a] = <<>>
        BY <3>2, <3>4, <3>5
    <3>8. \A r \in rootSurvivors' : \A a \in Attempt : a > r.issued => unit'[a] = <<>>
        BY <3>1, <3>7 DEF Sizes
    <3>9. unit'[root'.issued] = <<>>
        BY <3>1, <3>2, <3>6
    <3>10. reserved' = TemporaryPeak(Len(first'))
        BY <3>1 DEF Sizes
    <3> QED
        BY <3>1, <3>8, <3>9, <3>10 DEF Sizes, Synchronized, Building
  <2>6. CASE SyncRoot("issueSync", "issued") \/ Issued
    <3>1. /\ UNCHANGED <<unit, first, reserved, root>> /\ rootSurvivors' \subseteq rootSurvivors
          /\ \/ pc = "issueSync" /\ pc' = "issued"
             \/ pc = "issued" /\ pc' = "create" /\ UNCHANGED <<staged, entry>>
        BY <1>0, <2>6 DEF SyncRoot, Issued
    <3>2. \A r \in rootSurvivors' : \A a \in Attempt : a > r.issued => unit'[a] = <<>>
        BY <3>1 DEF Sizes
    <3>3. CASE pc' = "issued"
        BY <3>1, <3>2, <3>3 DEF Sizes, Synchronized, Building
    <3>4. CASE Issued
      <4>1. pc' = "create" /\ pc = "issued"
          BY <3>4 DEF Issued
      <4>2. \A n \in Name : entry'[n] = 0
          BY <3>4 DEF Issued, Names, Settled, Fetching
      <4>3. (Present(Column) = {})'
          BY <4>2, NamesApart DEF Present
      <4> QED
          BY <3>1, <3>2, <4>1, <4>3 DEF Sizes, Synchronized, Building
    <3> QED
        BY <2>6, <3>3, <3>4 DEF SyncRoot
  <2>7. ASSUME pc \in Building, pc' \in Building, UNCHANGED <<root, rootSurvivors, first, reserved>>,
               \/ UNCHANGED unit
               \/ \E rows : unit' = [unit EXCEPT ![root.issued] = rows]
        PROVE  /\ \A r \in rootSurvivors' : \A a \in Attempt : a > r.issued => unit'[a] = <<>>
               /\ reserved' = TemporaryPeak(Len(first'))
    <3>1. rootSurvivors = {root} /\ root.issued \in Nat
        BY <1>0, <2>7, Records DEF Roots
    <3>2. \A a \in Attempt : a > root.issued => unit[a] = <<>>
        BY <1>0 DEF Sizes
    <3>3. ASSUME NEW a \in Attempt, a > root.issued PROVE unit'[a] = <<>>
      <4>1. a # root.issued
          BY <3>1, <3>3 DEF Attempt
      <4> QED
          BY <1>0, <2>7, <3>2, <3>3, <4>1
    <3>4. reserved = TemporaryPeak(Len(first))
        BY <2>7 DEF Sizes
    <3> QED
        BY <2>7, <3>1, <3>3, <3>4
  <2>8. CASE CreateStaging
    <3>1. /\ pc = "create" /\ pc' \in {"create", "open2"} /\ staged' = <<>>
          /\ UNCHANGED <<root, rootSurvivors, first, reserved, unit>>
        BY <2>8 DEF CreateStaging
    <3>2. pc \in Building /\ pc' \in Building
        BY <3>1 DEF Building
    <3> QED
        BY <2>7, <3>1, <3>2 DEF Sizes, Synchronized
  <2>9. CASE OpenPass("open2", "scan2")
    <3>1. /\ pc = "open2" /\ pc' = "scan2" /\ read' = <<>>
          /\ UNCHANGED <<root, rootSurvivors, first, reserved, unit, staged>>
        BY <2>9 DEF OpenPass
    <3>2. pc \in Building /\ pc' \in Building
        BY <3>1 DEF Building
    <3>3. staged = <<>> /\ unit[root.issued] = <<>>
        BY <3>1 DEF Sizes
    <3>4. Len(staged') = Len(read') /\ Len(read') <= Len(first')
        BY <1>0, <3>1, <3>3
    <3> QED
        BY <2>7, <3>1, <3>2, <3>3, <3>4 DEF Sizes, Synchronized
  <2>10. CASE ReadRow("scan2")
    <3>1. /\ pc = "scan2" /\ pc' = "scan2" /\ read' = Append(read, version)
          /\ Len(read) < Len(first)
          /\ staged' = Append(staged, version) \/ staged' = Append(staged, Garbled)
          /\ UNCHANGED <<root, rootSurvivors, first, reserved, unit>>
        BY <2>10 DEF ReadRow, Staged
    <3>2. pc \in Building /\ pc' \in Building
        BY <3>1 DEF Building
    <3>3. Len(staged) = Len(read) /\ unit[root.issued] = <<>>
        BY <3>1 DEF Sizes
    <3>4. /\ version \in Version /\ version \in Cell /\ Garbled \in Cell
          /\ staged \in Seq(Cell)
        BY DEF Types, Cell
    <3>5. Len(read') = Len(read) + 1 /\ Len(staged') = Len(staged) + 1
        BY <1>0, <3>1, <3>4, SequencesOver
    <3>6. Len(staged') = Len(read') /\ Len(read') <= Len(first')
        BY <1>0, <3>1, <3>3, <3>5
    <3> QED
        BY <2>7, <3>1, <3>2, <3>3, <3>6 DEF Sizes, Synchronized
  <2>11. CASE CreatePrivateUnit
    <3>1. /\ pc = "scan2" /\ pc' = "assemble" /\ read = first
          /\ UNCHANGED <<root, rootSurvivors, first, reserved, unit, staged>>
        BY <2>11 DEF CreatePrivateUnit
    <3>2. pc \in Building /\ pc' \in Building
        BY <3>1 DEF Building
    <3>3. Len(staged) = Len(first) /\ unit[root.issued] = <<>>
        BY <3>1 DEF Sizes
    <3> QED
        BY <2>7, <3>1, <3>2, <3>3 DEF Sizes, Synchronized
  <2>12. CASE AssembleUnit
    <3>1. /\ pc = "assemble" /\ pc' = "verify"
          /\ UNCHANGED <<root, rootSurvivors, first, reserved, staged>>
        BY <2>12 DEF AssembleUnit, Assembled
    <3>2. pc \in Building /\ pc' \in Building
        BY <3>1 DEF Building
    <3>3. PICK rows : /\ unit' = [unit EXCEPT ![root.issued] = rows]
                      /\ \/ rows = staged
                         \/ \E i \in DOMAIN staged : rows = [staged EXCEPT ![i] = Garbled]
        BY <2>12 DEF AssembleUnit, Assembled
    <3>4. staged \in Seq(Cell) /\ Garbled \in Cell
        BY DEF Types, Cell
    <3>5. Len(rows) = Len(staged)
        BY <3>3, <3>4, SequencesOver
    <3>6. Len(staged) = Len(first)
        BY <3>1 DEF Sizes
    <3>7. root.issued \in Attempt
        BY <1>0, <3>2, Records DEF Roots
    <3>8. unit'[root.issued] = rows
        BY <1>0, <3>3, <3>7
    <3>9. Len(unit'[root'.issued]) = Len(first') /\ Len(staged') = Len(first')
        BY <3>1, <3>5, <3>6, <3>8
    <3>10. /\ \A r \in rootSurvivors' : \A a \in Attempt : a > r.issued => unit'[a] = <<>>
           /\ reserved' = TemporaryPeak(Len(first'))
        BY <2>7, <3>1, <3>2, <3>3
    <3> QED
        BY <3>1, <3>9, <3>10 DEF Sizes, Synchronized
  <2>13. CASE VerifyUnit
    <3>1. /\ pc = "verify" /\ pc' = "assembled"
          /\ UNCHANGED <<root, rootSurvivors, first, reserved, unit, staged>>
        BY <2>13 DEF VerifyUnit
    <3>2. pc \in Building /\ pc' \in Building
        BY <3>1 DEF Building
    <3>3. Len(staged) <= Len(first)
        BY <1>0, <3>1 DEF Sizes
    <3> QED
        BY <2>7, <3>1, <3>2, <3>3 DEF Sizes, Synchronized
  <2>14. CASE \/ SyncUnit \/ RemoveStaging \/ CheckAfterBuild \/ LinkUnit \/ RemovePrivateUnit
    <3>1. /\ pc \in {"assembled"} \union Synchronized /\ pc' \in Synchronized
          /\ UNCHANGED <<root, rootSurvivors, unit, staged, first, reserved>>
        BY <2>14 DEF SyncUnit, RemoveStaging, CheckAfterBuild, LinkUnit, RemovePrivateUnit,
           Synchronized
    <3> QED
        BY <3>1, SizesAfter
  <2>15. CASE \/ SyncDirectory("syncUnstaged", "recheck", Private)
              \/ SyncDirectory("syncLinked", "unlink", {UnitFinal})
              \/ SyncDirectory("syncUnlinked", "publish", Private)
    <3>1. /\ pc \in {"assembled"} \union Synchronized /\ pc' \in Synchronized
          /\ UNCHANGED <<root, rootSurvivors, unit, staged, first, reserved>>
        BY <2>15 DEF SyncDirectory, Synchronized
    <3> QED
        BY <3>1, SizesAfter
  <2> QED
      BY <1>7, <2>1, <2>2, <2>3, <2>4, <2>5, <2>6, <2>8, <2>9, <2>10, <2>11, <2>12, <2>13,
         <2>14, <2>15 DEF LoadStep
<1>8. CASE Fault
  <2>1. CASE \/ RecoveryFails \/ RefuseLoad \/ IssuanceFails \/ BuildFails \/ CommitAmbiguous
             \/ CloseOrKill \/ PowerLoss
    <3>1. /\ UNCHANGED unit /\ rootSurvivors' \subseteq rootSurvivors
          /\ pc' \in {"ready", "closed", "rRoots"}
        BY <2>1 DEF RecoveryFails, RefuseLoad, IssuanceFails, BuildFails, StartRecovery,
           CommitAmbiguous, CloseOrKill, PowerLoss, Return
    <3> QED
        BY <3>1, SizesOutside DEF Building
  <2>2. CASE RewriteInput
    <3>1. UNCHANGED <<root, rootSurvivors, unit, staged, first, read, reserved, pc, entry>>
        BY <2>2 DEF RewriteInput
    <3> QED
        BY <3>1 DEF Sizes, Present
  <2> QED
      BY <1>8, <2>1, <2>2 DEF Fault
<1> QED
    BY <1>6, <1>7, <1>8 DEF Next

-----------------------------------------------------------------------------
(* ChargeCoversFiles.                                                       *)

LEMMA NothingToCover ==
  ASSUME \A n \in Name : entry[n] = 0, NEW limit \in Nat
  PROVE  FilesWithin(limit)
BY NamesApart DEF FilesWithin, StagingBytes, Present

\* While a unit is built its load's peak covers the staging files and the unit.
LEMMA BuildingCovered ==
  Types /\ Roots /\ Names /\ Sizes /\ pc \in Building => FilesWithin(reserved)
<1> SUFFICES ASSUME Types, Roots, Names, Sizes, pc \in Building
             PROVE  FilesWithin(reserved)
    OBVIOUS
<1>0. /\ Len(first) \in Nat /\ Len(staged) \in Nat /\ staged \in Seq(Cell)
      /\ reserved = Len(first) + (Len(first) + 1)
      /\ root.issued # 0 /\ root \in LegacyRecord /\ unit \in [Attempt -> Seq(Cell)]
    BY SequencesOver DEF Types, Roots, Sizes, TemporaryPeak, UnitBytes
<1>1. root.issued \in Attempt /\ Len(unit[root.issued]) \in Nat
    BY <1>0, Records, SequencesOver
<1>2. StagingBytes \in Nat /\ StagingBytes <= Len(first)
  <2>1. CASE pc = "create"
    <3>1. Present(Column) # {} => staged = <<>>
        BY <2>1 DEF Sizes
    <3> QED
        BY <1>0, <3>1 DEF StagingBytes
  <2>2. CASE pc = "open2"
      BY <1>0, <2>2 DEF Sizes, StagingBytes
  <2>3. CASE pc = "scan2"
    <3>1. Len(staged) <= Len(first)
        BY <2>3 DEF Sizes
    <3> QED
        BY <1>0, <3>1 DEF StagingBytes
  <2>4. CASE pc \in {"assemble", "verify"}
      BY <1>0, <2>4 DEF Sizes, StagingBytes
  <2>5. CASE pc \in {"assembled"} \union Synchronized
    <3>1. Len(staged) <= Len(first)
        BY <2>5 DEF Sizes
    <3> QED
        BY <1>0, <3>1 DEF StagingBytes
  <2> QED
      BY <2>1, <2>2, <2>3, <2>4, <2>5 DEF Building, Synchronized
<1>3. entry[UnitNext] \in {0, root.issued} /\ entry[UnitFinal] \in {0, root.issued}
  <2>1. entry[UnitNext] \in {0, root.issued}
      BY DEF Names, Settled, Building, Synchronized
  <2>2. entry[UnitFinal] \in {0, root.issued}
      BY DEF Names, Settled, Building, Unlinked, Linked
  <2> QED
      BY <2>1, <2>2
<1>4. pc \in {"create", "open2", "scan2"} =>
        entry[UnitNext] = 0 /\ entry[UnitFinal] = 0
    BY DEF Names, Settled, Unlinked
<1>5. pc \notin {"create", "open2", "scan2"} => Len(unit[root.issued]) <= Len(first)
  <2>1. CASE pc = "assemble"
    <3>1. unit[root.issued] = <<>>
        BY <2>1 DEF Sizes
    <3> QED
        BY <1>0, <3>1
  <2>2. CASE pc \in {"verify", "assembled"} \union Synchronized
    <3>1. Len(unit[root.issued]) = Len(first)
        BY <2>2 DEF Sizes
    <3> QED
        BY <1>0, <3>1
  <2> QED
      BY <2>1, <2>2 DEF Building, Synchronized
<1>6. ASSUME NEW n \in Present({UnitNext, UnitFinal})
      PROVE  StagingBytes + UnitBytes(Len(unit[entry[n]])) <= reserved
  <2>1. entry[n] = root.issued /\ pc \notin {"create", "open2", "scan2"}
      BY <1>3, <1>4, <1>6 DEF Present
  <2>2. Len(unit[root.issued]) <= Len(first)
      BY <1>5, <2>1
  <2>3. StagingBytes + (Len(unit[root.issued]) + 1) <= reserved
      BY <1>0, <1>1, <1>2, <2>2
  <2> QED
      BY <2>1, <2>3 DEF UnitBytes
<1>7. StagingBytes <= reserved
    BY <1>0, <1>2
<1> QED
    BY <1>6, <1>7 DEF FilesWithin

\* Files and charge as they were.
LEMMA CoverStill ==
  ASSUME UNCHANGED <<entry, staged, unit, reserved>>, FilesWithin(reserved)
  PROVE  FilesWithin(reserved)'
BY DEF FilesWithin, StagingBytes, Present

LEMMA ChargeStep ==
  ASSUME Types, Types', Roots, Roots', Names, Names', Sizes, Sizes',
         ChargeCoversFiles, Next
  PROVE  ChargeCoversFiles'
<1>0. SUFFICES ASSUME Handle', state' # "Loaded"
               PROVE  FilesWithin(reserved)'
    BY DEF ChargeCoversFiles
<1>1. CASE (pc \in Building)'
    BY <1>1, BuildingCovered, PTL
<1>2. CASE pc' \in Fetching \/ state' = "Empty"
  <2>1. \A n \in Name : entry'[n] = 0
      BY <1>2 DEF Names, Settled
  <2>2. reserved' \in Nat
      BY DEF Types
  <2> QED
      BY <2>1, <2>2, NamesApart DEF FilesWithin, StagingBytes, Present
<1>3. ASSUME pc' \notin Building \union Fetching, state' # "Empty"
      PROVE  FilesWithin(reserved)'
  <2> USE DEF Goto, diskVars, loadVars
  <2>0. ASSUME Handle, state # "Loaded", UNCHANGED <<entry, staged, unit, reserved>>
        PROVE  FilesWithin(reserved)'
      BY <2>0, CoverStill DEF ChargeCoversFiles
  <2>6. CASE RecoverStep
    <3>1. CASE Open
        BY <1>0, <3>1 DEF Open, StartRecovery, Handle, Recovering
    <3>2. CASE \/ RecoverRoots \/ RecoverNamesDone
               \/ SyncDirectory("rUnits", "rPrivate", {UnitFinal})
               \/ SyncDirectory("rPrivate", "rDone", Private)
      <4>1. /\ UNCHANGED <<entry, staged, unit, reserved, why, state>>
            /\ pc \in Recovering /\ pc' \in Recovering
          BY <3>2 DEF RecoverRoots, RecoverNamesDone, SyncDirectory, Recovering
      <4>2. Handle /\ state # "Loaded"
          BY <1>0, <4>1 DEF Handle, Recovering
      <4> QED
          BY <2>0, <4>1, <4>2
    <3>3. CASE RecoverName
      <4>1. /\ UNCHANGED <<staged, unit, reserved, why, state, pc>>
            /\ pc \in Recovering
          BY <3>3 DEF RecoverName, Recovering
      <4>2. Handle /\ state # "Loaded"
          BY <1>0, <4>1 DEF Handle
      <4>3. FilesWithin(reserved)
          BY <4>2 DEF ChargeCoversFiles
      <4>4. PICK m \in Name : PutEntry(m, 0)
          BY <3>3 DEF RecoverName, Present
      <4>5. \A n \in Name : entry'[n] # 0 => entry[n] # 0 /\ entry'[n] = entry[n]
          BY <4>4, PutOne DEF Types, EntryTypes
      <4>6. Present(Column)' \subseteq Present(Column)
          BY <4>5, NamesApart DEF Present
      <4>7. /\ Present({UnitNext, UnitFinal})' \subseteq Present({UnitNext, UnitFinal})
            /\ \A n \in Present({UnitNext, UnitFinal})' : entry'[n] = entry[n]
          BY <4>5, NamesApart DEF Present
      <4>8. Len(staged) \in Nat /\ reserved \in Nat
          BY SequencesOver DEF Types
      <4>9. /\ StagingBytes \in Nat /\ StagingBytes' \in Nat
            /\ StagingBytes' <= StagingBytes
          BY <4>1, <4>6, <4>8 DEF StagingBytes
      <4>10. ASSUME NEW n \in Present({UnitNext, UnitFinal})'
             PROVE  StagingBytes' + UnitBytes(Len(unit[entry[n]])) <= reserved
        <5>1. n \in Name /\ entry[n] # 0 /\ entry[n] \in 0 .. MaxIssued
            BY <4>7, NamesApart DEF Present, Types
        <5>2. entry[n] \in Attempt
            BY <5>1, LegacyLoadAssumption DEF Attempt
        <5>3. Len(unit[entry[n]]) \in Nat
            BY <5>2, SequencesOver DEF Types
        <5>4. StagingBytes + UnitBytes(Len(unit[entry[n]])) <= reserved
            BY <4>3, <4>7 DEF FilesWithin
        <5> QED
            BY <4>8, <4>9, <5>3, <5>4 DEF UnitBytes
      <4>11. StagingBytes' <= reserved
          BY <4>3, <4>8, <4>9 DEF FilesWithin
      <4>12. \A n \in Present({UnitNext, UnitFinal})' :
               StagingBytes' + UnitBytes(Len(unit'[entry'[n]])) <= reserved'
          BY <4>1, <4>7, <4>10
      <4> QED
          BY <4>1, <4>11, <4>12 DEF FilesWithin
    <3>4. CASE OpenDone \/ RecoveredBeforeLoad \/ RolledBack
        BY <1>0, <1>3, <3>4 DEF OpenDone, RecoveredBeforeLoad, RolledBack, Fetching
    <3> QED
        BY <2>6, <3>1, <3>2, <3>3, <3>4 DEF RecoverStep
  <2>7. CASE LoadStep
    <3>1. CASE BeginLoad
      <4>1. /\ UNCHANGED <<entry, staged, unit, reserved>> /\ state = "Empty" /\ pc = "ready"
          BY <3>1 DEF BeginLoad, StartRecovery
      <4> QED
          BY <2>0, <4>1 DEF Handle, Recovering
    <3>2. CASE Loaded
        BY <1>0, <3>2 DEF Loaded
    <3>3. CASE RenameRoot("publish", "publishSync", NextData)
               \/ SyncRoot("publishSync", "published")
      <4>1. /\ UNCHANGED <<entry, staged, unit, reserved, state>>
            /\ pc \in {"publish", "publishSync"}
          BY <3>3 DEF RenameRoot, SyncRoot
      <4> QED
          BY <1>0, <2>0, <4>1 DEF Handle, Recovering
    <3>4. CASE \/ InspectInput \/ EndFirstPass \/ Reserve \/ Issue \/ Issued
               \/ CreateStaging \/ CreatePrivateUnit \/ AssembleUnit \/ VerifyUnit
               \/ SyncUnit \/ RemoveStaging \/ CheckAfterBuild \/ LinkUnit
               \/ RemovePrivateUnit
      <4>1. pc' \in Building \union Fetching
          BY <3>4 DEF InspectInput, EndFirstPass, Reserve, Issue, RenameRoot, Issued,
             CreateStaging, CreatePrivateUnit, AssembleUnit, VerifyUnit, SyncUnit,
             RemoveStaging, CheckAfterBuild, LinkUnit, RemovePrivateUnit, Fetching, Building
      <4> QED
          BY <1>3, <4>1
    <3>5. CASE \/ OpenPass("open1", "scan1") \/ ReadRow("scan1")
               \/ OpenPass("open2", "scan2") \/ ReadRow("scan2")
               \/ SyncRoot("issueSync", "issued")
      <4>1. pc' \in Building \union Fetching
          BY <3>5 DEF OpenPass, ReadRow, SyncRoot, Fetching, Building
      <4> QED
          BY <1>3, <4>1
    <3>6. CASE \/ SyncDirectory("syncUnstaged", "recheck", Private)
               \/ SyncDirectory("syncLinked", "unlink", {UnitFinal})
               \/ SyncDirectory("syncUnlinked", "publish", Private)
      <4>1. pc' \in Building
          BY <3>6 DEF SyncDirectory, Building
      <4> QED
          BY <1>3, <4>1
    <3> QED
        BY <2>7, <3>1, <3>2, <3>3, <3>4, <3>5, <3>6 DEF LoadStep
  <2>8. CASE Fault
    <3>1. CASE RecoveryFails
      <4>1. /\ pc \in Recovering /\ pc' = IF why = "open" THEN "closed" ELSE "ready"
            /\ UNCHANGED <<entry, staged, unit, reserved, state>>
          BY <3>1 DEF RecoveryFails
      <4>2. Handle
          BY <1>0, <4>1 DEF Handle, Recovering
      <4> QED
          BY <1>0, <2>0, <4>1, <4>2
    <3>2. CASE RefuseLoad
      <4>1. /\ UNCHANGED <<entry, staged, unit, reserved, state>> /\ pc \in Fetching
          BY <3>2 DEF RefuseLoad, Return, Fetching
      <4> QED
          BY <1>0, <2>0, <4>1 DEF Handle, Fetching, Recovering
    <3>3. CASE IssuanceFails
      <4>1. /\ UNCHANGED <<entry, staged, unit>> /\ pc \in Fetching /\ reserved' = 0
          BY <3>3 DEF IssuanceFails, Return, Fetching
      <4>2. \A n \in Name : entry'[n] = 0
          BY <4>1 DEF Names, Settled
      <4> QED
          BY <4>1, <4>2, NamesApart DEF FilesWithin, StagingBytes, Present
    <3>4. CASE BuildFails
      <4>1. UNCHANGED <<entry, staged, unit, reserved, state>> /\ pc \in Building
          BY <3>4 DEF BuildFails, StartRecovery
      <4> QED
          BY <1>0, <2>0, <4>1 DEF Handle, Building, Recovering
    <3>5. CASE CommitAmbiguous
      <4>1. /\ UNCHANGED <<entry, staged, unit, reserved, state>>
            /\ pc \in {"publish", "publishSync", "published"}
          BY <3>5 DEF CommitAmbiguous, Return
      <4> QED
          BY <1>0, <2>0, <4>1 DEF Handle, Recovering
    <3>6. CASE CloseOrKill \/ PowerLoss
        BY <1>0, <3>6 DEF CloseOrKill, PowerLoss, Handle
    <3>7. CASE RewriteInput
      <4>1. UNCHANGED <<entry, staged, unit, reserved, state, pc, why>>
          BY <3>7 DEF RewriteInput
      <4> QED
          BY <1>0, <2>0, <4>1 DEF Handle
    <3> QED
        BY <2>8, <3>1, <3>2, <3>3, <3>4, <3>5, <3>6, <3>7 DEF Fault
  <2> QED
      BY <2>6, <2>7, <2>8 DEF Next
<1> QED
    BY <1>1, <1>2, <1>3

-----------------------------------------------------------------------------
(* What callers know.                                                       *)

LEMMA Statuses ==
  /\ Promise!Unknown # Promise!Pending /\ Promise!Unknown # Promise!Aborted
  /\ Promise!Pending # Promise!Aborted
  /\ Promise!Unknown.status # "durable" /\ Promise!Pending.status # "durable"
  /\ Promise!Aborted.status # "durable"
BY DEF Promise!Unknown, Promise!Pending, Promise!Aborted

\* The answers of an empty record, and of those that continue it.
LEMMA Resolutions ==
  ASSUME NEW k \in LegacyRecord, k.seq = 0, NEW a \in Attempt
  PROVE  /\ Resolution(k, a) = IF k.issued < a THEN Promise!Unknown ELSE Promise!Aborted
         /\ Resolution(Issuing(k), a) =
              IF a = k.issued + 1 THEN Promise!Aborted ELSE Resolution(k, a)
         /\ Resolution(Committing(k), a) =
              IF a = k.issued THEN Promise!Durable(1) ELSE Resolution(k, a)
<1>1. k.issued \in Nat /\ a \in Nat /\ a # 0
    BY Records DEF Attempt
<1>2. /\ Issuing(k).issued = k.issued + 1 /\ Issuing(k).seq = 0
      /\ Committing(k).issued = k.issued /\ Committing(k).seq = k.issued
    BY DEF Issuing, Committing
<1> QED
    BY <1>1, <1>2 DEF Resolution

LEMMA ResolutionTypes ==
  ASSUME NEW r, NEW a
  PROVE  Resolution(r, a) \in Answer
BY DEF Resolution, Answer

\* The pending attempt of an empty record ends, or becomes known.
LEMMA Ends ==
  ASSUME NEW k \in LegacyRecord, k.issued # 0, Tells(k, k.issued),
         outcome \in [Attempt -> Answer]
  PROVE  /\ k.issued \in Attempt /\ k.seq = 0
         /\ outcome' = [outcome EXCEPT ![k.issued] = Promise!Aborted] =>
              \A a \in Attempt : outcome'[a] = Resolution(k, a)
         /\ outcome' = [outcome EXCEPT ![k.issued] = Promise!Durable(1)] =>
              \A a \in Attempt : outcome'[a] = Resolution(Committing(k), a)
<1>1. /\ k.issued \in Attempt /\ k.seq = 0 /\ k.issued \in Nat
      /\ \A a \in Attempt : a # k.issued => outcome[a] = Resolution(k, a)
    BY Records DEF Tells
<1>2. Resolution(k, k.issued) = Promise!Aborted
    BY <1>1, Resolutions
<1>3. \A a \in Attempt : a # k.issued => Resolution(Committing(k), a) = Resolution(k, a)
    BY <1>1, Resolutions
<1>4. Resolution(Committing(k), k.issued) = Promise!Durable(1)
    BY <1>1, Resolutions
<1>5. ASSUME NEW v, outcome' = [outcome EXCEPT ![k.issued] = v], NEW a \in Attempt
      PROVE  outcome'[a] = IF a = k.issued THEN v ELSE outcome[a]
    BY <1>5
<1> QED
    BY <1>1, <1>2, <1>3, <1>4, <1>5

LEMMA Exposes ==
  ASSUME NEW k \in LegacyRecord, k.seq = 0, k.issued < MaxIssued, Tells(k, 0),
         outcome \in [Attempt -> Answer],
         outcome' = [outcome EXCEPT ![k.issued + 1] = Promise!Pending]
  PROVE  \A a \in Attempt :
           outcome'[a] = IF a = k.issued + 1 THEN Promise!Pending
                         ELSE Resolution(Issuing(k), a)
<1>1. \A a \in Attempt : a \in Nat /\ a # 0
    BY DEF Attempt
<1>2. \A a \in Attempt : outcome[a] = Resolution(k, a)
    BY <1>1 DEF Tells
<1>3. \A a \in Attempt : a # k.issued + 1 => Resolution(Issuing(k), a) = Resolution(k, a)
    BY Resolutions
<1>4. \A a \in Attempt :
        outcome'[a] = IF a = k.issued + 1 THEN Promise!Pending ELSE outcome[a]
    OBVIOUS
<1> QED
    BY <1>2, <1>3, <1>4

LEMMA ToldStep ==
  ASSUME Types, Types', Roots, Told, Next
  PROVE  Told'
<1>0. /\ root \in rootSurvivors /\ root \in LegacyRecord /\ rootSurvivors \subseteq LegacyRecord
      /\ outcome \in [Attempt -> Answer]
      /\ \A a \in Attempt : a # 0
    BY DEF Types, Told, Attempt
<1> DEFINE Known == \E k \in LegacyRecord : \E p \in 0 .. MaxIssued :
                      Tells(k, p) /\ \A r \in rootSurvivors : Continues(r, k, p)
<1>1. ASSUME outcome' = outcome, rootSurvivors' \subseteq rootSurvivors
      PROVE  Known' /\ outcome' \in [Attempt -> Answer]
  <2>1. PICK k \in LegacyRecord, p \in 0 .. MaxIssued :
          Tells(k, p) /\ \A r \in rootSurvivors : Continues(r, k, p)
      BY DEF Told
  <2>2. Tells(k, p)' /\ \A r \in rootSurvivors' : Continues(r, k, p)
      BY <1>1, <2>1 DEF Tells
  <2> QED
      BY <1>0, <1>1, <2>2
<1>2. ASSUME UNCHANGED <<outcome, root>>
      PROVE  /\ Tells(root, 0) => Tells(root, 0)'
             /\ Tells(root, root.issued) => Tells(root, root.issued)'
    BY <1>2 DEF Tells
<1>3. ASSUME Known', outcome' \in [Attempt -> Answer], state' # "Empty",
             pc' \in {"ready", "closed"}
      PROVE  Told'
    BY <1>3 DEF Told, Recovering, Building, Publishing
<1> HIDE DEF Known
<1> USE DEF Goto, diskVars, loadVars
\* Steps of recovery that stay in it.
<1>4. ASSUME UNCHANGED <<outcome, root, why, state>>, rootSurvivors' \subseteq rootSurvivors,
             pc \in Recovering, pc' \in Recovering
      PROVE  Told'
  <2>1. Known' /\ outcome' \in [Attempt -> Answer]
      BY <1>1, <1>4
  <2>2. state # "Empty"
      BY <1>4 DEF Roots, Recovering
  <2>3. /\ why = "load" => Tells(root, 0)'
        /\ why = "rollback" => Tells(root, root.issued)' /\ root.issued # 0
      BY <1>2, <1>4 DEF Told
  <2> QED
      BY <1>4, <2>1, <2>2, <2>3 DEF Told, Known, Recovering, Building, Publishing
\* Steps of construction.
<1>5. ASSUME UNCHANGED <<outcome, root, rootSurvivors, state>>, pc \in Building,
             \/ pc' \in Building
             \/ pc' \in Recovering /\ why' = "rollback"
      PROVE  Told'
  <2>1. Known' /\ outcome' \in [Attempt -> Answer]
      BY <1>1, <1>5
  <2>2. state # "Empty"
      BY <1>5 DEF Roots, Building
  <2>3. Tells(root, root.issued)' /\ root.issued # 0
      BY <1>2, <1>5 DEF Told
  <2> QED
      BY <1>5, <2>1, <2>2, <2>3 DEF Told, Known, Recovering, Building, Publishing
\* Steps before an attempt is issued.
<1>6. ASSUME UNCHANGED <<outcome, root, rootSurvivors>>,
             pc \in {"inspect", "open1", "scan1", "reserve"} \/ state = "Empty",
             \/ pc' \in {"ready", "inspect", "open1", "scan1", "reserve", "issue"}
             \/ pc' \in Recovering /\ why' = "load"
      PROVE  Told'
  <2>1. Known' /\ outcome' \in [Attempt -> Answer]
      BY <1>1, <1>6
  <2>2. Tells(root, 0)'
      BY <1>2, <1>6 DEF Told
  <2> QED
      BY <1>6, <2>1, <2>2 DEF Told, Known, Recovering, Building, Publishing
\* All attempts have ended as the roots say.
<1>7. ASSUME \A a \in Attempt : outcome'[a] = Resolution(root, a), root' = root,
             rootSurvivors = {root}, rootSurvivors' = {root},
             outcome' \in [Attempt -> Answer]
      PROVE  Known' /\ Tells(root, 0)'
  <2>1. \A a \in Attempt : outcome'[a] = IF a = 0 THEN Promise!Pending ELSE Resolution(root, a)
      BY <1>0, <1>7
  <2>2. \A p : Tells(root, p)' <=>
          /\ p # 0 => root.seq = 0 /\ p = root.issued
          /\ \A a \in Attempt :
               outcome'[a] = IF a = p THEN Promise!Pending ELSE Resolution(root, a)
      BY <1>7 DEF Tells
  <2>3. Tells(root, 0)'
      BY <1>7, <2>1 DEF Tells
  <2>4. \A r \in rootSurvivors' : Continues(r, root, 0)
      BY <1>7 DEF Continues
  <2>5. \A k : k = root => Tells(k, 0)'
      BY <2>1 DEF Tells
  <2>6. 0 \in 0 .. MaxIssued
      BY LegacyLoadAssumption
  <2>7. \E k \in LegacyRecord : \E p \in 0 .. MaxIssued :
          Tells(k, p)' /\ \A r \in rootSurvivors' : Continues(r, k, p)
      BY <1>0, <2>4, <2>5, <2>6
  <2> QED
      BY <2>3, <2>7 DEF Known
<1>8. CASE RecoverStep
  <2>1. CASE Open
    <3>1. /\ UNCHANGED <<outcome, root, rootSurvivors, state>> /\ pc = "closed"
          /\ pc' = "rRoots" /\ why' = "open"
        BY <2>1 DEF Open, StartRecovery
    <3>2. Known' /\ outcome' \in [Attempt -> Answer] /\ state' # "Empty"
        BY <1>1, <3>1 DEF Roots
    <3> QED
        BY <3>1, <3>2 DEF Told, Known, Recovering, Building, Publishing
  <2>2. CASE \/ RecoverRoots \/ RecoverName \/ RecoverNamesDone
             \/ SyncDirectory("rUnits", "rPrivate", {UnitFinal})
             \/ SyncDirectory("rPrivate", "rDone", Private)
    <3>1. /\ UNCHANGED <<outcome, root, why, state>> /\ rootSurvivors' \subseteq rootSurvivors
          /\ pc \in Recovering /\ pc' \in Recovering
        BY <1>0, <2>2 DEF RecoverRoots, RecoverName, RecoverNamesDone, SyncDirectory, Recovering
    <3> QED
        BY <1>4, <3>1
  <2>3. CASE OpenDone
    <3>1. /\ UNCHANGED <<root, rootSurvivors>> /\ pc = "rDone" /\ pc' = "ready"
          /\ outcome' = [a \in Attempt |-> Resolution(root, a)]
        BY <2>3 DEF OpenDone
    <3>2. rootSurvivors = {root}
        BY <3>1 DEF Roots
    <3>3. outcome' \in [Attempt -> Answer] /\ \A a \in Attempt : outcome'[a] = Resolution(root, a)
        BY <3>1, ResolutionTypes
    <3>4. Known' /\ Tells(root, 0)'
        BY <1>7, <3>1, <3>2, <3>3
    <3> QED
        BY <3>1, <3>3, <3>4 DEF Told, Known, Recovering, Building, Publishing
  <2>4. CASE RecoveredBeforeLoad
    <3>1. /\ UNCHANGED <<outcome, root, rootSurvivors>> /\ pc \in Recovering /\ why = "load"
          /\ pc' = "inspect"
        BY <2>4 DEF RecoveredBeforeLoad, Recovering
    <3>2. Tells(root, 0)'
        BY <1>2, <3>1 DEF Told
    <3>3. Known' /\ outcome' \in [Attempt -> Answer]
        BY <1>1, <3>1
    <3> QED
        BY <3>1, <3>2, <3>3 DEF Told, Known, Recovering, Building, Publishing
  <2>5. CASE RolledBack
    <3>1. /\ UNCHANGED <<root, rootSurvivors>> /\ pc = "rDone" /\ why = "rollback"
          /\ pc' = "ready"
          /\ outcome' = [outcome EXCEPT ![root.issued] = Promise!Aborted]
        BY <2>5 DEF RolledBack
    <3>2. rootSurvivors = {root} /\ Tells(root, root.issued) /\ root.issued # 0
        BY <3>1 DEF Roots, Told, Recovering
    <3>3. outcome' \in [Attempt -> Answer]
        BY <1>0, <3>1 DEF Answer
    <3>4. \A a \in Attempt : outcome'[a] = Resolution(root, a)
        BY <1>0, <3>1, <3>2, Ends
    <3>5. Known' /\ Tells(root, 0)'
        BY <1>7, <3>1, <3>2, <3>3, <3>4
    <3> QED
        BY <3>1, <3>3, <3>5 DEF Told, Known, Recovering, Building, Publishing
  <2> QED
      BY <1>8, <2>1, <2>2, <2>3, <2>4, <2>5 DEF RecoverStep
<1>9. CASE LoadStep
  <2>1. CASE BeginLoad \/ InspectInput \/ EndFirstPass \/ Reserve
    <3>1. /\ UNCHANGED <<outcome, root, rootSurvivors>>
          /\ pc \in {"inspect", "open1", "scan1", "reserve"} \/ state = "Empty"
          /\ \/ pc' \in {"ready", "inspect", "open1", "scan1", "reserve", "issue"}
             \/ pc' \in Recovering /\ why' = "load"
        BY <2>1 DEF BeginLoad, StartRecovery, InspectInput, EndFirstPass, Reserve, Recovering
    <3> QED
        BY <1>6, <3>1
  <2>2. CASE OpenPass("open1", "scan1") \/ ReadRow("scan1")
    <3>1. /\ UNCHANGED <<outcome, root, rootSurvivors>>
          /\ pc \in {"inspect", "open1", "scan1", "reserve"} /\ pc' = "scan1"
        BY <2>2 DEF OpenPass, ReadRow
    <3> QED
        BY <1>6, <3>1
  <2>3. CASE \/ CreateStaging \/ CreatePrivateUnit \/ AssembleUnit \/ VerifyUnit \/ SyncUnit
             \/ RemoveStaging \/ CheckAfterBuild \/ LinkUnit \/ RemovePrivateUnit
    <3>1. /\ UNCHANGED <<outcome, root, rootSurvivors, state>>
          /\ pc \in Building /\ pc' \in Building
        BY <2>3 DEF CreateStaging, CreatePrivateUnit, AssembleUnit, Assembled, VerifyUnit,
           SyncUnit, RemoveStaging, CheckAfterBuild, LinkUnit, RemovePrivateUnit, Building
    <3> QED
        BY <1>5, <3>1
  <2>4. CASE \/ OpenPass("open2", "scan2") \/ ReadRow("scan2")
             \/ SyncDirectory("syncUnstaged", "recheck", Private)
             \/ SyncDirectory("syncLinked", "unlink", {UnitFinal})
             \/ SyncDirectory("syncUnlinked", "publish", Private)
    <3>1. /\ UNCHANGED <<outcome, root, rootSurvivors, state>>
          /\ pc \in Building /\ pc' \in Building
        BY <2>4 DEF OpenPass, ReadRow, SyncDirectory, Building
    <3> QED
        BY <1>5, <3>1
  <2>5. CASE Issue
    <3>1. /\ pc = "issue" /\ pc' = "issueSync" /\ UNCHANGED <<outcome, state>>
          /\ root' = NextIssued /\ rootSurvivors' = rootSurvivors \union {NextIssued}
        BY <2>5 DEF Issue, RenameRoot
    <3>2. /\ Tells(root, 0) /\ rootSurvivors = {root} /\ root.seq = 0 /\ state # "Empty"
        BY <1>0, <3>1 DEF Roots, Told, Fetching
    <3>3. NextIssued = Issuing(root)
        BY <1>0, <3>2, NextRecords
    <3>4. \A k : k = root => Tells(k, 0)'
        BY <3>1, <3>2 DEF Tells
    <3>5. \A r \in rootSurvivors' : Continues(r, root, 0)
        BY <3>1, <3>2, <3>3 DEF Continues
    <3>6. 0 \in 0 .. MaxIssued
        BY LegacyLoadAssumption
    <3>7. \E k \in LegacyRecord : \E p \in 0 .. MaxIssued :
            Tells(k, p)' /\ \A r \in rootSurvivors' : Continues(r, k, p)
        BY <1>0, <3>4, <3>5, <3>6
    <3>8. \E k \in LegacyRecord : Tells(k, 0)' /\ root' = Issuing(k) /\ k.seq = 0
        BY <1>0, <3>1, <3>2, <3>3, <3>4
    <3> QED
        BY <1>0, <3>1, <3>2, <3>7, <3>8 DEF Told, Recovering, Building, Publishing
  <2>6. CASE SyncRoot("issueSync", "issued")
    <3>1. /\ pc = "issueSync" /\ pc' = "issued" /\ UNCHANGED <<outcome, state, root>>
          /\ rootSurvivors' \subseteq rootSurvivors
        BY <1>0, <2>6 DEF SyncRoot
    <3>2. PICK k \in LegacyRecord : Tells(k, 0) /\ root = Issuing(k) /\ k.seq = 0
        BY <3>1 DEF Told
    <3>3. Tells(k, 0)'
        BY <3>1, <3>2 DEF Tells
    <3>4. Known' /\ outcome' \in [Attempt -> Answer] /\ state # "Empty"
        BY <1>1, <3>1 DEF Roots
    <3>5. \E j \in LegacyRecord : Tells(j, 0)' /\ root' = Issuing(j) /\ j.seq = 0
        BY <3>1, <3>2, <3>3
    <3> QED
        BY <3>1, <3>4, <3>5 DEF Told, Known, Recovering, Building, Publishing
  <2>7. CASE Issued
    <3>1. /\ pc = "issued" /\ pc' = "create" /\ UNCHANGED <<root, rootSurvivors, state>>
          /\ outcome' = [outcome EXCEPT ![root.issued] = Promise!Pending]
        BY <2>7 DEF Issued
    <3>2. PICK k \in LegacyRecord : Tells(k, 0) /\ root = Issuing(k) /\ k.seq = 0
        BY <3>1 DEF Told
    <3>3. rootSurvivors = {root} /\ state # "Empty" /\ root.issued # 0
        BY <3>1 DEF Roots, Fetching
    <3>4. root.issued = k.issued + 1 /\ root.seq = 0
        BY <3>2 DEF Issuing
    <3>5. k.issued < MaxIssued
        BY <1>0, <3>4, Records, LegacyLoadAssumption
    <3>6. \A a \in Attempt :
            outcome'[a] = IF a = root.issued THEN Promise!Pending ELSE Resolution(root, a)
        BY <1>0, <3>1, <3>2, <3>4, <3>5, Exposes
    <3>7. \A j : j = root => Tells(j, j.issued)'
        BY <3>4, <3>6 DEF Tells
    <3>8. Tells(root, root.issued)'
        BY <3>1, <3>4, <3>6 DEF Tells
    <3>9. root.issued \in 0 .. MaxIssued
        BY <1>0, Records
    <3>10. \A r \in rootSurvivors' : Continues(r, root, root.issued)
        BY <3>1, <3>3 DEF Continues
    <3>11. \E j \in LegacyRecord : \E p \in 0 .. MaxIssued :
             Tells(j, p)' /\ \A r \in rootSurvivors' : Continues(r, j, p)
        BY <1>0, <3>7, <3>9, <3>10
    <3>12. outcome' \in [Attempt -> Answer]
        BY <1>0, <3>1 DEF Answer
    <3> QED
        BY <3>1, <3>3, <3>8, <3>11, <3>12 DEF Told, Recovering, Building, Publishing
  <2>8. CASE RenameRoot("publish", "publishSync", NextData)
    <3>1. /\ pc = "publish" /\ pc' = "publishSync" /\ UNCHANGED <<outcome, state>>
          /\ root' = NextData /\ rootSurvivors' = rootSurvivors \union {NextData}
        BY <2>8 DEF RenameRoot
    <3>2. /\ Tells(root, root.issued) /\ root.issued # 0
          /\ rootSurvivors = {root} /\ root.seq = 0 /\ state # "Empty"
        BY <1>0, <3>1 DEF Roots, Told, Building
    <3>3. NextData = Committing(root)
        BY <1>0, <3>2, NextRecords
    <3>4. \A k : k = root => Tells(k, k.issued)'
        BY <3>1, <3>2 DEF Tells
    <3>5. \A r \in rootSurvivors' : Continues(r, root, root.issued)
        BY <3>1, <3>2, <3>3 DEF Continues
    <3>6. root.issued \in 0 .. MaxIssued
        BY <1>0, Records
    <3>7. \E k \in LegacyRecord : \E p \in 0 .. MaxIssued :
            Tells(k, p)' /\ \A r \in rootSurvivors' : Continues(r, k, p)
        BY <1>0, <3>4, <3>5, <3>6
    <3>8. \E k \in LegacyRecord :
            Tells(k, k.issued)' /\ root' = Committing(k) /\ k.issued # 0
        BY <1>0, <3>1, <3>2, <3>3, <3>4
    <3> QED
        BY <1>0, <3>1, <3>2, <3>7, <3>8 DEF Told, Recovering, Building, Publishing
  <2>9. CASE SyncRoot("publishSync", "published")
    <3>1. /\ pc = "publishSync" /\ pc' = "published" /\ UNCHANGED <<outcome, state, root>>
          /\ rootSurvivors' \subseteq rootSurvivors
        BY <1>0, <2>9 DEF SyncRoot
    <3>2. PICK k \in LegacyRecord :
            Tells(k, k.issued) /\ root = Committing(k) /\ k.issued # 0
        BY <3>1 DEF Told, Publishing
    <3>3. Tells(k, k.issued)'
        BY <3>1, <3>2 DEF Tells
    <3>4. Known' /\ outcome' \in [Attempt -> Answer] /\ state # "Empty"
        BY <1>1, <3>1 DEF Roots
    <3>5. \E j \in LegacyRecord :
            Tells(j, j.issued)' /\ root' = Committing(j) /\ j.issued # 0
        BY <3>1, <3>2, <3>3
    <3> QED
        BY <3>1, <3>4, <3>5 DEF Told, Known, Recovering, Building, Publishing
  <2>10. CASE Loaded
    <3>1. /\ pc = "published" /\ pc' = "ready" /\ UNCHANGED <<root, rootSurvivors>>
          /\ state' = "Loaded"
          /\ outcome' = [outcome EXCEPT ![root.seq] = Promise!Durable(1)]
        BY <2>10 DEF Loaded
    <3>2. PICK k \in LegacyRecord :
            Tells(k, k.issued) /\ root = Committing(k) /\ k.issued # 0
        BY <3>1 DEF Told, Publishing
    <3>3. rootSurvivors = {root} /\ root.seq = k.issued
        BY <3>1, <3>2 DEF Roots, Committing
    <3>4. \A a \in Attempt : outcome'[a] = Resolution(root, a)
        BY <1>0, <3>1, <3>2, <3>3, Ends
    <3>5. outcome' \in [Attempt -> Answer]
        BY <1>0, <3>1 DEF Answer
    <3>6. Known'
        BY <1>7, <3>1, <3>3, <3>4, <3>5
    <3> QED
        BY <1>3, <3>1, <3>5, <3>6
  <2> QED
      BY <1>9, <2>1, <2>2, <2>3, <2>4, <2>5, <2>6, <2>7, <2>8, <2>9, <2>10 DEF LoadStep
<1>10. CASE Fault
  <2>1. CASE RefuseLoad
    <3>1. /\ UNCHANGED <<outcome, root, rootSurvivors>> /\ pc' = "ready"
          /\ pc \in {"inspect", "open1", "scan1", "reserve"}
        BY <2>1 DEF RefuseLoad, Return
    <3> QED
        BY <1>6, <3>1
  <2>2. CASE RecoveryFails \/ IssuanceFails \/ CommitAmbiguous \/ CloseOrKill \/ PowerLoss
    <3>1. /\ UNCHANGED outcome /\ rootSurvivors' \subseteq rootSurvivors
          /\ pc' \in {"ready", "closed"}
        BY <2>2 DEF RecoveryFails, IssuanceFails, CommitAmbiguous, CloseOrKill, PowerLoss,
           Return
    <3>2. state' # "Empty"
        BY <2>2 DEF RecoveryFails, IssuanceFails, CommitAmbiguous, CloseOrKill, PowerLoss,
           Return, Roots, Recovering
    <3> QED
        BY <1>1, <1>3, <3>1, <3>2
  <2>3. CASE BuildFails
    <3>1. /\ UNCHANGED <<outcome, root, rootSurvivors, state>> /\ pc \in Building
          /\ pc' \in Recovering /\ why' = "rollback"
        BY <2>3 DEF BuildFails, StartRecovery, Recovering
    <3> QED
        BY <1>5, <3>1
  <2>4. CASE RewriteInput
    <3>1. UNCHANGED <<outcome, root, rootSurvivors, pc, state, why>>
        BY <2>4 DEF RewriteInput
    <3> QED
        BY <3>1 DEF Told, Tells
  <2> QED
      BY <1>10, <2>1, <2>2, <2>3, <2>4 DEF Fault
<1> QED
    BY <1>8, <1>9, <1>10 DEF Next

-----------------------------------------------------------------------------
(* The inductive invariant holds.                                           *)

LEMMA InitIInv == Init => IInv
<1> SUFFICES ASSUME Init PROVE IInv
    OBVIOUS
<1> USE DEF Init
<1>0. /\ EmptyRecord \in LegacyRecord /\ EmptyRecord.issued = 0 /\ EmptyRecord.seq = 0
      /\ 0 \in 0 .. MaxIssued /\ 1 \in Version
    BY LegacyLoadAssumption, Versions DEF EmptyRecord, LegacyRecord, Record
<1>1. Types
  <2>1. <<>> \in Seq(Cell) /\ <<>> \in Seq(Version)
      BY SequencesOver
  <2> QED
      BY <1>0, <2>1 DEF Types, Stage
<1>2. Roots
    BY <1>0 DEF Roots, Fetching, Building, Publishing
<1>3. Names
    BY <1>0, NamesApart DEF Names, Settled, Fetching, Unlinked, Synchronized, Unstaged, Linked
<1>4. Contents
    BY DEF Contents, Synchronized
<1>5. RootsFindTheirUnit
    BY <1>0 DEF RootsFindTheirUnit
<1>6. Sizes
    BY <1>0 DEF Sizes, Building, Synchronized
<1>7. ChargeCoversFiles
    BY NamesApart DEF ChargeCoversFiles, FilesWithin, StagingBytes, Present
<1>8. Told
  <2>1. \A a \in Attempt : a # 0 /\ 0 < a
      BY DEF Attempt
  <2>2. Tells(root, 0)
      BY <1>0, <2>1 DEF Tells, Resolution
  <2>3. \A r \in rootSurvivors : Continues(r, root, 0)
      BY DEF Continues
  <2>4. \E k \in LegacyRecord : \E p \in 0 .. MaxIssued :
          Tells(k, p) /\ \A r \in rootSurvivors : Continues(r, k, p)
      BY <1>0, <2>2, <2>3
  <2>5. outcome \in [Attempt -> Answer]
      BY DEF Answer
  <2> QED
      BY <2>2, <2>4, <2>5 DEF Told, Recovering, Building, Publishing
<1> QED
    BY <1>1, <1>2, <1>3, <1>4, <1>5, <1>6, <1>7, <1>8 DEF IInv

LEMMA IInvStep == IInv /\ [Next]_vars => IInv'
<1> SUFFICES ASSUME IInv, [Next]_vars PROVE IInv'
    OBVIOUS
<1>1. CASE Next
  <2>0. Types /\ Roots /\ Names /\ Contents /\ RootsFindTheirUnit /\ Sizes /\ ChargeCoversFiles
        /\ Told
      BY DEF IInv
  <2>1. Types'
      BY <1>1, <2>0, TypesStep
  <2>2. Roots'
      BY <1>1, <2>0, RootsStep
  <2>3. Names'
      BY <1>1, <2>0, NamesStep
  <2>4. Contents'
      BY <1>1, <2>0, <2>1, ContentsStep
  <2>5. RootsFindTheirUnit'
      BY <1>1, <2>0, <2>1, FindsStep
  <2>6. Sizes'
      BY <1>1, <2>0, <2>1, SizesStep
  <2>7. ChargeCoversFiles'
      BY <1>1, <2>0, <2>1, <2>2, <2>3, <2>6, ChargeStep
  <2>8. Told'
      BY <1>1, <2>0, <2>1, ToldStep
  <2> QED
      BY <2>1, <2>2, <2>3, <2>4, <2>5, <2>6, <2>7, <2>8 DEF IInv
<1>2. CASE UNCHANGED vars
  <2> USE <1>2 DEF IInv, vars, diskVars, loadVars
  <2>1. Types' /\ Roots' /\ Contents'
      BY DEF Types, Roots, Contents, OneVersion
  <2>2. Names'
      BY DEF Names, Settled
  <2>3. RootsFindTheirUnit'
      BY DEF RootsFindTheirUnit
  <2>4. Sizes'
      BY DEF Sizes, Present
  <2>5. ChargeCoversFiles'
      BY DEF ChargeCoversFiles, Handle, FilesWithin, StagingBytes, Present
  <2>6. Told'
      BY DEF Told, Tells
  <2> QED
      BY <2>1, <2>2, <2>3, <2>4, <2>5, <2>6
<1> QED
    BY <1>1, <1>2

\* The invariant of every behaviour of the loader.
THEOREM Invariance == Spec => []IInv
BY InitIInv, IInvStep, PTL DEF Spec

\* Whatever record the roots hold, now or after a power loss, the directory has
\* the unit it names, complete, synchronized, of one version of the input, and
\* nothing else: the order of links, removals and barriers in publish_unit, and the
\* checks of build_private_unit, for inputs of any length rewritten at any time.
THEOREM RootsAlwaysFindTheirUnit == Spec => []RootsFindTheirUnit
<1>1. IInv => RootsFindTheirUnit
    BY DEF IInv
<1> QED
    BY <1>1, Invariance, PTL

\* While a handle lives, its charge covers the files that a load left without
\* committing, whatever step failed (Staging::append, the release in
\* load_lineitem).
THEOREM ChargeAlwaysCoversFiles == Spec => []ChargeCoversFiles
<1>1. IInv => ChargeCoversFiles
    BY DEF IInv
<1> QED
    BY <1>1, Invariance, PTL

-----------------------------------------------------------------------------
(* The refinement.                                                          *)

\* The attempts after the first n.
LEMMA Remaining ==
  ASSUME NEW n \in Nat, n <= MaxIssued
  PROVE  Cardinality({a \in Attempt : n < a}) = MaxIssued - n
<1>0. MaxIssued \in Nat
    BY LegacyLoadAssumption
<1>1. {a \in Attempt : n < a} = (n + 1) .. MaxIssued
    BY <1>0 DEF Attempt
<1>2. Cardinality((n + 1) .. MaxIssued) =
        IF n + 1 > MaxIssued THEN 0 ELSE MaxIssued - (n + 1) + 1
  <2>1. n + 1 \in Int /\ MaxIssued \in Int
      BY <1>0
  <2> QED
      BY <2>1, FS_Interval, Zenon
<1>3. (IF n + 1 > MaxIssued THEN 0 ELSE MaxIssued - (n + 1) + 1) = MaxIssued - n
    BY <1>0
<1> QED
    BY <1>1, <1>2, <1>3, Zenon

LEMMA PromiseCounts ==
  ASSUME NEW S
  PROVE  Promise!Cardinality(S) = Cardinality(S)
BY DEF Promise!Cardinality, Cardinality

\* What the promise reads off outcome when callers know an empty record.
LEMMA KnownEmpty ==
  ASSUME NEW k \in LegacyRecord, k.seq = 0, NEW p, Tells(k, p)
  PROVE  /\ Promise!Attempt = Attempt
         /\ p = 0 => Promise!With(Promise!Pending) = {}
         /\ p # 0 => p \in Attempt /\ outcome[p] = Promise!Pending
         /\ Promise!FirstUnknown = k.issued + 1
         /\ Promise!NextGeneration = 1
<1>0. /\ k.issued \in Nat /\ k.issued <= MaxIssued /\ MaxIssued \in Nat
      /\ Promise!Attempt = Attempt
    BY Records, LegacyLoadAssumption DEF Promise!Attempt, Attempt
<1>1. p # 0 => p = k.issued /\ p \in Attempt
    BY <1>0, Records DEF Tells
<1>2. \A a \in Attempt :
        outcome[a] = IF a = p THEN Promise!Pending
                     ELSE IF k.issued < a THEN Promise!Unknown ELSE Promise!Aborted
    BY Resolutions DEF Tells
<1>3. \A a \in Attempt : /\ a # 0 /\ a \in Nat
                         /\ outcome[a] = Promise!Unknown <=> k.issued < a
                         /\ a # p => outcome[a] # Promise!Pending
                         /\ outcome[a].status # "durable"
  <2>1. \A a \in Attempt : a # 0 /\ a \in Nat
      BY DEF Attempt
  <2> QED
      BY <1>0, <1>1, <1>2, <2>1, Statuses
<1>4. p = 0 => Promise!With(Promise!Pending) = {}
    BY <1>0, <1>3 DEF Promise!With
<1>5. Promise!With(Promise!Unknown) = {a \in Attempt : k.issued < a}
    BY <1>0, <1>3 DEF Promise!With
<1>6. Promise!Committed = {}
    BY <1>0, <1>3 DEF Promise!Committed
<1>7. Promise!FirstUnknown = k.issued + 1
  <2>1. Promise!FirstUnknown = MaxIssued - Cardinality(Promise!With(Promise!Unknown)) + 1
      BY PromiseCounts DEF Promise!FirstUnknown
  <2>2. Cardinality(Promise!With(Promise!Unknown)) = MaxIssued - k.issued
      BY <1>0, <1>5, Remaining
  <2> QED
      BY <1>0, <2>1, <2>2
<1>8. Promise!NextGeneration = 1
  <2>1. Promise!NextGeneration = Cardinality(Promise!Committed) + 1
      BY PromiseCounts DEF Promise!NextGeneration
  <2>2. Cardinality(Promise!Committed) = 0
      BY <1>6, FS_EmptySet
  <2> QED
      BY <2>1, <2>2
<1> QED
    BY <1>0, <1>1, <1>2, <1>4, <1>7, <1>8

\* A token is exposed: the promise's Issue.
LEMMA IssuedKept ==
  ASSUME IInv, Issued
  PROVE  Promise!Issue
<1>1. pc = "issued" /\ outcome' = [outcome EXCEPT ![root.issued] = Promise!Pending]
    BY DEF Issued, Goto
<1>2. PICK k \in LegacyRecord : Tells(k, 0) /\ root = Issuing(k) /\ k.seq = 0
    BY <1>1 DEF IInv, Told
<1>3. root.issued = k.issued + 1 /\ root \in LegacyRecord /\ root.issued # 0
    BY <1>1, <1>2 DEF Issuing, IInv, Types, Roots
<1>4. root.issued \in Attempt
    BY <1>3, Records
<1> QED
    BY <1>1, <1>2, <1>3, <1>4, KnownEmpty DEF Promise!Issue

\* Ok: the promise's Commit.
LEMMA LoadedKept ==
  ASSUME IInv, Loaded
  PROVE  \E a \in Attempt : Promise!Commit(a)
<1>1. pc = "published" /\ outcome' = [outcome EXCEPT ![root.seq] = Promise!Durable(1)]
    BY DEF Loaded, Goto
<1>2. PICK k \in LegacyRecord : Tells(k, k.issued) /\ root = Committing(k) /\ k.issued # 0
    BY <1>1 DEF IInv, Told, Publishing
<1>3. root.seq = k.issued /\ k.seq = 0
    BY <1>2 DEF Committing, Tells
<1>4. /\ k.issued \in Attempt /\ outcome[k.issued] = Promise!Pending
      /\ Promise!NextGeneration = 1
    BY <1>2, <1>3, KnownEmpty
<1>5. outcome' = [outcome EXCEPT ![k.issued] = Promise!Durable(Promise!NextGeneration)]
    BY <1>1, <1>3, <1>4
<1>6. Promise!NextGeneration <= 1
    BY <1>4
<1>7. Promise!Commit(k.issued)
    BY <1>4, <1>5, <1>6 DEF Promise!Commit
<1> QED
    BY <1>4, <1>7

\* A load's own error, after its rollback: the promise's Abort.
LEMMA RolledBackKept ==
  ASSUME IInv, RolledBack
  PROVE  \E a \in Attempt : Promise!Abort(a)
<1>1. /\ pc = "rDone" /\ why = "rollback"
      /\ outcome' = [outcome EXCEPT ![root.issued] = Promise!Aborted]
    BY DEF RolledBack, Goto
<1>2. Tells(root, root.issued) /\ root.issued # 0 /\ root \in LegacyRecord
    BY <1>1 DEF IInv, Told, Types, Recovering
<1>3. root.seq = 0
    BY <1>2 DEF Tells
<1>4. root.issued \in Attempt /\ outcome[root.issued] = Promise!Pending
    BY <1>2, <1>3, KnownEmpty
<1> QED
    BY <1>1, <1>4 DEF Promise!Abort

\* Reopening answers for the record recovery kept: the one callers know, with the
\* pending attempt aborted; an issuance nobody was told of; or the commit of the
\* pending attempt.
LEMMA OpenKept ==
  ASSUME IInv, OpenDone
  PROVE  Promise!Next \/ UNCHANGED outcome
<1>0. /\ outcome' = [a \in Attempt |-> Resolution(root, a)]
      /\ outcome \in [Attempt -> Answer]
      /\ root \in rootSurvivors /\ root \in LegacyRecord
      /\ \A a \in Attempt : a # 0
      /\ Promise!Attempt = Attempt
    BY DEF OpenDone, IInv, Told, Types, Attempt, Promise!Attempt
<1>1. PICK k \in LegacyRecord, p \in 0 .. MaxIssued :
        Tells(k, p) /\ Continues(root, k, p)
    BY <1>0 DEF IInv, Told
<1>2. \A a \in Attempt :
        outcome[a] = IF a = p THEN Promise!Pending ELSE Resolution(k, a)
    BY <1>1 DEF Tells
<1>3. p # 0 => k.seq = 0 /\ p = k.issued
    BY <1>1 DEF Tells
<1>4. CASE root = k /\ p = 0
  <2>1. \A a \in Attempt : outcome[a] = Resolution(root, a)
      BY <1>0, <1>2, <1>4
  <2>2. outcome' = outcome
      BY <1>0, <2>1
  <2> QED
      BY <2>2
<1>5. CASE root = k /\ p # 0
  <2>1. p \in Attempt /\ outcome[p] = Promise!Pending
      BY <1>1, <1>3, <1>5, KnownEmpty
  <2>2. k.issued \in Nat /\ Resolution(k, p) = Promise!Aborted
      BY <1>3, <1>5, <2>1, Resolutions, Records
  <2>3. outcome' = [outcome EXCEPT ![p] = Promise!Aborted]
      BY <1>0, <1>2, <1>5, <2>2
  <2>4. Promise!Abort(p)
      BY <2>1, <2>3 DEF Promise!Abort
  <2> QED
      BY <1>0, <2>1, <2>4 DEF Promise!Next
<1>6. CASE k.seq = 0 /\ p = 0 /\ root = Issuing(k)
  <2>1. root.issued = k.issued + 1 /\ k.issued \in Nat
      BY <1>6, Records DEF Issuing
  <2>2. k.issued + 1 \in Attempt
      BY <1>0, <2>1, Records
  <2>3. \A a \in Attempt :
          Resolution(root, a) =
            IF a = k.issued + 1 THEN Promise!Aborted ELSE Resolution(k, a)
      BY <1>6, Resolutions
  <2>4. outcome' = [outcome EXCEPT ![k.issued + 1] = Promise!Aborted]
    <3>1. \A a \in Attempt : outcome[a] = Resolution(k, a)
        BY <1>0, <1>2, <1>6
    <3>2. \A a \in Attempt :
            Resolution(root, a) = IF a = k.issued + 1 THEN Promise!Aborted ELSE outcome[a]
        BY <2>3, <3>1
    <3> QED
        BY <1>0, <2>2, <3>2
  <2>5. Promise!Consume
      BY <1>0, <1>1, <1>6, <2>2, <2>4, KnownEmpty DEF Promise!Consume
  <2> QED
      BY <2>5 DEF Promise!Next
<1>7. CASE k.seq = 0 /\ p # 0 /\ root = Committing(k)
  <2>1. /\ p \in Attempt /\ outcome[p] = Promise!Pending /\ Promise!NextGeneration = 1
        /\ p = k.issued
      BY <1>1, <1>3, <1>7, KnownEmpty
  <2>2. \A a \in Attempt :
          Resolution(root, a) = IF a = p THEN Promise!Durable(1) ELSE Resolution(k, a)
      BY <1>7, <2>1, Resolutions
  <2>3. outcome' = [outcome EXCEPT ![p] = Promise!Durable(1)]
      BY <1>0, <1>2, <2>2
  <2>4. Promise!Commit(p)
      BY <2>1, <2>3 DEF Promise!Commit
  <2> QED
      BY <1>0, <2>1, <2>4 DEF Promise!Next
<1> QED
    BY <1>1, <1>4, <1>5, <1>6, <1>7 DEF Continues

LEMMA PromiseStep == IInv /\ [Next]_vars => [Promise!Next]_outcome
<1> SUFFICES ASSUME IInv, [Next]_vars PROVE Promise!Next \/ UNCHANGED outcome
    OBVIOUS
<1>0. Promise!Attempt = Attempt
    BY DEF Promise!Attempt, Attempt
<1> USE DEF diskVars, loadVars
<1>1. CASE UNCHANGED vars
    BY <1>1 DEF vars
<1>2. CASE RecoverStep
  <2>1. CASE OpenDone
      BY <2>1, OpenKept
  <2>2. CASE RolledBack
      BY <1>0, <2>2, RolledBackKept DEF Promise!Next
  <2>3. CASE \/ Open \/ RecoverRoots \/ RecoverName \/ RecoverNamesDone \/ RecoveredBeforeLoad
      BY <2>3 DEF Open, RecoverRoots, RecoverName, RecoverNamesDone, RecoveredBeforeLoad
  <2>4. \A from, to, ns : SyncDirectory(from, to, ns) => UNCHANGED outcome
      BY DEF SyncDirectory
  <2> QED
      BY <1>2, <2>1, <2>2, <2>3, <2>4 DEF RecoverStep
<1>3. CASE LoadStep
  <2>1. CASE Issued
      BY <2>1, IssuedKept DEF Promise!Next
  <2>2. CASE Loaded
      BY <1>0, <2>2, LoadedKept DEF Promise!Next
  <2>3. CASE \/ BeginLoad \/ InspectInput \/ EndFirstPass \/ Reserve \/ Issue
             \/ CreateStaging \/ CreatePrivateUnit \/ AssembleUnit \/ VerifyUnit \/ SyncUnit
             \/ RemoveStaging \/ CheckAfterBuild \/ LinkUnit \/ RemovePrivateUnit
      BY <2>3 DEF BeginLoad, InspectInput, EndFirstPass, Reserve, Issue, RenameRoot,
         CreateStaging, CreatePrivateUnit, AssembleUnit, Assembled, VerifyUnit, SyncUnit,
         RemoveStaging, CheckAfterBuild, LinkUnit, RemovePrivateUnit
  <2>4. \A from, to : OpenPass(from, to) \/ ReadRow(from) \/ SyncRoot(from, to) =>
                        UNCHANGED outcome
      BY DEF OpenPass, ReadRow, SyncRoot
  <2>5. \A from, to, x : SyncDirectory(from, to, x) \/ RenameRoot(from, to, x) =>
                           UNCHANGED outcome
      BY DEF SyncDirectory, RenameRoot
  <2> QED
      BY <1>3, <2>1, <2>2, <2>3, <2>4, <2>5 DEF LoadStep
<1>4. CASE Fault
    BY <1>4 DEF Fault, RecoveryFails, RefuseLoad, IssuanceFails, BuildFails, CommitAmbiguous,
       CloseOrKill, PowerLoss, RewriteInput, Return
<1> QED
    BY <1>1, <1>2, <1>3, <1>4 DEF Next

\* The loader implements AtomicCommit with one commit: whatever fails between the
\* issuance and the return of load_lineitem, each attempt number ends once, and an
\* error that is not ambiguous is never followed by that attempt's commit.
THEOREM LoadKeepsPromise == Spec => ImplementsPromise
<1>1. Init => Promise!Init
    BY DEF Init, Promise!Init, Attempt, Promise!Attempt
<1> QED
    BY <1>1, PromiseStep, Invariance, PTL DEF Spec, ImplementsPromise, Promise!Spec
=============================================================================
