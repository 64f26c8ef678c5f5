------------------------ MODULE FileValidators_proofs ------------------------
(***************************************************************************)
(* For every set of processes and paths: the type invariant of             *)
(* FileValidators, and that what exists is kept.                           *)
(***************************************************************************)
EXTENDS FileValidators, TLAPS

LEMMA ResolveType ==
    ASSUME fs \in [Path -> Entry], NEW p \in Path
    PROVE  Resolve(p) \in Path
BY PathAssumption DEF Resolve

LEMMA PutKeepsTree ==
    ASSUME fs \in [Path -> Entry], IsTree(fs), NEW p \in Path, NEW entry \in Entry,
           fs[p] # "dir", entry # "none", \A d \in Path : p \in Below[d] => fs[d] = "dir"
    PROVE  Put(p, entry) \in [Path -> Entry] /\ IsTree(Put(p, entry))
BY PathAssumption DEF IsTree, Put

LEMMA RemoveEntryKeepsTree ==
    ASSUME fs \in [Path -> Entry], IsTree(fs), NEW p \in Path, IsEmpty(p)
    PROVE  RemoveEntry(p) \in [Path -> Entry] /\ IsTree(RemoveEntry(p))
BY PathAssumption DEF IsTree, RemoveEntry, IsEmpty, Entry

LEMMA RemoveAllKeepsTree ==
    ASSUME fs \in [Path -> Entry], IsTree(fs), NEW p \in Path
    PROVE  RemoveAll(p) \in [Path -> Entry] /\ IsTree(RemoveAll(p))
BY PathAssumption DEF IsTree, RemoveAll, Entry

LEMMA RequestType ==
    ASSUME TypeOK, NEW v \in Process
    PROVE  path(v) \in Path /\ Probe(v) \in Path
<1>1. request[v] \in Request
  BY RequestAssumption DEF TypeOK
<1>2. path(v) \in Path
  BY <1>1 DEF path, Request
<1> QED
  BY <1>2, PathAssumption DEF Probe

\* Every call but those that change the file system.
LEMMA LookKeepsType ==
    ASSUME TypeOK, NEW v \in Process, NEW label, NEW found,
           NEW ifFound \in Labels, NEW ifNot \in Labels,
           Look(v, label, found, ifFound, ifNot)
    PROVE  TypeOK'
BY DEF TypeOK, Look, GoTo, history, IsTree

LEMMA AfterType ==
    ASSUME NEW v \in Process
    PROVE  AfterReturn(v) \in Labels /\ AfterThrow(v) \in Labels
BY DEF AfterReturn, AfterThrow, Labels, Ended

\* A step that changes nothing but the file system and its own label.
LEMMA ChangeKeepsType ==
    ASSUME TypeOK, NEW v \in Process, NEW label \in Labels, GoTo(v, label), Changes(v),
           fs' \in [Path -> Entry], IsTree(fs')
    PROVE  TypeOK'
BY DEF TypeOK, GoTo, Changes, history, IsTree

LEMMA StartKeepsType ==
    ASSUME TypeOK, NEW v \in Process, Start(v)
    PROVE  TypeOK'
<1>1. PICK r \in Requests : request' = [request EXCEPT ![v] = r] /\ GoTo(v, FirstCall(r.kind))
  BY DEF Start
<1>2. FirstCall(r.kind) \in Labels
  BY DEF FirstCall, Labels
<1>3. pc' \in [Process -> Labels] /\ request' \in [Process -> Requests]
  BY <1>1, <1>2 DEF TypeOK, GoTo
<1>4. dir_exists' \in [Process -> BOOLEAN] /\ UNCHANGED <<fs, permissions>>
  BY DEF TypeOK, Start
<1>5. before' \in [Path -> Entry] /\ IsTree(before') /\ alone' \subseteq Process
  BY DEF TypeOK, Start
<1> QED
  BY <1>3, <1>4, <1>5 DEF TypeOK, IsTree

LEMMA ValidateKeepsType ==
    ASSUME TypeOK, NEW v \in Process, Validate(v)
    PROVE  TypeOK'
<1> USE DEF Labels, Ended
<1>1. path(v) \in Path /\ Probe(v) \in Path
  BY RequestType
<1>2. Resolve(path(v)) \in Path /\ Resolve(Probe(v)) \in Path
  BY <1>1, ResolveType DEF TypeOK
<1>3. AfterReturn(v) \in Labels /\ AfterThrow(v) \in Labels
  BY AfterType
<1>4. fs \in [Path -> Entry] /\ IsTree(fs)
  BY DEF TypeOK
<1>5. CASE OutputFileStep(v)
  <2>1. CASE IsNoDirectory(v)
    BY <2>1, LookKeepsType DEF IsNoDirectory
  <2>2. CASE CreateNew(v)
    BY <2>2, LookKeepsType DEF CreateNew
  <2>3. CASE ValidateFilename(v)
    BY <2>3, LookKeepsType DEF ValidateFilename
  <2> QED
    BY <1>5, <2>1, <2>2, <2>3 DEF OutputFileStep
<1>6. CASE Contingency(v)
  BY <1>3, <1>6, LookKeepsType DEF Contingency
<1>7. CASE ProbeExists(v)
  BY <1>7, LookKeepsType DEF ProbeExists
<1>8. ASSUME CanOpen(Probe(v)) PROVE Put(Resolve(Probe(v)), "empty") \in [Path -> Entry]
                                     /\ IsTree(Put(Resolve(Probe(v)), "empty"))
  BY <1>2, <1>4, <1>8, PutKeepsTree DEF CanOpen, CanCreate, Files, Entry
<1>9. CASE Append(v)
  <2>1. Changes(v)
    BY <1>9 DEF Append
  <2>2. fs' \in [Path -> Entry] /\ IsTree(fs')
    BY <1>4, <1>8, <1>9 DEF Append
  <2>3. GoTo(v, AfterReturn(v)) \/ GoTo(v, AfterThrow(v))
    BY <1>9 DEF Append
  <2> QED
    BY <1>3, <2>1, <2>2, <2>3, ChangeKeepsType
<1>10. CASE Create(v)
  <2>1. Changes(v)
    BY <1>10 DEF Create
  <2>2. fs' \in [Path -> Entry] /\ IsTree(fs')
    BY <1>4, <1>8, <1>10 DEF Create
  <2>3. GoTo(v, "remove") \/ GoTo(v, "unwind")
    BY <1>10 DEF Create
  <2> QED
    BY <2>1, <2>2, <2>3, ChangeKeepsType
<1>11. CASE Remove(v)
  <2>1. Changes(v)
    BY <1>11 DEF Remove
  <2>2. fs' \in [Path -> Entry] /\ IsTree(fs')
    BY <1>1, <1>4, <1>11, RemoveEntryKeepsTree DEF Remove
  <2>3. GoTo(v, "release") \/ GoTo(v, "unwind")
    BY <1>11 DEF Remove
  <2> QED
    BY <2>1, <2>2, <2>3, ChangeKeepsType
<1>12. CASE Release(v)
  <2>1. Changes(v)
    BY <1>12 DEF Release
  <2>2. fs' \in [Path -> Entry] /\ IsTree(fs')
    BY <1>1, <1>4, <1>12, RemoveAllKeepsTree DEF Release
  <2>3. GoTo(v, AfterReturn(v)) \/ GoTo(v, AfterThrow(v))
    BY <1>12 DEF Release
  <2> QED
    BY <1>3, <2>1, <2>2, <2>3, ChangeKeepsType
<1>13. CASE DirExists(v)
  BY <1>13 DEF DirExists, TypeOK, GoTo, history, IsTree, Exists
<1>14. CASE CreateDirectory(v)
  <2>1. Changes(v)
    BY <1>14 DEF CreateDirectory
  <2>2. fs' \in [Path -> Entry] /\ IsTree(fs')
    BY <1>1, <1>4, <1>14, PutKeepsTree DEF CreateDirectory, CanCreate, Entry
  <2>3. GoTo(v, "contingency") \/ GoTo(v, "threw")
    BY <1>14 DEF CreateDirectory
  <2> QED
    BY <2>1, <2>2, <2>3, ChangeKeepsType
<1>15. CASE ReleaseDirectory(v)
  <2>1. Changes(v)
    BY <1>15 DEF ReleaseDirectory
  <2>2. fs' \in [Path -> Entry] /\ IsTree(fs')
    BY <1>1, <1>4, <1>15, RemoveAllKeepsTree DEF ReleaseDirectory
  <2>3. GoTo(v, "release_dir") \/ GoTo(v, "passed") \/ GoTo(v, "threw")
    BY <1>15 DEF ReleaseDirectory
  <2> QED
    BY <2>1, <2>2, <2>3, ChangeKeepsType
<1>16. CASE InputStep(v)
  <2>1. CASE InputExists(v)
    BY <2>1, LookKeepsType DEF InputExists
  <2>2. CASE InputIsDirectory(v)
    BY <2>2, LookKeepsType DEF InputIsDirectory
  <2>3. CASE Readable(v)
    BY <2>3, LookKeepsType DEF Readable
  <2>4. AfterReading(v) \in Labels
    BY DEF AfterReading
  <2>5. CASE List(v)
    BY <2>4, <2>5, LookKeepsType DEF List
  <2>6. CASE IsRegular(v)
    BY <2>6, LookKeepsType DEF IsRegular
  <2>7. CASE OpenInput(v)
    BY <2>4, <2>7, LookKeepsType DEF OpenInput
  <2> QED
    BY <1>16, <2>1, <2>2, <2>3, <2>5, <2>6, <2>7 DEF InputStep
<1> QED
  BY <1>5, <1>6, <1>7, <1>9, <1>10, <1>11, <1>12, <1>13, <1>14, <1>15, <1>16
     DEF Validate, WriteabilityStep, OutputDirectoryStep

LEMMA WriteKeepsType ==
    ASSUME TypeOK, NEW v \in Process, WriteFile(v) \/ WriteInDirectory(v)
    PROVE  TypeOK'
<1>1. path(v) \in Path
  BY RequestType
<1>2. fs \in [Path -> Entry] /\ IsTree(fs)
  BY DEF TypeOK
<1>3. ASSUME NEW p \in Path, Writes(v, p), fs' \in [Path -> Entry], IsTree(fs')
      PROVE  TypeOK'
  <2>1. before' \in [Path -> Entry] /\ IsTree(before')
    BY <1>3 DEF Writes, TypeOK, IsTree, Entry, Files
  <2> QED
    BY <1>3, <2>1 DEF Writes, TypeOK, IsTree, GoTo, Labels, Ended
<1>4. CASE WriteFile(v)
  <2>1. Resolve(path(v)) \in Path
    BY <1>1, <1>2, ResolveType
  <2>2. fs' \in [Path -> Entry] /\ IsTree(fs')
    BY <1>2, <1>4, <2>1, PutKeepsTree DEF WriteFile, CanOpen, CanCreate, Files, Entry
  <2> QED
    BY <1>3, <1>4, <2>1, <2>2 DEF WriteFile
<1>5. CASE WriteInDirectory(v)
  <2>1. PICK p \in Below[path(v)] :
           /\ fs[p] \in Files \cup {"none"}
           /\ \A d \in Path : p \in Below[d] => d = path(v) \/ fs[d] = "dir"
           /\ fs' = [fs EXCEPT ![path(v)] = "dir", ![p] = "data"]
           /\ Writes(v, p)
    BY <1>5 DEF WriteInDirectory
  <2>2. p \in Path /\ p # path(v)
    BY <1>1, PathAssumption
  <2>3. \A d \in Path : path(v) \in Below[d] => fs[d] = "dir"
    BY <1>1, <1>2, <1>5 DEF WriteInDirectory, CanCreate, IsTree
  <2>4. IsTree(fs')
    <3> SUFFICES ASSUME NEW d \in Path, NEW q \in Below[d], fs'[q] # "none"
                 PROVE  fs'[d] = "dir"
      BY DEF IsTree
    <3>1. q \in Path /\ q # d
      BY PathAssumption
    <3>2. d # path(v) => fs[d] = "dir"
      BY <1>1, <1>2, <2>1, <2>2, <2>3, <3>1 DEF IsTree
    <3>3. d # p
      BY <2>1, <2>2, <3>2 DEF Files
    <3> QED
      BY <1>1, <1>2, <2>1, <3>2, <3>3
  <2> QED
    BY <1>2, <1>3, <2>1, <2>2, <2>4 DEF Entry
<1> QED
  BY <1>4, <1>5

LEMMA NextKeepsType == TypeOK /\ [Next]_vars => TypeOK'
<1> SUFFICES ASSUME TypeOK, [Next]_vars PROVE TypeOK'
  OBVIOUS
<1>1. CASE UNCHANGED vars
  BY <1>1 DEF vars, history, TypeOK, IsTree
<1>2. ASSUME NEW v \in Process, Kill(v) PROVE TypeOK'
  BY <1>2 DEF Kill, TypeOK, GoTo, IsTree, Labels, Ended
<1> QED
  BY <1>1, <1>2, StartKeepsType, ValidateKeepsType, WriteKeepsType DEF Next

\* The state keeps its type, and the file system stays a tree whatever the
\* guards of overlapping validators remove.
THEOREM TypeCorrect == Spec => []TypeOK
<1>1. Init => TypeOK
  BY FileSystemAssumption DEF Init, TypeOK, Labels, Ended
<1> QED
  BY <1>1, NextKeepsType, PTL DEF Spec

----------------------------------------------------------------------------
(***************************************************************************)
(* A guard removes what its validator took for absent.  Nothing the        *)
(* property speaks of can have been absent since the first validator       *)
(* began, which is what a validator remembers in its label.                *)
(***************************************************************************)
Absent(p) == before[p] = "none" \/ Dangling(before, p)

GuardLabels == {"create", "remove", "release", "unwind"}

DirectoryLabels == {"remove_all", "release_dir", "unwind_dir"}

Fits(v, label) ==
    /\ label \in GuardLabels => Absent(Probe(v))
    /\ label \in DirectoryLabels => Absent(path(v))

Guards(v) ==
    /\ Fits(v, pc[v])
    /\ request[v].kind = "output_directory" /\ ~dir_exists[v]
       /\ Runs(v) /\ pc[v] # "dir_exists" => Absent(path(v))

KeptInv ==
    /\ ExistingIsKept
    /\ LinksAreShort(before)
    /\ \A p \in Path : fs[p] = "link" => before[p] = "link"
    /\ \A v \in Process : Guards(v)

LEMMA AbsentWhenMissing ==
    ASSUME TypeOK, KeptInv, NEW p \in Path, ~Exists(p)
    PROVE  Absent(p)
<1>1. CASE fs[p] = "link"
  <2>1. Target[p] \in Path /\ before[p] = "link" /\ fs[Target[p]] = "none"
    BY <1>1, PathAssumption DEF KeptInv, Exists, Resolve
  <2>2. before[Target[p]] # "link"
    BY <1>1, <2>1 DEF KeptInv, LinksAreShort
  <2>3. before[Target[p]] = "none"
    BY <2>1, <2>2 DEF KeptInv, ExistingIsKept, Dangling
  <2> QED
    BY <2>1, <2>3 DEF Absent, Dangling
<1>2. CASE fs[p] # "link"
  BY <1>2 DEF KeptInv, ExistingIsKept, Exists, Resolve, Absent
<1> QED
  BY <1>1, <1>2

\* What is at the end of an absent path is absent.
LEMMA ResolveAbsent ==
    ASSUME TypeOK, KeptInv, NEW p \in Path, Absent(p)
    PROVE  Absent(Resolve(p))
BY PathAssumption DEF KeptInv, Resolve, Absent, Dangling

\* A change of absent paths only, that makes no link, keeps what exists.
LEMMA ChangeOfAbsentKeeps ==
    ASSUME KeptInv, fs' \in [Path -> Entry], before' = before,
           \A p \in Path : fs'[p] = fs[p] \/ (Absent(p) /\ fs'[p] # "link")
    PROVE  /\ ExistingIsKept'
           /\ LinksAreShort(before)'
           /\ \A p \in Path : fs'[p] = "link" => before'[p] = "link"
BY DEF KeptInv, ExistingIsKept, LinksAreShort, Absent, Dangling

LEMMA RemoveAllOfAbsent ==
    ASSUME TypeOK, KeptInv, NEW p \in Path, Absent(p), NEW q \in Path
    PROVE  RemoveAll(p)[q] = fs[q] \/ (Absent(q) /\ RemoveAll(p)[q] = "none")
<1>1. CASE q \in Below[p]
  <2>1. before[q] = "none"
    BY <1>1 DEF TypeOK, IsTree, Absent, Dangling
  <2> QED
    BY <1>1, <2>1 DEF RemoveAll, Absent
<1>2. CASE q \notin Below[p]
  BY <1>2 DEF RemoveAll
<1> QED
  BY <1>1, <1>2

LEMMA PutOnAbsent ==
    ASSUME TypeOK, NEW p \in Path, Absent(p), NEW entry \in Entry \ {"link"}, NEW q \in Path
    PROVE  Put(p, entry)[q] = fs[q] \/ (Absent(q) /\ Put(p, entry)[q] # "link")
BY DEF TypeOK, Put

LEMMA StepKeepsGuards ==
    ASSUME TypeOK, KeptInv, NEW v \in Process, NEW label, GoTo(v, label), Changes(v),
           Runs(v), pc[v] # "dir_exists", Fits(v, label)
    PROVE  \A w \in Process : Guards(w)'
<1> SUFFICES ASSUME NEW w \in Process PROVE Guards(w)'
  OBVIOUS
<1>1. before' = before /\ request' = request /\ dir_exists' = dir_exists
  BY DEF Changes, history
<1>2. Probe(w)' = Probe(w) /\ path(w)' = path(w) /\ (\A p : Absent(p)' <=> Absent(p))
  BY <1>1 DEF Probe, path, Absent, Dangling
<1>3. pc'[v] = label /\ (w # v => pc'[w] = pc[w])
  BY DEF TypeOK, GoTo
<1>4. CASE w = v
  BY <1>1, <1>2, <1>3, <1>4 DEF KeptInv, Guards, Fits
<1>5. CASE w # v
  BY <1>1, <1>2, <1>3, <1>5 DEF KeptInv, Guards, Fits, Runs
<1> QED
  BY <1>4, <1>5

\* A step of a validator that changes absent paths at most.
LEMMA StepKeepsInv ==
    ASSUME TypeOK, TypeOK', KeptInv, NEW v \in Process, NEW label, GoTo(v, label), Changes(v),
           Runs(v), pc[v] # "dir_exists", Fits(v, label),
           \A p \in Path : fs'[p] = fs[p] \/ (Absent(p) /\ fs'[p] # "link")
    PROVE  KeptInv'
<1>1. \A w \in Process : Guards(w)'
  BY StepKeepsGuards
<1>2. before' = before /\ fs' \in [Path -> Entry]
  BY DEF Changes, history, TypeOK
<1> QED
  BY <1>1, <1>2, ChangeOfAbsentKeeps DEF KeptInv

LEMMA LookKeepsInv ==
    ASSUME TypeOK, TypeOK', KeptInv, NEW v \in Process, NEW label, NEW found,
           NEW ifFound, NEW ifNot, Look(v, label, found, ifFound, ifNot),
           label \notin Ended, label # "dir_exists",
           Fits(v, ifFound), found \/ Fits(v, ifNot)
    PROVE  KeptInv'
<1>1. Changes(v) /\ fs' = fs /\ Runs(v) /\ pc[v] # "dir_exists"
  BY DEF Look, Changes, At, Runs, history
<1>2. GoTo(v, ifFound) \/ (~found /\ GoTo(v, ifNot))
  BY DEF Look
<1> QED
  BY <1>1, <1>2, StepKeepsInv

LEMMA StartKeepsInv ==
    ASSUME TypeOK, KeptInv, NEW v \in Process, Start(v)
    PROVE  KeptInv'
<1>1. PICK r \in Requests : request' = [request EXCEPT ![v] = r] /\ GoTo(v, FirstCall(r.kind))
  BY DEF Start
<1>2. fs' = fs /\ \A w \in Process \ {v} :
         pc'[w] = pc[w] /\ request'[w] = request[w] /\ dir_exists'[w] = dir_exists[w]
  BY <1>1 DEF Start, TypeOK, GoTo
<1>3. Guards(v)'
  BY <1>1 DEF Guards, Fits, GuardLabels, DirectoryLabels, GoTo, TypeOK, FirstCall
<1>4. CASE \E w \in Process : Runs(w)
  <2>1. before' = before
    BY <1>4 DEF Start
  <2>2. ASSUME NEW w \in Process \ {v} PROVE Guards(w)'
    BY <1>2, <2>1 DEF KeptInv, Guards, Fits, Runs, Probe, path, Absent, Dangling
  <2> QED
    BY <1>2, <1>3, <2>1, <2>2 DEF KeptInv, ExistingIsKept, LinksAreShort, Dangling
<1>5. CASE ~\E w \in Process : Runs(w)
  <2>1. before' = fs
    BY <1>5 DEF Start
  <2>2. ASSUME NEW w \in Process \ {v} PROVE Guards(w)'
    BY <1>2, <1>5 DEF Guards, Fits, GuardLabels, DirectoryLabels, Runs, Ended
  <2>3. LinksAreShort(fs)
    BY PathAssumption DEF KeptInv, LinksAreShort
  <2> QED
    BY <1>2, <1>3, <2>1, <2>2, <2>3 DEF KeptInv, ExistingIsKept, LinksAreShort
<1> QED
  BY <1>4, <1>5

LEMMA DirExistsKeepsInv ==
    ASSUME TypeOK, KeptInv, NEW v \in Process, DirExists(v)
    PROVE  KeptInv'
<1>1. path(v) \in Path
  BY RequestType
<1>2. before' = before /\ fs' = fs /\ request' = request
  BY DEF DirExists, history
<1>3. \A w \in Process : w # v => pc'[w] = pc[w] /\ dir_exists'[w] = dir_exists[w]
  BY DEF DirExists, TypeOK, GoTo
<1>4. Guards(v)'
  <2>1. pc'[v] = "create_directory" /\ dir_exists'[v] = Exists(path(v))
    BY DEF DirExists, TypeOK, GoTo
  <2>2. ~Exists(path(v)) => Absent(path(v))
    BY <1>1, AbsentWhenMissing
  <2> QED
    BY <1>2, <2>1, <2>2 DEF Guards, Fits, GuardLabels, DirectoryLabels, path, Absent, Dangling
<1>5. ASSUME NEW w \in Process \ {v} PROVE Guards(w)'
  BY <1>2, <1>3 DEF KeptInv, Guards, Fits, Runs, Probe, path, Absent, Dangling
<1> QED
  BY <1>2, <1>4, <1>5 DEF KeptInv, ExistingIsKept, LinksAreShort, Dangling

LEMMA WriteabilityKeepsInv ==
    ASSUME TypeOK, TypeOK', KeptInv, NEW v \in Process, WriteabilityStep(v)
    PROVE  KeptInv'
<1> DEFINE p == Probe(v)
<1>1. p \in Path /\ Resolve(p) \in Path
  BY RequestType, ResolveType DEF TypeOK
<1>2. ASSUME Runs(v), pc[v] # "dir_exists"
      PROVE  Fits(v, AfterReturn(v)) /\ Fits(v, AfterThrow(v))
  BY <1>2 DEF KeptInv, Guards, Fits, AfterReturn, AfterThrow, GuardLabels, DirectoryLabels
<1>3. Changes(v) => \A q \in Path : before'[q] = before[q]
  BY DEF Changes, history
<1>4. "empty" \in Entry \ {"link"}
  BY DEF Entry
<1>5. CASE Contingency(v)
  <2>1. Runs(v) /\ pc[v] # "dir_exists"
    BY <1>5 DEF Contingency, Look, At, Runs, Ended
  <2>2. Fits(v, "exists")
    BY DEF Fits, GuardLabels, DirectoryLabels
  <2> QED
    BY <1>2, <1>5, <2>1, <2>2, LookKeepsInv DEF Contingency, Ended
<1>6. CASE ProbeExists(v)
  <2>1. ~Exists(p) => Absent(p)
    BY <1>1, AbsentWhenMissing
  <2>2. Fits(v, "append") /\ (Exists(p) \/ Fits(v, "create"))
    BY <2>1 DEF Fits, GuardLabels, DirectoryLabels
  <2> QED
    BY <1>6, <2>2, LookKeepsInv DEF ProbeExists, Ended
<1>7. CASE Append(v)
  <2>1. Changes(v) /\ Runs(v) /\ pc[v] # "dir_exists"
    BY <1>7 DEF Append, At, Runs, Ended
  <2>2. ASSUME NEW q \in Path PROVE fs'[q] = fs[q] \/ (Absent(q) /\ fs'[q] # "link")
    <3>1. CASE fs' = fs
      BY <3>1
    <3>2. CASE ~Exists(p) /\ fs' = Put(Resolve(p), "empty")
      <4>1. Absent(Resolve(p))
        BY <1>1, <3>2, AbsentWhenMissing, ResolveAbsent
      <4> QED
        BY <1>1, <1>4, <3>2, <4>1, PutOnAbsent
    <3> QED
      BY <1>7, <3>1, <3>2 DEF Append
  <2>3. GoTo(v, AfterReturn(v)) \/ GoTo(v, AfterThrow(v))
    BY <1>7 DEF Append
  <2> QED
    BY <1>2, <2>1, <2>2, <2>3, StepKeepsInv
<1>8. ASSUME At(v, "create") \/ At(v, "remove") \/ At(v, "release") \/ At(v, "unwind")
      PROVE  Absent(p) /\ Runs(v) /\ pc[v] # "dir_exists"
  BY <1>8 DEF KeptInv, Guards, Fits, GuardLabels, At, Runs, Ended
<1>9. CASE Create(v)
  <2>1. Changes(v) /\ Absent(p) /\ Runs(v) /\ pc[v] # "dir_exists"
    BY <1>8, <1>9 DEF Create
  <2>2. fs' = fs \/ fs' = Put(Resolve(p), "empty")
    BY <1>9 DEF Create
  <2>3. Absent(Resolve(p))
    BY <1>1, <2>1, ResolveAbsent
  <2>4. \A q \in Path : fs'[q] = fs[q] \/ (Absent(q) /\ fs'[q] # "link")
    BY <1>1, <1>4, <2>2, <2>3, PutOnAbsent
  <2>5. GoTo(v, "remove") \/ GoTo(v, "unwind")
    BY <1>9 DEF Create
  <2> QED
    BY <2>1, <2>4, <2>5, StepKeepsInv DEF Fits, DirectoryLabels
<1>10. CASE Remove(v)
  <2>1. Changes(v) /\ Absent(p) /\ Runs(v) /\ pc[v] # "dir_exists"
    BY <1>8, <1>10 DEF Remove
  <2>2. \A q \in Path : fs'[q] = fs[q] \/ (Absent(q) /\ fs'[q] # "link")
    BY <1>1, <1>10, <2>1 DEF Remove, RemoveEntry, TypeOK
  <2>3. GoTo(v, "release") \/ GoTo(v, "unwind")
    BY <1>10 DEF Remove
  <2> QED
    BY <2>1, <2>2, <2>3, StepKeepsInv DEF Fits, DirectoryLabels
<1>11. CASE Release(v)
  <2>1. Changes(v) /\ Absent(p) /\ Runs(v) /\ pc[v] # "dir_exists"
    BY <1>8, <1>11 DEF Release
  <2>2. \A q \in Path : fs'[q] = fs[q] \/ (Absent(q) /\ fs'[q] # "link")
    BY <1>1, <1>11, <2>1, RemoveAllOfAbsent DEF Release
  <2>3. GoTo(v, AfterReturn(v)) \/ GoTo(v, AfterThrow(v))
    BY <1>11 DEF Release
  <2> QED
    BY <1>2, <2>1, <2>2, <2>3, StepKeepsInv
<1> QED
  BY <1>5, <1>6, <1>7, <1>9, <1>10, <1>11 DEF WriteabilityStep

LEMMA OutputDirectoryKeepsInv ==
    ASSUME TypeOK, TypeOK', KeptInv, NEW v \in Process, OutputDirectoryStep(v)
    PROVE  KeptInv'
<1>1. path(v) \in Path
  BY RequestType
<1>2. CASE DirExists(v)
  BY <1>2, DirExistsKeepsInv
<1>3. CASE CreateDirectory(v)
  <2>1. Changes(v) /\ Runs(v) /\ pc[v] # "dir_exists"
    BY <1>3 DEF CreateDirectory, At, Runs, Ended
  <2>2. ASSUME NEW q \in Path PROVE fs'[q] = fs[q] \/ (Absent(q) /\ fs'[q] # "link")
    <3>1. CASE fs[path(v)] = "none" /\ fs' = Put(path(v), "dir")
      <4>1. Absent(path(v))
        BY <1>1, <3>1, AbsentWhenMissing DEF Exists, Resolve
      <4>2. "dir" \in Entry \ {"link"}
        BY DEF Entry
      <4> QED
        BY <1>1, <3>1, <4>1, <4>2, PutOnAbsent
    <3> QED
      BY <1>3, <3>1 DEF CreateDirectory
  <2>3. GoTo(v, "contingency") \/ GoTo(v, "threw")
    BY <1>3 DEF CreateDirectory
  <2> QED
    BY <2>1, <2>2, <2>3, StepKeepsInv DEF Fits, GuardLabels, DirectoryLabels
<1>4. CASE ReleaseDirectory(v)
  <2>1. Changes(v) /\ Absent(path(v)) /\ Runs(v) /\ pc[v] # "dir_exists"
    BY <1>4 DEF ReleaseDirectory, KeptInv, Guards, Fits, DirectoryLabels, At, Runs, Ended
  <2>2. \A q \in Path : fs'[q] = fs[q] \/ (Absent(q) /\ fs'[q] # "link")
    BY <1>1, <1>4, <2>1, RemoveAllOfAbsent DEF ReleaseDirectory
  <2>3. GoTo(v, "release_dir") \/ GoTo(v, "passed") \/ GoTo(v, "threw")
    BY <1>4 DEF ReleaseDirectory
  <2> QED
    BY <2>1, <2>2, <2>3, StepKeepsInv DEF Fits, GuardLabels
<1> QED
  BY <1>2, <1>3, <1>4 DEF OutputDirectoryStep

LEMMA ValidateKeepsInv ==
    ASSUME TypeOK, TypeOK', KeptInv, NEW v \in Process, Validate(v)
    PROVE  KeptInv'
<1>1. ASSUME NEW label, label \notin GuardLabels \cup DirectoryLabels PROVE Fits(v, label)
  BY <1>1 DEF Fits
<1> USE <1>1 DEF GuardLabels, DirectoryLabels
<1>2. CASE OutputFileStep(v)
  BY <1>2, LookKeepsInv DEF OutputFileStep, IsNoDirectory, CreateNew, ValidateFilename, Ended
<1>3. CASE InputStep(v)
  <2>1. AfterReading(v) \in {"validate_filename", "passed"}
    BY DEF AfterReading
  <2>2. CASE InputExists(v) \/ InputIsDirectory(v) \/ Readable(v)
    BY <2>2, LookKeepsInv DEF InputExists, InputIsDirectory, Readable, Ended
  <2>3. CASE List(v) \/ IsRegular(v) \/ OpenInput(v)
    BY <2>1, <2>3, LookKeepsInv DEF List, IsRegular, OpenInput, Ended
  <2> QED
    BY <1>3, <2>2, <2>3 DEF InputStep
<1> QED
  BY <1>2, <1>3, WriteabilityKeepsInv, OutputDirectoryKeepsInv DEF Validate

LEMMA WriteKeepsInv ==
    ASSUME TypeOK, TypeOK', KeptInv, NEW v \in Process, WriteFile(v) \/ WriteInDirectory(v)
    PROVE  KeptInv'
<1>1. PICK p \in Path :
         /\ Writes(v, p)
         /\ fs[p] \in Files \cup {"none"} /\ fs'[p] = "data"
         /\ \A q \in Path \ {p} :
               fs'[q] = fs[q] \/ (fs[q] = "none" /\ fs'[q] = "dir")
  <2>1. path(v) \in Path
    BY RequestType
  <2>2. CASE WriteFile(v)
    <3>1. Resolve(path(v)) \in Path
      BY <2>1, ResolveType DEF TypeOK
    <3> QED
      BY <2>2, <3>1 DEF WriteFile, CanOpen, Put, TypeOK
  <2>3. CASE WriteInDirectory(v)
    BY <2>1, <2>3, PathAssumption DEF WriteInDirectory, TypeOK
  <2> QED
    BY <2>2, <2>3
<1>2. \A q \in Path : before'[q] = before[q]
                      \/ (q = p /\ before[q] \in Files /\ before'[q] = "data")
  BY <1>1 DEF Writes, TypeOK
<1>3. \A q \in Path : Absent(q)' <=> Absent(q)
  BY <1>2, PathAssumption DEF Absent, Dangling, Files
<1>4. \A w \in Process : Guards(w)'
  <2> SUFFICES ASSUME NEW w \in Process PROVE Guards(w)'
    OBVIOUS
  <2>1. path(w) \in Path /\ Probe(w) \in Path
    BY RequestType
  <2>2. request' = request /\ dir_exists' = dir_exists
    BY <1>1 DEF Writes
  <2>3. path(w)' = path(w) /\ Probe(w)' = Probe(w)
    BY <2>2 DEF path, Probe
  <2>4. CASE w = v
    BY <1>1, <2>4 DEF Writes, GoTo, TypeOK, Guards, Fits, GuardLabels, DirectoryLabels, Runs, Ended
  <2>5. CASE w # v
    <3>1. pc'[w] = pc[w]
      BY <1>1, <2>5 DEF Writes, GoTo, TypeOK
    <3> QED
      BY <1>3, <2>1, <2>2, <2>3, <3>1 DEF KeptInv, Guards, Fits, Runs
  <2> QED
    BY <2>4, <2>5
<1>5. ExistingIsKept'
  <2> SUFFICES ASSUME NEW q \in Path, before'[q] # "none", ~Dangling(before, q)'
               PROVE  fs'[q] = before'[q]
    BY DEF ExistingIsKept
  <2>1. ~Absent(q) /\ fs[q] = before[q]
    BY <1>2, <1>3 DEF Absent, Files, KeptInv, ExistingIsKept
  <2>2. CASE q = p
    BY <1>1, <1>2, <2>1, <2>2 DEF Writes, TypeOK, Absent
  <2>3. CASE q # p
    BY <1>1, <1>2, <2>1, <2>3 DEF Absent
  <2> QED
    BY <2>2, <2>3
<1>6. LinksAreShort(before)' /\ \A q \in Path : fs'[q] = "link" => before'[q] = "link"
  BY <1>1, <1>2, PathAssumption DEF KeptInv, LinksAreShort, Files
<1> QED
  BY <1>4, <1>5, <1>6 DEF KeptInv

LEMMA NextKeepsInv == TypeOK /\ KeptInv /\ [Next]_vars => KeptInv'
<1> SUFFICES ASSUME TypeOK, KeptInv, [Next]_vars PROVE KeptInv'
  OBVIOUS
<1>1. TypeOK'
  BY NextKeepsType
<1>2. CASE UNCHANGED vars
  BY <1>2 DEF vars, history, KeptInv, ExistingIsKept, LinksAreShort, Dangling, Guards, Fits,
              Absent, Probe, path, Runs
<1>3. ASSUME NEW v \in Process, Kill(v) PROVE KeptInv'
  <2>1. fs' = fs /\ before' = before
    BY <1>3 DEF Kill
  <2>2. ASSUME NEW w \in Process PROVE Guards(w)'
    <3>1. pc'[w] = "idle" \/ pc'[w] = pc[w]
      BY <1>3 DEF Kill, GoTo, TypeOK
    <3> QED
      BY <1>3, <2>1, <3>1 DEF Kill, KeptInv, Guards, Fits, GuardLabels, DirectoryLabels,
                              Absent, Dangling, Probe, path, Runs, Ended
  <2> QED
    BY <2>1, <2>2 DEF KeptInv, ExistingIsKept, LinksAreShort, Dangling
<1> QED
  BY <1>1, <1>2, <1>3, StartKeepsInv, ValidateKeepsInv, WriteKeepsInv DEF Next

LEMMA InitKept == Init => KeptInv
<1> SUFFICES ASSUME Init PROVE KeptInv
  OBVIOUS
<1>1. before = fs /\ LinksAreShort(fs)
  BY FileSystemAssumption DEF Init
<1>2. ASSUME NEW v \in Process PROVE Guards(v)
  BY DEF Init, Guards, Fits, GuardLabels, DirectoryLabels, Runs, Ended
<1> QED
  BY <1>1, <1>2 DEF KeptInv, ExistingIsKept

\* However many validators overlap, are killed and start again, what existed
\* before the first of them began stays as it was, links to nothing excepted.
THEOREM ExistingIsKeptHolds == Spec => []ExistingIsKept
<1>1. KeptInv => ExistingIsKept
  BY DEF KeptInv
<1> QED
  BY <1>1, InitKept, NextKeepsInv, TypeCorrect, PTL DEF Spec

----------------------------------------------------------------------------
(***************************************************************************)
(* A validator that nothing happened beside.  While it runs, fs is before  *)
(* with what the validator has created so far, and the label it has come   *)
(* to tells what it has seen.                                              *)
(***************************************************************************)
Kind(v) == request[v].kind

WriteabilityLabels == {"contingency", "exists", "append", "create", "remove", "release", "unwind"}

HasMade(v, label) ==
    /\ Kind(v) = "output_directory" /\ ~dir_exists[v]
    /\ label \in WriteabilityLabels \cup {"remove_all", "unwind_dir"}

Base(v, label) == IF HasMade(v, label) THEN [before EXCEPT ![path(v)] = "dir"] ELSE before

Expected(v, label) ==
    IF label = "remove" THEN [Base(v, label) EXCEPT ![Probe(v)] = "empty"] ELSE Base(v, label)

\* Which validators come to a label.
KindFits(v, label) ==
    /\ label \in {"is_directory", "create_new"} => Kind(v) = "output_file"
    /\ label = "validate_filename" => Kind(v) \in {"output_file", "input_file"}
    /\ label \in {"dir_exists", "create_directory"} => Kind(v) = "output_directory"
    /\ label \in DirectoryLabels => Kind(v) = "output_directory" /\ ~dir_exists[v]
    /\ label \in WriteabilityLabels => Kind(v) \in {"output_file", "output_directory"}
    /\ label \in {"input_exists", "readable", "list"} =>
          Kind(v) \in {"input_file", "input_directory"}
    /\ label = "input_is_directory" => Kind(v) = "input_directory"
    /\ label \in {"is_regular", "open"} => Kind(v) = "input_file"

\* What output_file_validator has seen.
FileSeen(v, label) ==
    Kind(v) = "output_file" =>
        /\ label \in WriteabilityLabels \cup {"create_new", "validate_filename"} =>
              ~IsDirectory(path(v))
        /\ label \in (WriteabilityLabels \ {"remove"}) \cup {"validate_filename"} =>
              (request[v].create_new => ~Exists(path(v)))
        /\ label = "validate_filename" => CanOpen(path(v))

\* What output_directory_validator has seen.
DirectorySeen(v, label) ==
    Kind(v) = "output_directory" =>
        /\ label = "create_directory" => (dir_exists[v] <=> Exists(path(v)))
        /\ label \in WriteabilityLabels => (dir_exists[v] => IsDirectory(path(v)))
        /\ label \in WriteabilityLabels \cup DirectoryLabels =>
              (~dir_exists[v] => before[path(v)] = "none" /\ CanCreate(path(v)))
        /\ label \in {"remove_all", "release_dir"} => Probe(v) \notin permissions.unwritable
        /\ label = "unwind_dir" => Probe(v) \in permissions.unwritable

\* What validate_writeability has seen.
ProbeSeen(v, label) ==
    /\ label \in {"exists", "append"} => ~IsDirectory(Probe(v))
    /\ label = "append" => Exists(Probe(v))
    /\ label \in GuardLabels => before[Probe(v)] = "none"
    /\ label \in {"remove", "release"} => CanOpen(Probe(v))
    /\ label = "unwind" => ~CanOpen(Probe(v))

\* What the input validators have seen.
InputSeen(v, label) ==
    /\ label \in {"input_is_directory", "readable"} => Exists(path(v))
    /\ label = "readable" /\ Kind(v) = "input_directory" => IsDirectory(path(v))
    /\ label = "list" => IsDirectory(path(v))
    /\ label = "is_regular" => Exists(path(v)) /\ ~IsDirectory(path(v))
    /\ label = "validate_filename" /\ Kind(v) = "input_file" => CanRead(path(v))

Answers(v, label) ==
    /\ label = "passed" => Accepts(request[v])
    /\ label = "threw" => ~Accepts(request[v])

TraceAt(v, label) ==
    /\ fs = Expected(v, label)
    /\ KindFits(v, label) /\ FileSeen(v, label) /\ DirectorySeen(v, label)
    /\ ProbeSeen(v, label) /\ InputSeen(v, label) /\ Answers(v, label)

NoDirectoryIsLink == \A r \in Requests : r.kind = "output_directory" => before[r.path] # "link"

TraceInv ==
    /\ NoDirectoryIsLink
    /\ \A v \in alone : \A w \in Process : w # v => ~Runs(w) /\ w \notin alone
    /\ \A v \in alone : ~Dangling(before, Probe(v)) => TraceAt(v, pc[v])

LEMMA KindType ==
    ASSUME TypeOK, NEW v \in Process
    PROVE  /\ request[v] \in Requests
           /\ Kind(v) \in {"output_file", "output_directory", "input_file", "input_directory"}
BY RequestAssumption DEF TypeOK, Kind, Request

\* Accepts, one validator at a time.
LEMMA AcceptsFile ==
    ASSUME NEW v \in Process, Kind(v) = "output_file"
    PROVE  Accepts(request[v]) <=>
             /\ ~IsDirectory(path(v)) /\ CanOpen(path(v)) /\ request[v].extension_fits
             /\ request[v].create_new => ~Exists(path(v))
BY DEF Kind, Accepts, path

LEMMA AcceptsDirectory ==
    ASSUME NEW v \in Process, Kind(v) = "output_directory"
    PROVE  Accepts(request[v]) <=>
             \/ IsDirectory(path(v)) /\ CanOpen(Probe(v))
             \/ /\ fs[path(v)] = "none" /\ CanCreate(path(v))
                /\ Probe(v) \notin permissions.unwritable
BY DEF Kind, Accepts, path, Probe

LEMMA AcceptsInput ==
    ASSUME NEW v \in Process
    PROVE  /\ Kind(v) = "input_file" =>
                (Accepts(request[v]) <=> CanRead(path(v)) /\ request[v].extension_fits)
           /\ Kind(v) = "input_directory" =>
                (Accepts(request[v]) <=> IsDirectory(path(v)) /\ CanRead(path(v)))
BY DEF Kind, Accepts, path

\* Where a directory is validated and what is in it.
LEMMA DirectoryPaths ==
    ASSUME TypeOK, KeptInv, NoDirectoryIsLink, NEW v \in Process, Kind(v) = "output_directory"
    PROVE  /\ path(v) \in Path /\ Probe(v) = Dummy[path(v)] /\ Probe(v) \in Below[path(v)]
           /\ Probe(v) # path(v) /\ path(v) \notin Below[Probe(v)]
           /\ \A d \in Path : Probe(v) \in Below[d] <=> d = path(v) \/ path(v) \in Below[d]
           /\ Resolve(path(v)) = path(v)
<1>1. path(v) \in Path /\ Probe(v) \in Path
  BY RequestType
<1>2. Probe(v) = Dummy[path(v)]
  BY DEF Probe, Kind
<1>3. request[v] \in Requests
  BY KindType
<1>4. \A d \in Path : Probe(v) \in Below[d] <=> d = path(v) \/ path(v) \in Below[d]
  BY <1>2, <1>3, RequestAssumption DEF Kind, path
<1>5. before[path(v)] # "link"
  BY <1>3 DEF NoDirectoryIsLink, Kind, path
<1> QED
  BY <1>1, <1>2, <1>4, <1>5, PathAssumption DEF KeptInv, Resolve

\* A step of the validator that leaves the file system as it is.
LEMMA SameTrace ==
    ASSUME TypeOK, NEW v \in Process, NEW label, GoTo(v, label), Changes(v), fs' = fs,
           TraceAt(v, label)
    PROVE  TraceAt(v, pc[v])'
<1>1. pc'[v] = label
  BY DEF TypeOK, GoTo
<1>2. UNCHANGED <<fs, permissions, request, dir_exists, before>>
  BY DEF Changes, history
<1>3. /\ Kind(v)' = Kind(v) /\ path(v)' = path(v) /\ Probe(v)' = Probe(v)
      /\ dir_exists'[v] = dir_exists[v] /\ request'[v] = request[v]
  BY <1>2 DEF Kind, path, Probe
<1>4. ASSUME NEW p
      PROVE  /\ IsDirectory(p)' <=> IsDirectory(p)
             /\ Exists(p)' <=> Exists(p)
             /\ CanCreate(p)' <=> CanCreate(p)
             /\ CanOpen(p)' <=> CanOpen(p)
             /\ CanRead(p)' <=> CanRead(p)
  BY <1>2 DEF IsDirectory, Exists, CanOpen, CanRead, CanCreate, Resolve
<1>5. Expected(v, label)' = Expected(v, label)
  BY <1>2, <1>3 DEF Expected, Base, HasMade
<1>6. KindFits(v, label)' <=> KindFits(v, label)
  BY <1>3 DEF KindFits
<1>7. FileSeen(v, label)' <=> FileSeen(v, label)
  BY <1>3, <1>4 DEF FileSeen
<1>8. DirectorySeen(v, label)' <=> DirectorySeen(v, label)
  BY <1>2, <1>3, <1>4 DEF DirectorySeen
<1>9. ProbeSeen(v, label)' <=> ProbeSeen(v, label)
  BY <1>2, <1>3, <1>4 DEF ProbeSeen
<1>10. InputSeen(v, label)' <=> InputSeen(v, label)
  BY <1>3, <1>4 DEF InputSeen
<1>11. Accepts(request[v])' <=> Accepts(request[v])
  BY <1>2 DEF Accepts, IsDirectory, Exists, CanOpen, CanRead, CanCreate, Resolve
<1>12. Answers(v, label)' <=> Answers(v, label)
  BY <1>11 DEF Answers
<1>13. TraceAt(v, label)'
  BY <1>2, <1>5, <1>6, <1>7, <1>8, <1>9, <1>10, <1>12 DEF TraceAt
<1> QED
  BY <1>1, <1>13

LEMMA LookKeepsTrace ==
    ASSUME TypeOK, NEW v \in Process, NEW label, NEW found, NEW ifFound, NEW ifNot,
           Look(v, label, found, ifFound, ifNot),
           found => TraceAt(v, ifFound), ~found => TraceAt(v, ifNot)
    PROVE  TraceAt(v, pc[v])'
<1>1. Changes(v) /\ fs' = fs
  BY DEF Look, Changes, history
<1>2. (found /\ GoTo(v, ifFound)) \/ (~found /\ GoTo(v, ifNot))
  BY DEF Look
<1> QED
  BY <1>1, <1>2, SameTrace

LEMMA OutputFileKeepsTrace ==
    ASSUME TypeOK, NEW v \in Process, TraceAt(v, pc[v]), OutputFileStep(v)
    PROVE  TraceAt(v, pc[v])'
<1> USE DEF WriteabilityLabels, GuardLabels, DirectoryLabels
<1>1. CASE IsNoDirectory(v)
  <2>1. pc[v] = "is_directory" /\ Kind(v) = "output_file" /\ fs = before
    BY <1>1 DEF IsNoDirectory, Look, At, TraceAt, KindFits, Expected, Base, HasMade
  <2>2. IsDirectory(path(v)) => TraceAt(v, "threw")
    BY <2>1, AcceptsFile DEF TraceAt, Expected, Base, HasMade, KindFits, FileSeen, DirectorySeen,
                             ProbeSeen, InputSeen, Answers
  <2>3. ~IsDirectory(path(v)) => TraceAt(v, "create_new")
    BY <2>1 DEF TraceAt, Expected, Base, HasMade, KindFits, FileSeen, DirectorySeen, ProbeSeen,
                InputSeen, Answers
  <2> QED
    BY <1>1, <2>2, <2>3, LookKeepsTrace DEF IsNoDirectory
<1>2. CASE CreateNew(v)
  <2>1. /\ pc[v] = "create_new" /\ Kind(v) = "output_file" /\ fs = before
        /\ ~IsDirectory(path(v))
    BY <1>2 DEF CreateNew, Look, At, TraceAt, KindFits, FileSeen, Expected, Base, HasMade
  <2> DEFINE found == request[v].create_new /\ Exists(path(v))
  <2>2. found => TraceAt(v, "threw")
    BY <2>1, AcceptsFile DEF TraceAt, Expected, Base, HasMade, KindFits, FileSeen, DirectorySeen,
                             ProbeSeen, InputSeen, Answers
  <2>3. ~found => TraceAt(v, "contingency")
    BY <2>1 DEF TraceAt, Expected, Base, HasMade, KindFits, FileSeen, DirectorySeen, ProbeSeen,
                InputSeen, Answers
  <2>4. Look(v, "create_new", found, "threw", "contingency")
    BY <1>2 DEF CreateNew
  <2> HIDE DEF found
  <2> QED
    BY <2>2, <2>3, <2>4, LookKeepsTrace
<1>3. CASE ValidateFilename(v)
  <2>1. /\ pc[v] = "validate_filename" /\ fs = before
        /\ Kind(v) \in {"output_file", "input_file"}
    BY <1>3 DEF ValidateFilename, Look, At, TraceAt, KindFits, Expected, Base, HasMade
  <2>2. Accepts(request[v]) <=> request[v].extension_fits
    <3>1. CASE Kind(v) = "output_file"
      BY <2>1, <3>1, AcceptsFile DEF TraceAt, FileSeen
    <3>2. CASE Kind(v) = "input_file"
      BY <2>1, <3>2, AcceptsInput DEF TraceAt, InputSeen
    <3> QED
      BY <2>1, <3>1, <3>2
  <2>3. request[v].extension_fits => TraceAt(v, "passed")
    BY <2>1, <2>2 DEF TraceAt, Expected, Base, HasMade, KindFits, FileSeen, DirectorySeen,
                      ProbeSeen, InputSeen, Answers
  <2>4. ~request[v].extension_fits => TraceAt(v, "threw")
    BY <2>1, <2>2 DEF TraceAt, Expected, Base, HasMade, KindFits, FileSeen, DirectorySeen,
                      ProbeSeen, InputSeen, Answers
  <2> QED
    BY <1>3, <2>3, <2>4, LookKeepsTrace DEF ValidateFilename
<1> QED
  BY <1>1, <1>2, <1>3 DEF OutputFileStep

LEMMA InputKeepsTrace ==
    ASSUME TypeOK, KeptInv, NEW v \in Process, TraceAt(v, pc[v]), InputStep(v)
    PROVE  TraceAt(v, pc[v])'
<1> USE DEF WriteabilityLabels, GuardLabels, DirectoryLabels
<1>1. Exists(path(v)) <=> fs[Resolve(path(v))] # "none"
  BY DEF Exists
<1>2. /\ IsDirectory(path(v)) => Exists(path(v))
      /\ CanRead(path(v)) => Exists(path(v))
  BY DEF Exists, IsDirectory, CanRead
<1>3. ASSUME NEW label \in {"passed", "threw", "validate_filename", "input_is_directory",
                            "readable", "list", "is_regular", "open"},
             fs = before, KindFits(v, label), InputSeen(v, label), Answers(v, label),
             Kind(v) \in {"input_file", "input_directory"}
      PROVE  TraceAt(v, label)
  BY <1>3 DEF TraceAt, Expected, Base, HasMade, FileSeen, DirectorySeen, ProbeSeen
<1>4. AfterReading(v) = IF Kind(v) = "input_file" THEN "validate_filename" ELSE "passed"
  BY DEF AfterReading, Kind
<1>5. /\ Kind(v) = "input_file" =>
           (Accepts(request[v]) <=> CanRead(path(v)) /\ request[v].extension_fits)
      /\ Kind(v) = "input_directory" =>
           (Accepts(request[v]) <=> IsDirectory(path(v)) /\ CanRead(path(v)))
  BY AcceptsInput
<1>6. CASE InputExists(v)
  <2>1. fs = before /\ Kind(v) \in {"input_file", "input_directory"}
    BY <1>6 DEF InputExists, Look, At, TraceAt, KindFits, Expected, Base, HasMade
  <2>2. ~Exists(path(v)) => TraceAt(v, "threw")
    BY <1>2, <1>3, <1>5, <2>1 DEF KindFits, InputSeen, Answers
  <2>3. Exists(path(v)) /\ Kind(v) = "input_file" => TraceAt(v, "readable")
    BY <1>3, <2>1 DEF KindFits, InputSeen, Answers
  <2>4. Exists(path(v)) /\ Kind(v) # "input_file" => TraceAt(v, "input_is_directory")
    BY <1>3, <2>1 DEF KindFits, InputSeen, Answers
  <2> DEFINE next == IF Kind(v) = "input_file" THEN "readable" ELSE "input_is_directory"
  <2>5. Exists(path(v)) => TraceAt(v, next)
    BY <2>3, <2>4
  <2>6. Look(v, "input_exists", Exists(path(v)), next, "threw")
    BY <1>6 DEF InputExists, Kind
  <2> HIDE DEF next
  <2> QED
    BY <2>2, <2>5, <2>6, LookKeepsTrace
<1>7. CASE InputIsDirectory(v)
  <2>1. fs = before /\ Kind(v) = "input_directory" /\ Exists(path(v))
    BY <1>7 DEF InputIsDirectory, Look, At, TraceAt, KindFits, InputSeen, Expected, Base, HasMade
  <2>2. ~IsDirectory(path(v)) => TraceAt(v, "threw")
    BY <1>3, <1>5, <2>1 DEF KindFits, InputSeen, Answers
  <2>3. IsDirectory(path(v)) => TraceAt(v, "readable")
    BY <1>3, <2>1 DEF KindFits, InputSeen, Answers
  <2> QED
    BY <1>7, <2>2, <2>3, LookKeepsTrace DEF InputIsDirectory
<1>8. CASE Readable(v)
  <2>1. /\ fs = before /\ Kind(v) \in {"input_file", "input_directory"} /\ Exists(path(v))
        /\ Kind(v) = "input_directory" => IsDirectory(path(v))
    BY <1>8 DEF Readable, Look, At, TraceAt, KindFits, InputSeen, Expected, Base, HasMade
  <2>2. IsDirectory(path(v)) => TraceAt(v, "list")
    BY <1>3, <2>1 DEF KindFits, InputSeen, Answers
  <2>3. ~IsDirectory(path(v)) => TraceAt(v, "is_regular")
    BY <1>3, <2>1 DEF KindFits, InputSeen, Answers
  <2> QED
    BY <1>8, <2>2, <2>3, LookKeepsTrace DEF Readable
<1>9. ASSUME fs = before, Kind(v) \in {"input_file", "input_directory"}, CanRead(path(v)),
             Kind(v) = "input_directory" => IsDirectory(path(v))
      PROVE  TraceAt(v, AfterReading(v))
  BY <1>3, <1>4, <1>5, <1>9 DEF KindFits, InputSeen, Answers
<1>10. ASSUME fs = before, Kind(v) \in {"input_file", "input_directory"}, ~CanRead(path(v))
       PROVE  TraceAt(v, "threw")
  BY <1>3, <1>5, <1>10 DEF KindFits, InputSeen, Answers
<1>11. CASE List(v)
  <2>1. fs = before /\ Kind(v) \in {"input_file", "input_directory"} /\ IsDirectory(path(v))
    BY <1>11 DEF List, Look, At, TraceAt, KindFits, InputSeen, Expected, Base, HasMade
  <2> DEFINE found == IsDirectory(path(v)) /\ CanRead(path(v))
  <2>2. found => TraceAt(v, AfterReading(v))
    BY <1>9, <2>1
  <2>3. ~found => TraceAt(v, "threw")
    BY <1>10, <2>1
  <2>4. Look(v, "list", found, AfterReading(v), "threw")
    BY <1>11 DEF List
  <2> HIDE DEF found
  <2> QED
    BY <2>2, <2>3, <2>4, LookKeepsTrace
<1>12. CASE IsRegular(v)
  <2>1. fs = before /\ Kind(v) = "input_file" /\ Exists(path(v)) /\ ~IsDirectory(path(v))
    BY <1>12 DEF IsRegular, Look, At, TraceAt, KindFits, InputSeen, Expected, Base, HasMade
  <2>2. path(v) \in Path /\ Resolve(path(v)) \in Path
    BY RequestType, ResolveType DEF TypeOK
  <2>3. fs[Resolve(path(v))] # "link"
    BY <2>1, <2>2 DEF KeptInv, LinksAreShort, Resolve
  <2>4. fs[Resolve(path(v))] \in Files
    BY <1>1, <2>1, <2>2, <2>3 DEF IsDirectory, TypeOK, Entry, Files
  <2>5. TraceAt(v, "open")
    BY <1>3, <2>1 DEF KindFits, InputSeen, Answers
  <2> QED
    BY <1>12, <2>4, <2>5, LookKeepsTrace DEF IsRegular
<1>13. CASE OpenInput(v)
  <2>1. fs = before /\ Kind(v) = "input_file"
    BY <1>13 DEF OpenInput, Look, At, TraceAt, KindFits, Expected, Base, HasMade
  <2>2. CanRead(path(v)) => TraceAt(v, AfterReading(v))
    BY <1>9, <2>1
  <2>3. ~CanRead(path(v)) => TraceAt(v, "threw")
    BY <1>10, <2>1
  <2> QED
    BY <1>13, <2>2, <2>3, LookKeepsTrace DEF OpenInput
<1> QED
  BY <1>6, <1>7, <1>8, <1>11, <1>12, <1>13 DEF InputStep

\* What validate_writeability relies on between its calls, but for the moment
\* at which its file exists.
Probing(v) ==
    /\ fs = Base(v, "exists")
    /\ Kind(v) \in {"output_file", "output_directory"}
    /\ Kind(v) = "output_file" =>
          ~IsDirectory(path(v)) /\ (request[v].create_new => ~Exists(path(v)))
    /\ Kind(v) = "output_directory" =>
          /\ dir_exists[v] => IsDirectory(path(v))
          /\ ~dir_exists[v] => before[path(v)] = "none" /\ CanCreate(path(v))

LEMMA TraceOfProbing ==
    ASSUME NEW v \in Process, NEW label \in WriteabilityLabels \ {"remove"}
    PROVE  TraceAt(v, label) <=> Probing(v) /\ ProbeSeen(v, label)
<1> USE DEF WriteabilityLabels, GuardLabels, DirectoryLabels
<1>1. Expected(v, label) = Base(v, "exists")
  BY DEF Expected, Base, HasMade
<1>2. ASSUME TraceAt(v, label) PROVE Probing(v) /\ ProbeSeen(v, label)
  <2>1. Kind(v) \in {"output_file", "output_directory"} /\ FileSeen(v, label) /\ DirectorySeen(v, label)
    BY <1>2 DEF TraceAt, KindFits
  <2> QED
    BY <1>1, <1>2, <2>1 DEF TraceAt, Probing, FileSeen, DirectorySeen
<1>3. ASSUME Probing(v), ProbeSeen(v, label) PROVE TraceAt(v, label)
  <2>1. FileSeen(v, label)
    BY <1>3 DEF Probing, FileSeen
  <2>2. DirectorySeen(v, label)
    BY <1>3 DEF Probing, DirectorySeen
  <2>3. KindFits(v, label) /\ InputSeen(v, label) /\ Answers(v, label)
    BY <1>3 DEF Probing, KindFits, InputSeen, Answers
  <2> QED
    BY <1>1, <1>3, <2>1, <2>2, <2>3 DEF TraceAt, Probing
<1> QED
  BY <1>2, <1>3

LEMMA TraceOfProbingNext ==
    \A v \in Process, label \in WriteabilityLabels \ {"remove"} :
        (TraceAt(v, label) <=> Probing(v) /\ ProbeSeen(v, label))'
<1>1. \A v \in Process, label \in WriteabilityLabels \ {"remove"} :
         TraceAt(v, label) <=> Probing(v) /\ ProbeSeen(v, label)
  BY TraceOfProbing
<1>2. (\A v \in Process, label \in WriteabilityLabels \ {"remove"} :
         TraceAt(v, label) <=> Probing(v) /\ ProbeSeen(v, label))'
  BY <1>1, PTL
<1> QED
  BY <1>2

\* In a directory the validator has made there is nothing.
LEMMA ProbeIsNone ==
    ASSUME TypeOK, KeptInv, NoDirectoryIsLink, NEW v \in Process, Probing(v),
           Kind(v) = "output_directory", ~dir_exists[v]
    PROVE  /\ before[Probe(v)] = "none" /\ fs[Probe(v)] = "none" /\ fs[path(v)] = "dir"
           /\ Resolve(Probe(v)) = Probe(v)
           /\ CanOpen(Probe(v)) <=> Probe(v) \notin permissions.unwritable
<1>1. /\ path(v) \in Path /\ Probe(v) \in Path /\ Probe(v) \in Below[path(v)] /\ Probe(v) # path(v)
      /\ \A d \in Path : Probe(v) \in Below[d] <=> d = path(v) \/ path(v) \in Below[d]
  BY DirectoryPaths, RequestType
<1>2. before[path(v)] = "none" /\ CanCreate(path(v)) /\ fs = [before EXCEPT ![path(v)] = "dir"]
  BY DEF Probing, Base, HasMade, WriteabilityLabels
<1>3. before[Probe(v)] = "none"
  BY <1>1, <1>2 DEF TypeOK, IsTree
<1>4. fs[Probe(v)] = "none" /\ fs[path(v)] = "dir"
  BY <1>1, <1>2, <1>3 DEF TypeOK
<1>5. Resolve(Probe(v)) = Probe(v)
  BY <1>4 DEF Resolve
<1>6. \A d \in Path : Probe(v) \in Below[d] => fs[d] = "dir"
  BY <1>1, <1>2, <1>4 DEF CanCreate
<1> QED
  BY <1>3, <1>4, <1>5, <1>6 DEF CanOpen, CanCreate

LEMMA ReturnKeepsTrace ==
    ASSUME TypeOK, KeptInv, NoDirectoryIsLink, NEW v \in Process, Probing(v), CanOpen(Probe(v))
    PROVE  TraceAt(v, AfterReturn(v))
<1> USE DEF WriteabilityLabels, GuardLabels, DirectoryLabels
<1>1. CASE Kind(v) = "output_file"
  <2>1. AfterReturn(v) = "validate_filename" /\ Probe(v) = path(v)
    BY <1>1 DEF AfterReturn, Kind, Probe
  <2>2. TraceAt(v, "validate_filename")
    BY <1>1, <2>1 DEF Probing, TraceAt, Expected, Base, HasMade, KindFits, FileSeen,
                      DirectorySeen, ProbeSeen, InputSeen, Answers
  <2> QED
    BY <2>1, <2>2
<1>2. CASE Kind(v) = "output_directory" /\ dir_exists[v]
  <2>1. AfterReturn(v) = "passed"
    BY <1>2 DEF AfterReturn, Kind
  <2>2. Accepts(request[v])
    BY <1>2, AcceptsDirectory DEF Probing
  <2>3. TraceAt(v, "passed")
    BY <1>2, <2>2 DEF Probing, TraceAt, Expected, Base, HasMade, KindFits, FileSeen,
                      DirectorySeen, ProbeSeen, InputSeen, Answers
  <2> QED
    BY <2>1, <2>3
<1>3. CASE Kind(v) = "output_directory" /\ ~dir_exists[v]
  <2>1. AfterReturn(v) = "remove_all"
    BY <1>3 DEF AfterReturn, Kind
  <2>2. Probe(v) \notin permissions.unwritable
    BY <1>3, ProbeIsNone
  <2>3. TraceAt(v, "remove_all")
    BY <1>3, <2>2 DEF Probing, TraceAt, Expected, Base, HasMade, KindFits, FileSeen,
                      DirectorySeen, ProbeSeen, InputSeen, Answers
  <2> QED
    BY <2>1, <2>3
<1> QED
  BY <1>1, <1>2, <1>3 DEF Probing

LEMMA ThrowKeepsTrace ==
    ASSUME TypeOK, KeptInv, NoDirectoryIsLink, NEW v \in Process, Probing(v), ~CanOpen(Probe(v))
    PROVE  TraceAt(v, AfterThrow(v))
<1> USE DEF WriteabilityLabels, GuardLabels, DirectoryLabels
<1>1. CASE Kind(v) = "output_file" \/ dir_exists[v]
  <2>1. AfterThrow(v) = "threw"
    BY <1>1 DEF AfterThrow, Kind
  <2>2. Kind(v) = "output_file" => ~Accepts(request[v])
    BY AcceptsFile DEF Probe, Kind, path
  <2>3. Kind(v) = "output_directory" => ~Accepts(request[v])
    <3> SUFFICES ASSUME Kind(v) = "output_directory" PROVE ~Accepts(request[v])
      OBVIOUS
    <3>1. IsDirectory(path(v))
      BY <1>1 DEF Probing
    <3>2. fs[path(v)] # "none"
      BY <3>1 DEF IsDirectory, Resolve
    <3> QED
      BY <3>2, AcceptsDirectory
  <2>4. TraceAt(v, "threw")
    BY <1>1, <2>2, <2>3 DEF Probing, TraceAt, Expected, Base, HasMade, KindFits, FileSeen,
                            DirectorySeen, ProbeSeen, InputSeen, Answers
  <2> QED
    BY <2>1, <2>4
<1>2. CASE Kind(v) = "output_directory" /\ ~dir_exists[v]
  <2>1. AfterThrow(v) = "unwind_dir"
    BY <1>2 DEF AfterThrow, Kind
  <2>2. Probe(v) \in permissions.unwritable
    BY <1>2, ProbeIsNone
  <2>3. TraceAt(v, "unwind_dir")
    BY <1>2, <2>2 DEF Probing, TraceAt, Expected, Base, HasMade, KindFits, FileSeen,
                      DirectorySeen, ProbeSeen, InputSeen, Answers
  <2> QED
    BY <2>1, <2>3
<1> QED
  BY <1>1, <1>2 DEF Probing

\* Where the file of validate_writeability comes and goes, nothing else changes.
LEMMA OnlyProbeChanges ==
    ASSUME TypeOK, NEW p \in Path, NEW entry, fs' = Put(p, entry), UNCHANGED permissions,
           fs[p] # "link", entry # "link"
    PROVE  /\ Resolve(p) = p /\ Resolve(p)' = p
           /\ CanCreate(p)' <=> CanCreate(p)
           /\ \A q \in Path \ {p} : p \notin Below[q] => fs'[q] = fs[q]
           /\ \A q \in Path \ {p} : q \notin Below[p] => (CanCreate(q)' <=> CanCreate(q))
<1>1. fs'[p] = entry /\ \A q \in Path \ {p} : fs'[q] = fs[q]
  BY DEF TypeOK, Put
<1>2. \A q \in Path \ {p} : q \notin Below[p] => \A d \in Path : q \in Below[d] => fs'[d] = fs[d]
  BY <1>1
<1>3. \A d \in Path : p \in Below[d] => fs'[d] = fs[d]
  BY <1>1, PathAssumption
<1> QED
  BY <1>1, <1>2, <1>3 DEF Resolve, CanCreate

LEMMA ContingencyKeepsTrace ==
    ASSUME TypeOK, KeptInv, NoDirectoryIsLink, NEW v \in Process, TraceAt(v, pc[v]),
           ~Dangling(before, Probe(v)), Contingency(v) \/ ProbeExists(v) \/ Append(v)
    PROVE  TraceAt(v, pc[v])'
<1>1. pc[v] \in {"contingency", "exists", "append"}
  BY DEF Contingency, ProbeExists, Append, Look, At
<1>2. Probing(v) /\ ProbeSeen(v, pc[v])
  BY <1>1, TraceOfProbing DEF WriteabilityLabels
<1>3. CanOpen(Probe(v)) => TraceAt(v, AfterReturn(v))
  BY <1>2, ReturnKeepsTrace
<1>4. ~CanOpen(Probe(v)) => TraceAt(v, AfterThrow(v))
  BY <1>2, ThrowKeepsTrace
<1>5. CASE Contingency(v)
  <2>1. IsDirectory(Probe(v)) => ~CanOpen(Probe(v))
    BY DEF IsDirectory, CanOpen, Files
  <2>2. ~IsDirectory(Probe(v)) => ProbeSeen(v, "exists")
    BY DEF ProbeSeen, GuardLabels
  <2>3. ~IsDirectory(Probe(v)) => TraceAt(v, "exists")
    BY <1>2, <2>2, TraceOfProbing DEF WriteabilityLabels
  <2> QED
    BY <1>4, <1>5, <2>1, <2>3, LookKeepsTrace DEF Contingency
<1>6. CASE ProbeExists(v)
  <2>1. pc[v] = "exists" /\ ~IsDirectory(Probe(v))
    BY <1>2, <1>6 DEF ProbeExists, Look, At, ProbeSeen
  <2>2. Exists(Probe(v)) => TraceAt(v, "append")
    BY <1>2, <2>1, TraceOfProbing DEF WriteabilityLabels, ProbeSeen, GuardLabels
  <2>3. ~Exists(Probe(v)) => before[Probe(v)] = "none"
    <3>1. CASE Kind(v) = "output_directory" /\ ~dir_exists[v]
      BY <1>2, <3>1, ProbeIsNone
    <3>2. CASE ~(Kind(v) = "output_directory" /\ ~dir_exists[v])
      <4>1. fs = before
        BY <1>2, <3>2 DEF Probing, Base, HasMade
      <4> QED
        BY <4>1 DEF Exists, Resolve, Dangling
    <3> QED
      BY <3>1, <3>2
  <2>4. ~Exists(Probe(v)) => TraceAt(v, "create")
    BY <1>2, <2>3, TraceOfProbing DEF WriteabilityLabels, ProbeSeen, GuardLabels
  <2> QED
    BY <1>6, <2>2, <2>4, LookKeepsTrace DEF ProbeExists
<1>7. CASE Append(v)
  <2>1. pc[v] = "append" /\ Exists(Probe(v)) /\ Changes(v)
    BY <1>2, <1>7 DEF Append, At, ProbeSeen
  <2>2. fs' = fs
    BY <1>7, <2>1 DEF Append
  <2>3. \/ CanOpen(Probe(v)) /\ GoTo(v, AfterReturn(v))
        \/ ~CanOpen(Probe(v)) /\ GoTo(v, AfterThrow(v))
    BY <1>7 DEF Append
  <2> QED
    BY <1>3, <1>4, <2>1, <2>2, <2>3, SameTrace
<1> QED
  BY <1>5, <1>6, <1>7

\* What a guard is set up for was not there, and is not yet.
LEMMA GuardedIsNone ==
    ASSUME TypeOK, KeptInv, NoDirectoryIsLink, NEW v \in Process, Probing(v),
           before[Probe(v)] = "none"
    PROVE  fs[Probe(v)] = "none" /\ Resolve(Probe(v)) = Probe(v) /\ RemoveAll(Probe(v)) = fs
<1>1. fs[Probe(v)] = "none"
  <2>1. CASE Kind(v) = "output_directory" /\ ~dir_exists[v]
    BY <2>1, ProbeIsNone
  <2>2. CASE ~(Kind(v) = "output_directory" /\ ~dir_exists[v])
    BY <2>2 DEF Probing, Base, HasMade
  <2> QED
    BY <2>1, <2>2
<1>2. Probe(v) \in Path
  BY RequestType
<1>3. \A q \in Below[Probe(v)] : fs[q] = "none"
  BY <1>1, <1>2 DEF TypeOK, IsTree
<1> QED
  BY <1>1, <1>3 DEF TypeOK, RemoveAll, Resolve

LEMMA ReleaseKeepsTrace ==
    ASSUME TypeOK, KeptInv, NoDirectoryIsLink, NEW v \in Process, TraceAt(v, pc[v]), Release(v)
    PROVE  TraceAt(v, pc[v])'
<1>1. pc[v] \in {"release", "unwind"} /\ Changes(v)
  BY DEF Release, At
<1>2. Probing(v) /\ ProbeSeen(v, pc[v])
  BY <1>1, TraceOfProbing DEF WriteabilityLabels
<1>3. fs' = fs
  BY <1>1, <1>2, GuardedIsNone DEF Release, ProbeSeen, GuardLabels
<1>4. \/ CanOpen(Probe(v)) /\ GoTo(v, AfterReturn(v))
      \/ ~CanOpen(Probe(v)) /\ GoTo(v, AfterThrow(v))
  BY <1>2 DEF Release, At, ProbeSeen
<1> QED
  BY <1>1, <1>2, <1>3, <1>4, ReturnKeepsTrace, ThrowKeepsTrace, SameTrace

LEMMA CreateKeepsTrace ==
    ASSUME TypeOK, KeptInv, NoDirectoryIsLink, NEW v \in Process, TraceAt(v, pc[v]), Create(v)
    PROVE  TraceAt(v, pc[v])'
<1> SUFFICES ASSUME NEW p \in Path, p = Probe(v), NEW d \in Path, d = path(v)
             PROVE  TraceAt(v, pc[v])'
  BY RequestType
<1>1. pc[v] = "create" /\ Changes(v)
  BY DEF Create, At
<1>2. Probing(v) /\ before[p] = "none"
  BY <1>1, TraceOfProbing DEF WriteabilityLabels, ProbeSeen, GuardLabels
<1>3. fs[p] = "none" /\ Resolve(p) = p
  BY <1>2, GuardedIsNone
<1>4. CASE ~CanOpen(p)
  <2>1. TraceAt(v, "unwind")
    BY <1>2, <1>4, TraceOfProbing DEF WriteabilityLabels, ProbeSeen, GuardLabels
  <2>2. fs' = fs /\ GoTo(v, "unwind")
    BY <1>4 DEF Create
  <2> QED
    BY <1>1, <2>1, <2>2, SameTrace
<1>5. CASE CanOpen(p)
  <2>1. fs' = Put(p, "empty") /\ pc'[v] = "remove"
    BY <1>3, <1>5 DEF Create, GoTo, TypeOK
  <2>2. UNCHANGED <<permissions, request, dir_exists, before>>
    BY <1>1 DEF Changes, history
  <2>3. Kind(v)' = Kind(v) /\ path(v)' = d /\ Probe(v)' = p
    BY <2>2 DEF Kind, path, Probe
  <2>4. fs'[p] = "empty"
    BY <2>1 DEF TypeOK, Put
  <2>5. /\ Resolve(p)' = p /\ (CanCreate(p)' <=> CanCreate(p))
        /\ \A q \in Path \ {p} : p \notin Below[q] => fs'[q] = fs[q]
        /\ \A q \in Path \ {p} : q \notin Below[p] => (CanCreate(q)' <=> CanCreate(q))
    BY <1>3, <2>1, <2>2, OnlyProbeChanges
  <2>6. Expected(v, "remove")' = fs'
    BY <1>2, <2>1, <2>2, <2>3 DEF Probing, Expected, Base, HasMade, Put, WriteabilityLabels
  <2>7. FileSeen(v, "remove")'
    <3> SUFFICES ASSUME Kind(v) = "output_file" PROVE ~IsDirectory(path(v))'
      BY <2>3 DEF FileSeen, WriteabilityLabels
    <3>1. path(v) = p
      BY DEF Probe, Kind
    <3> QED
      BY <2>3, <2>4, <2>5, <3>1 DEF IsDirectory
  <2>8. DirectorySeen(v, "remove")'
    <3> SUFFICES ASSUME Kind(v) = "output_directory" PROVE DirectorySeen(v, "remove")'
      BY <2>3 DEF DirectorySeen
    <3>1. /\ p # path(v) /\ path(v) \notin Below[p] /\ Resolve(path(v)) = path(v)
      BY DirectoryPaths
    <3>2. fs'[d] = fs[d] /\ (CanCreate(d)' <=> CanCreate(d))
      BY <2>1, <2>5, <3>1 DEF Put, TypeOK
    <3>3. dir_exists[v] => fs'[d] = "dir"
      BY <1>2, <3>1, <3>2 DEF Probing, IsDirectory
    <3>4. dir_exists[v] => IsDirectory(path(v))'
      BY <2>3, <3>3 DEF IsDirectory, Resolve
    <3>5. ~dir_exists[v] => before[path(v)] = "none" /\ CanCreate(d)'
      BY <1>2, <3>2 DEF Probing
    <3>6. dir_exists'[v] = dir_exists[v] /\ before'[d] = before[d]
      BY <2>2
    <3> QED
      BY <2>3, <3>4, <3>5, <3>6 DEF DirectorySeen, DirectoryLabels
  <2>9. ProbeSeen(v, "remove")'
    BY <1>2, <1>3, <1>5, <2>2, <2>3, <2>4, <2>5 DEF ProbeSeen, GuardLabels, CanOpen, Files
  <2>10. KindFits(v, "remove")' /\ InputSeen(v, "remove")' /\ Answers(v, "remove")'
    BY <1>2, <2>3 DEF Probing, KindFits, InputSeen, Answers, DirectoryLabels
  <2> QED
    BY <2>1, <2>6, <2>7, <2>8, <2>9, <2>10 DEF TraceAt
<1> QED
  BY <1>4, <1>5

LEMMA RemoveKeepsTrace ==
    ASSUME TypeOK, KeptInv, NoDirectoryIsLink, NEW v \in Process, TraceAt(v, pc[v]), Remove(v)
    PROVE  TraceAt(v, pc[v])'
<1> DEFINE base == Base(v, "exists")
<1> SUFFICES ASSUME NEW p \in Path, p = Probe(v), NEW d \in Path, d = path(v)
             PROVE  TraceAt(v, pc[v])'
  BY RequestType
<1>1. pc[v] = "remove" /\ Changes(v)
  BY DEF Remove, At
<1>2. /\ fs = [base EXCEPT ![p] = "empty"] /\ before[p] = "none" /\ CanOpen(p)
      /\ Kind(v) \in {"output_file", "output_directory"}
      /\ Kind(v) = "output_directory" /\ ~dir_exists[v] => before[path(v)] = "none"
  BY <1>1 DEF TraceAt, Expected, Base, HasMade, WriteabilityLabels, ProbeSeen, GuardLabels,
              KindFits, DirectorySeen
<1>4. base \in [Path -> Entry] /\ base[p] = "none"
  <2>1. CASE Kind(v) = "output_directory" /\ ~dir_exists[v]
    <3>1. p # path(v)
      BY <2>1, DirectoryPaths
    <3> QED
      BY <1>2, <2>1, <3>1 DEF Base, HasMade, TypeOK, Entry
  <2>2. CASE ~(Kind(v) = "output_directory" /\ ~dir_exists[v])
    BY <1>2, <2>2 DEF Base, HasMade, TypeOK
  <2> QED
    BY <2>1, <2>2
<1>5. fs[p] = "empty"
  BY <1>2, <1>4
<1>6. IsEmpty(p)
  BY <1>5, PathAssumption DEF IsEmpty, TypeOK, IsTree
<1>7. fs' = Put(p, "none") /\ pc'[v] = "release"
  BY <1>6 DEF Remove, RemoveEntry, Put, GoTo, TypeOK, At
<1>8. UNCHANGED <<permissions, request, dir_exists, before>>
  BY <1>1 DEF Changes, history
<1>9. Kind(v)' = Kind(v) /\ path(v)' = d /\ Probe(v)' = p
  BY <1>8 DEF Kind, path, Probe
<1>10. /\ Resolve(p) = p /\ Resolve(p)' = p /\ (CanCreate(p)' <=> CanCreate(p))
       /\ \A q \in Path \ {p} : q \notin Below[p] => (CanCreate(q)' <=> CanCreate(q))
  BY <1>5, <1>7, <1>8, OnlyProbeChanges
<1>11. fs' = base
  BY <1>2, <1>4, <1>7 DEF Put
<1>12. base' = base
  BY <1>8, <1>9 DEF Base, HasMade
<1>13. fs'[p] = "none"
  BY <1>4, <1>11
<1>14. Kind(v) = "output_file" => ~IsDirectory(path(v))' /\ ~Exists(path(v))'
  BY <1>9, <1>10, <1>13 DEF IsDirectory, Exists, Probe, Kind
<1>15. ASSUME Kind(v) = "output_directory"
       PROVE  /\ dir_exists[v] => IsDirectory(path(v))'
              /\ ~dir_exists[v] => before[path(v)] = "none" /\ CanCreate(path(v))'
  <2>1. p # path(v) /\ path(v) \notin Below[p] /\ Resolve(path(v)) = path(v)
    BY <1>15, DirectoryPaths
  <2>2. fs'[d] = fs[d] /\ (CanCreate(d)' <=> CanCreate(d))
    BY <1>7, <1>10, <2>1 DEF Put, TypeOK
  <2>3. DirectorySeen(v, "remove")
    BY <1>1 DEF TraceAt
  <2>4. /\ dir_exists[v] => fs[path(v)] = "dir"
        /\ ~dir_exists[v] => before[path(v)] = "none" /\ CanCreate(path(v))
    BY <1>15, <2>1, <2>3 DEF DirectorySeen, IsDirectory, WriteabilityLabels
  <2> QED
    BY <1>9, <2>2, <2>4 DEF IsDirectory, Resolve
<1>16. Probing(v)'
  BY <1>2, <1>8, <1>9, <1>11, <1>12, <1>14, <1>15 DEF Probing
<1>17. ProbeSeen(v, "release")'
  BY <1>2, <1>8, <1>9, <1>10, <1>13 DEF ProbeSeen, GuardLabels, CanOpen, Files
<1>18. (TraceAt(v, "release") <=> Probing(v) /\ ProbeSeen(v, "release"))'
  BY TraceOfProbingNext DEF WriteabilityLabels
<1> QED
  BY <1>7, <1>16, <1>17, <1>18

LEMMA DirExistsKeepsTrace ==
    ASSUME TypeOK, NEW v \in Process, TraceAt(v, pc[v]), DirExists(v)
    PROVE  TraceAt(v, pc[v])'
<1> USE DEF WriteabilityLabels, GuardLabels, DirectoryLabels
<1>1. pc[v] = "dir_exists" /\ Kind(v) = "output_directory" /\ fs = before
  BY DEF DirExists, At, TraceAt, KindFits, Expected, Base, HasMade
<1>2. /\ pc'[v] = "create_directory" /\ dir_exists'[v] = Exists(path(v))
      /\ UNCHANGED <<fs, permissions, request, before>>
  BY DEF DirExists, GoTo, TypeOK, history
<1>3. Kind(v)' = Kind(v) /\ (Exists(path(v))' <=> Exists(path(v)))
  BY <1>2 DEF Kind, path, Exists, Resolve
<1>4. Expected(v, "create_directory")' = fs'
  BY <1>1, <1>2 DEF Expected, Base, HasMade
<1>5. DirectorySeen(v, "create_directory")'
  BY <1>2, <1>3 DEF DirectorySeen
<1>6. /\ KindFits(v, "create_directory")' /\ FileSeen(v, "create_directory")'
      /\ ProbeSeen(v, "create_directory")' /\ InputSeen(v, "create_directory")'
      /\ Answers(v, "create_directory")'
  BY <1>1, <1>3 DEF KindFits, FileSeen, ProbeSeen, InputSeen, Answers
<1> QED
  BY <1>2, <1>4, <1>5, <1>6 DEF TraceAt

LEMMA CreateDirectoryKeepsTrace ==
    ASSUME TypeOK, KeptInv, NoDirectoryIsLink, NEW v \in Process, TraceAt(v, pc[v]),
           CreateDirectory(v)
    PROVE  TraceAt(v, pc[v])'
<1> USE DEF WriteabilityLabels, GuardLabels, DirectoryLabels
<1> SUFFICES ASSUME NEW d \in Path, d = path(v) PROVE TraceAt(v, pc[v])'
  BY RequestType
<1>1. /\ pc[v] = "create_directory" /\ Kind(v) = "output_directory" /\ fs = before
      /\ dir_exists[v] <=> Exists(d)
      /\ Changes(v)
  BY DEF CreateDirectory, At, TraceAt, KindFits, DirectorySeen, Expected, Base, HasMade
<1>2. Resolve(d) = d
  BY <1>1, DirectoryPaths
<1>3. CASE IsDirectory(d)
  <2>1. dir_exists[v]
    BY <1>1, <1>3 DEF IsDirectory, Exists
  <2>2. Probing(v)
    BY <1>1, <1>3, <2>1 DEF Probing, Base, HasMade
  <2>3. TraceAt(v, "contingency")
    BY <2>2, TraceOfProbing DEF ProbeSeen
  <2>4. fs' = fs /\ GoTo(v, "contingency")
    BY <1>2, <1>3 DEF CreateDirectory, IsDirectory
  <2> QED
    BY <1>1, <2>3, <2>4, SameTrace
<1>4. CASE fs[d] = "none" /\ CanCreate(d)
  <2>1. ~dir_exists[v] /\ ~IsDirectory(d)
    BY <1>1, <1>2, <1>4 DEF IsDirectory, Exists
  <2>2. fs' = Put(d, "dir") /\ pc'[v] = "contingency"
    BY <1>4, <2>1 DEF CreateDirectory, GoTo, TypeOK
  <2>3. UNCHANGED <<permissions, request, dir_exists, before>>
    BY <1>1 DEF Changes, history
  <2>4. Kind(v)' = Kind(v) /\ path(v)' = d
    BY <2>3 DEF Kind, path
  <2>5. CanCreate(d)'
    BY <1>4, <2>2, <2>3, OnlyProbeChanges
  <2>6. fs' = Base(v, "exists")'
    BY <1>1, <2>1, <2>2, <2>3, <2>4 DEF Base, HasMade, Put
  <2>7. before'[d] = "none" /\ ~dir_exists'[v]
    BY <1>1, <1>4, <2>1, <2>3
  <2>8. Probing(v)'
    BY <1>1, <2>4, <2>5, <2>6, <2>7 DEF Probing
  <2>9. ProbeSeen(v, "contingency")'
    BY DEF ProbeSeen
  <2> QED
    BY <2>2, <2>8, <2>9, TraceOfProbingNext
<1>5. CASE ~IsDirectory(d) /\ ~(fs[d] = "none" /\ CanCreate(d))
  <2>1. ~Accepts(request[v])
    BY <1>1, <1>5, AcceptsDirectory
  <2>2. TraceAt(v, "threw")
    BY <1>1, <2>1 DEF TraceAt, Expected, Base, HasMade, KindFits, FileSeen, DirectorySeen,
                      ProbeSeen, InputSeen, Answers
  <2>3. fs' = fs /\ GoTo(v, "threw")
    BY <1>5 DEF CreateDirectory
  <2> QED
    BY <1>1, <2>2, <2>3, SameTrace
<1> QED
  BY <1>3, <1>4, <1>5

LEMMA ReleaseDirectoryKeepsTrace ==
    ASSUME TypeOK, KeptInv, NoDirectoryIsLink, NEW v \in Process, TraceAt(v, pc[v]),
           ReleaseDirectory(v)
    PROVE  TraceAt(v, pc[v])'
<1> USE DEF WriteabilityLabels, GuardLabels, DirectoryLabels
<1> SUFFICES ASSUME NEW d \in Path, d = path(v), NEW p \in Path, p = Probe(v)
             PROVE TraceAt(v, pc[v])'
  BY RequestType
<1>1. /\ pc[v] \in DirectoryLabels /\ Changes(v) /\ fs' = RemoveAll(d)
      /\ Kind(v) = "output_directory" /\ ~dir_exists[v]
  BY DEF ReleaseDirectory, At, TraceAt, KindFits
<1>2. /\ fs = before \/ fs = [before EXCEPT ![d] = "dir"]
      /\ before[d] = "none" /\ CanCreate(d)
      /\ pc[v] \in {"remove_all", "release_dir"} => p \notin permissions.unwritable
      /\ pc[v] = "unwind_dir" => p \in permissions.unwritable
  BY <1>1 DEF TraceAt, Expected, Base, HasMade, DirectorySeen
<1>3. UNCHANGED <<permissions, request, dir_exists, before>>
  BY <1>1 DEF Changes, history
<1>4. Kind(v)' = Kind(v) /\ path(v)' = d /\ Probe(v)' = p
  BY <1>3 DEF Kind, path, Probe
<1>5. fs' = before
  <2>1. \A q \in Below[d] : before[q] = "none"
    BY <1>2 DEF TypeOK, IsTree
  <2>2. \A q \in Path : RemoveAll(d)[q] = before[q]
    BY <1>2, <2>1 DEF RemoveAll, TypeOK
  <2>3. RemoveAll(d) = [q \in Path |-> RemoveAll(d)[q]]
    BY DEF RemoveAll
  <2>4. before = [q \in Path |-> before[q]]
    BY DEF TypeOK
  <2> QED
    BY <1>1, <2>2, <2>3, <2>4
<1>6. CanCreate(d)'
  <2>1. \A q \in Path : d \in Below[q] => fs'[q] = "dir"
    BY <1>2, <1>5, PathAssumption DEF CanCreate, TypeOK
  <2> QED
    BY <1>2, <1>3, <2>1 DEF CanCreate
<1>7. ~IsDirectory(d)' /\ fs'[d] = "none"
  BY <1>2, <1>5 DEF IsDirectory, Resolve
<1>8. Accepts(request[v])' <=> p \notin permissions.unwritable
  <2>1. request'[v] = request[v] /\ request[v].path = d /\ Dummy[d] = p
    BY <1>1, <1>3 DEF path, Probe, Kind
  <2>2. request[v].kind = "output_directory"
    BY <1>1 DEF Kind
  <2>3. Accepts(request[v])' <=>
           \/ IsDirectory(d)' /\ CanOpen(p)'
           \/ fs'[d] = "none" /\ CanCreate(d)' /\ p \notin permissions'.unwritable
    BY <2>1, <2>2 DEF Accepts
  <2> QED
    BY <1>3, <1>6, <1>7, <2>3
<1>9. ASSUME NEW label \in {"release_dir", "passed", "threw"},
             label = "threw" <=> p \in permissions.unwritable
      PROVE  TraceAt(v, label)'
  <2>1. Expected(v, label)' = fs'
    BY <1>3, <1>5, <1>9 DEF Expected, Base, HasMade
  <2>2. DirectorySeen(v, label)'
    BY <1>1, <1>2, <1>3, <1>4, <1>6, <1>9 DEF DirectorySeen
  <2>3. Answers(v, label)'
    BY <1>8, <1>9 DEF Answers
  <2>4. KindFits(v, label)' /\ FileSeen(v, label)' /\ ProbeSeen(v, label)' /\ InputSeen(v, label)'
    BY <1>1, <1>3, <1>4, <1>9 DEF KindFits, FileSeen, ProbeSeen, InputSeen
  <2> QED
    BY <2>1, <2>2, <2>3, <2>4 DEF TraceAt
<1>10. \/ pc'[v] \in {"release_dir", "passed"} /\ p \notin permissions.unwritable
       \/ pc'[v] = "threw" /\ p \in permissions.unwritable
  BY <1>2 DEF ReleaseDirectory, At, GoTo, TypeOK
<1> QED
  BY <1>9, <1>10

LEMMA ValidateKeepsTrace ==
    ASSUME TypeOK, KeptInv, NoDirectoryIsLink, NEW v \in Process, TraceAt(v, pc[v]),
           ~Dangling(before, Probe(v)), Validate(v)
    PROVE  TraceAt(v, pc[v])'
<1>1. CASE WriteabilityStep(v)
  BY <1>1, ContingencyKeepsTrace, CreateKeepsTrace, RemoveKeepsTrace, ReleaseKeepsTrace
     DEF WriteabilityStep
<1>2. CASE OutputDirectoryStep(v)
  BY <1>2, DirExistsKeepsTrace, CreateDirectoryKeepsTrace, ReleaseDirectoryKeepsTrace
     DEF OutputDirectoryStep
<1> QED
  BY <1>1, <1>2, OutputFileKeepsTrace, InputKeepsTrace DEF Validate

LEMMA StartBeginsTrace ==
    ASSUME TypeOK, TypeOK', NEW v \in Process, Start(v), ~\E w \in Process : Runs(w)
    PROVE  TraceAt(v, pc[v])'
<1> USE DEF WriteabilityLabels, GuardLabels, DirectoryLabels
<1>1. PICK r \in Requests : request' = [request EXCEPT ![v] = r] /\ GoTo(v, FirstCall(r.kind))
  BY DEF Start
<1>2. Kind(v)' = r.kind /\ pc'[v] = FirstCall(r.kind) /\ fs' = before'
  BY <1>1 DEF Start, Kind, TypeOK, GoTo
<1>3. r.kind \in {"output_file", "output_directory", "input_file", "input_directory"}
  BY RequestAssumption DEF Request
<1>4. \/ pc'[v] = "is_directory" /\ Kind(v)' = "output_file"
      \/ pc'[v] = "dir_exists" /\ Kind(v)' = "output_directory"
      \/ pc'[v] = "input_exists" /\ Kind(v)' \in {"input_file", "input_directory"}
  BY <1>2, <1>3 DEF FirstCall
<1>5. Expected(v, pc[v])' = fs'
  BY <1>2, <1>4 DEF Expected, Base, HasMade
<1>6. KindFits(v, pc[v])' /\ InputSeen(v, pc[v])' /\ Answers(v, pc[v])' /\ ProbeSeen(v, pc[v])'
  BY <1>4 DEF KindFits, InputSeen, Answers, ProbeSeen
<1>7. FileSeen(v, pc[v])' /\ DirectorySeen(v, pc[v])'
  BY <1>4 DEF FileSeen, DirectorySeen
<1> QED
  BY <1>5, <1>6, <1>7 DEF TraceAt

\* No step makes a link.
LEMMA NoDirectoryBecomesLink ==
    ASSUME TypeOK, KeptInv, NoDirectoryIsLink, Next
    PROVE  NoDirectoryIsLink'
<1>1. \A p \in Path : before'[p] = "link" => before[p] = "link"
  <2>1. PICK v \in Process : Start(v) \/ Validate(v) \/ WriteFile(v) \/ WriteInDirectory(v) \/ Kill(v)
    BY DEF Next
  <2>2. CASE Start(v)
    BY <2>2 DEF Start, KeptInv
  <2>3. CASE Validate(v) \/ Kill(v)
    <3>1. before' = before
      BY <2>3 DEF Kill, Validate, OutputFileStep, IsNoDirectory, CreateNew, ValidateFilename,
         WriteabilityStep, Contingency, ProbeExists, Append, Create, Remove, Release,
         OutputDirectoryStep, DirExists, CreateDirectory, ReleaseDirectory, InputStep,
         InputExists, InputIsDirectory, Readable, List, IsRegular, OpenInput, Look, Changes, history
    <3> QED
      BY <3>1
  <2>4. CASE WriteFile(v) \/ WriteInDirectory(v)
    <3>1. PICK p : Writes(v, p)
      BY <2>4 DEF WriteFile, WriteInDirectory
    <3> QED
      BY <3>1 DEF Writes, TypeOK
  <2> QED
    BY <2>1, <2>2, <2>3, <2>4
<1>2. \A r \in Requests : r.path \in Path
  BY RequestAssumption DEF Request
<1> QED
  BY <1>1, <1>2 DEF NoDirectoryIsLink

LEMMA ValidateChanges ==
    ASSUME NEW v \in Process, Validate(v)
    PROVE  Runs(v) /\ before' = before /\ alone' = alone /\ request' = request
           /\ \E label : GoTo(v, label)
<1> USE DEF Look, Changes, history, At, Runs, Ended
<1>1. CASE OutputFileStep(v)
  BY <1>1 DEF OutputFileStep, IsNoDirectory, CreateNew, ValidateFilename
<1>2. CASE WriteabilityStep(v)
  BY <1>2 DEF WriteabilityStep, Contingency, ProbeExists, Append, Create, Remove, Release
<1>3. CASE OutputDirectoryStep(v)
  BY <1>3 DEF OutputDirectoryStep, DirExists, CreateDirectory, ReleaseDirectory
<1>4. CASE InputStep(v)
  BY <1>4 DEF InputStep, InputExists, InputIsDirectory, Readable, List, IsRegular, OpenInput
<1> QED
  BY <1>1, <1>2, <1>3, <1>4 DEF Validate

LEMMA NextKeepsTrace == TypeOK /\ KeptInv /\ TraceInv /\ [Next]_vars => TraceInv'
<1> SUFFICES ASSUME TypeOK, KeptInv, TraceInv, [Next]_vars PROVE TraceInv'
  OBVIOUS
<1> USE DEF TraceInv
<1>1. TypeOK'
  BY NextKeepsType
<1>2. CASE UNCHANGED vars
  <2>1. UNCHANGED <<fs, permissions, pc, request, dir_exists, before, alone>>
    BY <1>2 DEF vars, history
  <2>2. \A v \in Process : TraceAt(v, pc[v])' <=> TraceAt(v, pc[v])
    BY <2>1 DEF TraceAt, Expected, Base, HasMade, KindFits, FileSeen, DirectorySeen, ProbeSeen,
         InputSeen, Answers, Kind, path, Probe, Accepts, IsDirectory, Exists, CanOpen, CanRead,
         CanCreate, Resolve
  <2> QED
    BY <2>1, <2>2 DEF TypeOK, NoDirectoryIsLink, Runs, Dangling, Probe, path
<1>3. ASSUME Next PROVE NoDirectoryIsLink'
  BY <1>3, NoDirectoryBecomesLink
<1>4. ASSUME NEW v \in Process, Start(v) PROVE TraceInv'
  <2>1. CASE \E w \in Process : Runs(w)
    BY <1>3, <1>4, <2>1 DEF Start, Next
  <2>2. CASE ~\E w \in Process : Runs(w)
    <3>1. alone' = {v}
      BY <1>4, <2>2 DEF Start
    <3>2. \A w \in Process : w # v => pc'[w] = pc[w]
      BY <1>4 DEF Start, GoTo, TypeOK
    <3>3. TraceAt(v, pc[v])'
      BY <1>1, <1>4, <2>2, StartBeginsTrace
    <3> QED
      BY <1>3, <1>4, <2>2, <3>1, <3>2, <3>3 DEF Next, Runs
  <2> QED
    BY <2>1, <2>2
<1>5. ASSUME NEW v \in Process, Validate(v) PROVE TraceInv'
  <2>1. Runs(v) /\ before' = before /\ alone' = alone /\ request' = request
    BY <1>5, ValidateChanges
  <2>2. \A w \in Process : w # v => pc'[w] = pc[w]
    BY <1>5, ValidateChanges DEF GoTo, TypeOK
  <2>3. \A w \in alone : w = v
    BY <2>1
  <2>4. v \in alone /\ ~Dangling(before, Probe(v))' => TraceAt(v, pc[v])'
    BY <1>5, <2>1, ValidateKeepsTrace DEF Dangling, Probe, path
  <2>5. \A w \in alone' : \A u \in Process : u # w => ~Runs(u)' /\ u \notin alone'
    BY <2>1, <2>2, <2>3 DEF Runs
  <2> QED
    BY <1>3, <1>5, <2>1, <2>3, <2>4, <2>5 DEF Next
<1>6. ASSUME NEW v \in Process, WriteFile(v) \/ WriteInDirectory(v) \/ Kill(v) PROVE TraceInv'
  <2>1. alone' = {}
    BY <1>6 DEF WriteFile, WriteInDirectory, Writes, Kill
  <2> QED
    BY <1>3, <1>6, <2>1 DEF Next
<1> QED
  BY <1>2, <1>4, <1>5, <1>6 DEF Next

\* A validator that nothing happened beside has left the file system as it
\* found it, whichever way it ended, and has answered what one look would have.
THEOREM LeavesNoTraceHolds == Spec => []LeavesNoTrace
<1>1. Init => KeptInv /\ TraceInv
  <2> SUFFICES ASSUME Init PROVE KeptInv /\ TraceInv
    OBVIOUS
  <2>1. KeptInv
    BY InitKept
  <2>2. TraceInv
    BY RequestAssumption DEF Init, TraceInv, NoDirectoryIsLink
  <2> QED
    BY <2>1, <2>2
<1>2. TypeOK /\ TraceInv => LeavesNoTrace
  <2> SUFFICES ASSUME TypeOK, TraceInv, NEW v \in alone, pc[v] \in {"passed", "threw"},
                      ~Dangling(before, Probe(v))
               PROVE  fs = before /\ (At(v, "passed") <=> Accepts(request[v]))
    BY DEF LeavesNoTrace
  <2>1. TraceAt(v, pc[v])
    BY DEF TraceInv
  <2>2. fs = before
    BY <2>1 DEF TraceAt, Expected, Base, HasMade, WriteabilityLabels
  <2>3. Answers(v, pc[v])
    BY <2>1 DEF TraceAt
  <2> QED
    BY <2>2, <2>3 DEF Answers, At
<1> QED
  BY <1>1, <1>2, NextKeepsInv, NextKeepsTrace, TypeCorrect, PTL DEF Spec
=============================================================================
