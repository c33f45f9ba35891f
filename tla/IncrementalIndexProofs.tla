------------------------ MODULE IncrementalIndexProofs ------------------------
(* Safety of IncrementalIndex for any files, providers, runs and bounds.      *)
EXTENDS IncrementalIndexInvariant, FiniteSetTheorems, TLAPS

----------------------------------------------------------------------------
(* Types.                                                                     *)

\* The types hold initially.
LEMMA InitType == Init => TypeInv
<1> SUFFICES ASSUME Init PROVE TypeInv
  OBVIOUS
<1> USE VersionAssumption, BoundAssumption
        DEF VersionAssumption, BoundAssumption, Init
<1>1. /\ tree \in Trees /\ latest \in Trees
      /\ \A f \in Files : tree[f] <= latest[f]
  <2>1. {Absent, 1} \subseteq Versions \cup {Absent}
    BY DEF Versions
  <2>2. tree \in Trees
    BY <2>1 DEF Trees
  <2>3. \A f \in Files : tree[f] \in Nat
    BY DEF Absent
  <2> QED BY <2>2, <2>3
<1>2. \A r \in Runs : pc[r] = "idle"
  OBVIOUS
<1>3. \A p \in Providers : status[p] \in Identities
  BY DEF Plain, Identities, States
<1>4. plan \in [Runs -> [full : BOOLEAN, drop : SUBSET Files, take : SUBSET Files]]
  BY DEF NoPlan
<1>5. TypeOK
  BY <1>1, <1>2, <1>3, <1>4 DEF TypeOK
<1>6. \A r \in Runs : plan[r].take = {} /\ made[r] = {}
  BY DEF NoPlan
<1> QED BY <1>2, <1>5, <1>6, FS_EmptySet DEF TypeInv, Scanned

\* What a run that is over leaves.
LEMMA LeaveType ==
  ASSUME TypeInv, NEW r \in Runs, Leave(r), UNCHANGED <<checkout, stored>>,
         status' \in [Providers -> Identities], faults' \in 0 .. MaxFaults
  PROVE  TypeInv'
<1>1. /\ pc' = [pc EXCEPT ![r] = "idle"]
      /\ task' = [task EXCEPT ![r] = None]
      /\ scan' = [scan EXCEPT ![r] = None]
      /\ plan' = [plan EXCEPT ![r] = NoPlan]
      /\ made' = [made EXCEPT ![r] = {}]
  BY DEF Leave, Goto
<1>2. NoPlan \in [full : BOOLEAN, drop : SUBSET Files, take : SUBSET Files]
      /\ NoPlan.take = {}
  BY DEF NoPlan
<1>3. TypeOK'
  BY <1>1, <1>2 DEF TypeInv, TypeOK, checkout, stored
<1>4. \A q \in Runs : q # r => /\ pc'[q] = pc[q] /\ scan'[q] = scan[q]
                              /\ plan'[q] = plan[q] /\ made'[q] = made[q]
  BY <1>1 DEF TypeInv, TypeOK
<1>5. pc'[r] = "idle" /\ plan'[r] = NoPlan /\ made'[r] = {}
  BY <1>1 DEF TypeInv, TypeOK
<1> QED BY <1>2, <1>3, <1>4, <1>5, FS_EmptySet DEF TypeInv, Scanned

\* What a run sets the identity to is one.
LEMMA StatusType ==
  ASSUME TypeInv
  PROVE  /\ \A s \in States : Plain(s) \in Identities
         /\ \A t \in Trees : Ready(t) \in Identities
         /\ \A p \in Providers, s \in Identities :
              SetStatus(p, s) => status' \in [Providers -> Identities]
BY DEF TypeInv, TypeOK, Plain, Ready, Identities, SetStatus

\* The versions of a file.
LEMMA TreeValues ==
  /\ \A t \in Trees : \A f \in Files : t[f] \in Nat /\ t[f] <= MaxVersion
  /\ \A t \in Trees, f \in Files : t[f] # Absent => t[f] \in Versions
  /\ \A t \in Trees, f \in Files, v \in Versions \cup {Absent} :
       [t EXCEPT ![f] = v] \in Trees
BY VersionAssumption DEF VersionAssumption, Trees, Versions, Absent

\* File f becomes version v: a new one, or one it has had.
Becomes(f, v) ==
  /\ tree' = [tree EXCEPT ![f] = v]
  /\ \/ latest' = latest /\ v <= latest[f]
     \/ v = latest[f] + 1 /\ latest' = [latest EXCEPT ![f] = v]

\* What a change of the checkout does.
LEMMA ChangeEffect ==
  ASSUME TypeInv, Change
  PROVE  /\ UNCHANGED <<stored, status, pc, locals, faults>>
         /\ \E f \in Files, v \in Versions \cup {Absent} : Becomes(f, v)
<1> USE TreeValues, VersionAssumption DEF VersionAssumption, TypeInv, TypeOK, Becomes
<1>1. ASSUME NEW f \in Files, Edit(f) 
      PROVE  /\ UNCHANGED <<stored, status, pc, locals, faults>>
             /\ \E v \in Versions \cup {Absent} : Becomes(f, v)
  <2>1. latest[f] + 1 \in Versions
    BY <1>1 DEF Edit, Versions
  <2> QED BY <1>1, <2>1 DEF Edit
<1>2. ASSUME NEW f \in Files, Delete(f) 
      PROVE  /\ UNCHANGED <<stored, status, pc, locals, faults>>
             /\ \E v \in Versions \cup {Absent} : Becomes(f, v)
  <2>1. Absent <= latest[f]
    BY DEF Absent
  <2> QED BY <1>2, <2>1 DEF Delete
<1>3. ASSUME NEW f \in Files, NEW v \in Versions, Restore(f, v)
      PROVE  /\ UNCHANGED <<stored, status, pc, locals, faults>>
             /\ \E w \in Versions \cup {Absent} : Becomes(f, w)
  BY <1>3 DEF Restore
<1> QED BY <1>1, <1>2, <1>3 DEF Change

\* A change of the checkout keeps the types.
LEMMA ChangeType ==
  ASSUME TypeInv, Change
  PROVE  TypeInv'
<1>1. /\ tree' \in Trees /\ latest' \in Trees
      /\ \A f \in Files : tree'[f] <= latest'[f]
  <2>1. PICK f \in Files, v \in Versions \cup {Absent} : Becomes(f, v)
    BY ChangeEffect
  <2>2. tree' \in Trees /\ latest' \in Trees
    <3>1. tree' = [tree EXCEPT ![f] = v]
          /\ (latest' = latest \/ latest' = [latest EXCEPT ![f] = v])
      BY <2>1 DEF Becomes
    <3>2. tree \in Trees /\ latest \in Trees
      BY DEF TypeInv, TypeOK
    <3> QED BY <3>1, <3>2, TreeValues
  <2>3. tree'[f] = v /\ \A g \in Files : g # f => tree'[g] = tree[g]
    BY <2>1 DEF Becomes, TypeInv, TypeOK, Trees
  <2>4. v <= latest'[f] /\ \A g \in Files : g # f => latest'[g] = latest[g]
    BY <2>1, TreeValues DEF Becomes, TypeInv, TypeOK, Trees
  <2> QED BY <2>2, <2>3, <2>4 DEF TypeInv, TypeOK
<1> QED BY <1>1, ChangeEffect DEF TypeInv, TypeOK, stored, locals, Scanned

\* Run r starts on index p.
Starts(r, p) ==
  /\ UNCHANGED <<checkout, stored, scan, plan, made, faults>>
  /\ MayStart(r, p)
  /\ \E t \in Tasks, s \in Identities, l \in {"decide", "fresh"} :
       /\ task' = [task EXCEPT ![r] = t]
       /\ status' = [status EXCEPT ![p] = s]
       /\ pc' = [pc EXCEPT ![r] = l]
       /\ t.provider = p /\ t.start = tree /\ t.name \in Names \cup {DirName}
       /\ t.scope \in {p, Unscoped} /\ (t.auto \/ t.scope = p)
       /\ t.auto => p \in AutoProviders
       /\ l = "fresh" => t.before = status[p]
       /\ s.state # "ready"

\* That is what a start does.
LEMMA StartEffect ==
  ASSUME TypeInv, NEW r \in Runs, NEW p \in Providers,
         \/ \E name \in Names, forced \in BOOLEAN : StartJob(r, p, name, forced)
         \/ p \in AutoProviders /\ StartAuto(r, p)
  PROVE  Starts(r, p)
<1> USE DEF Starts
<1>1. Plain("none") \in Identities /\ Plain("indexing") \in Identities
      /\ Plain("pending") \in Identities
  BY DEF Plain, Identities, States
<1>2. status[p] \in Identities /\ tree \in Trees
  BY DEF TypeInv, TypeOK
<1>3. Plain("indexing").state # "ready" /\ Plain("pending").state # "ready"
  BY DEF Plain
<1>4. ASSUME NEW name \in Names, NEW forced \in BOOLEAN, StartJob(r, p, name, forced)
      PROVE  Starts(r, p)
  <2> DEFINE t == [provider |-> p, scope |-> p, name |-> name, auto |-> FALSE,
                 forced |-> forced, start |-> tree, before |-> Plain("none")]
  <2>1. /\ UNCHANGED <<checkout, stored, scan, plan, made, faults>>
        /\ MayStart(r, p)
        /\ task' = [task EXCEPT ![r] = t]
        /\ status' = [status EXCEPT ![p] = Plain("indexing")]
        /\ pc' = [pc EXCEPT ![r] = "decide"]
    BY <1>4 DEF StartJob, SetStatus, Goto
  <2>2. t \in Tasks
    BY <1>1, <1>2, ProviderAssumption DEF ProviderAssumption, Tasks
  <2>3. /\ t.provider = p /\ t.start = tree /\ t.name \in Names \cup {DirName}
        /\ t.scope \in {p, Unscoped} /\ (t.auto \/ t.scope = p)
        /\ t.auto => p \in AutoProviders
        /\ "decide" = "fresh" => t.before = status[p]
    BY <1>4
  <2> HIDE DEF t
  <2> QED BY <1>1, <1>3, <2>1, <2>2, <2>3
<1>5. CASE p \in AutoProviders /\ StartAuto(r, p)
  <2> DEFINE t == [provider |-> p, scope |-> Unscoped, name |-> DirName, auto |-> TRUE,
                 forced |-> FALSE, start |-> tree, before |-> status[p]]
  <2>1. /\ UNCHANGED <<checkout, stored, scan, plan, made, faults>>
        /\ MayStart(r, p)
        /\ task' = [task EXCEPT ![r] = t]
        /\ status' = [status EXCEPT ![p] = Plain("pending")]
        /\ pc' = [pc EXCEPT ![r] = "fresh"]
    BY <1>5 DEF StartAuto, SetStatus, Goto
  <2>2. t \in Tasks
    BY <1>1, <1>2, ProviderAssumption DEF ProviderAssumption, Tasks
  <2>3. /\ t.provider = p /\ t.start = tree /\ t.name \in Names \cup {DirName}
        /\ t.scope \in {p, Unscoped} /\ (t.auto \/ t.scope = p)
        /\ t.auto => p \in AutoProviders
        /\ "fresh" = "fresh" => t.before = status[p]
    BY <1>5
  <2> HIDE DEF t
  <2> QED BY <1>1, <1>3, <2>1, <2>2, <2>3
<1> QED BY <1>4, <1>5

\* So does the start of a run,
LEMMA StartType ==
  ASSUME TypeInv, NEW r \in Runs, NEW p \in Providers, Starts(r, p)
  PROVE  TypeInv'
<1>1. PICK t \in Tasks, s \in Identities, l \in {"decide", "fresh"} :
              /\ task' = [task EXCEPT ![r] = t]
              /\ status' = [status EXCEPT ![p] = s]
              /\ pc' = [pc EXCEPT ![r] = l]
  BY DEF Starts
<1>2. /\ pc'[r] = l /\ task'[r] = t
      /\ \A q \in Runs : q # r => pc'[q] = pc[q] /\ task'[q] = task[q]
  BY <1>1 DEF TypeInv, TypeOK
<1>3. UNCHANGED <<checkout, stored, scan, plan, made, faults>>
  BY DEF Starts
<1>4. TypeOK'
  BY <1>1, <1>2, <1>3 DEF TypeInv, TypeOK, checkout, stored
<1> QED BY <1>2, <1>3, <1>4 DEF TypeInv, Scanned

\* A run goes on without touching what is stored.
LEMMA WalkType ==
  ASSUME TypeInv, NEW r \in Runs,
         SeeChange(r) \/ SeeAge(r) \/ Decide(r) \/ Embed(r)
  PROVE  TypeInv'
<1>1. PICK l \in {"decide", "scan", "publish"}, full \in BOOLEAN :
        /\ pc' = [pc EXCEPT ![r] = l]
        /\ plan' = [plan EXCEPT ![r].full = full]
        /\ pc[r] # "idle" /\ (l = "publish" => Scanned(r))
        /\ UNCHANGED <<checkout, stored, status, task, scan, made, faults>>
  <2>1. plan = [plan EXCEPT ![r].full = plan[r].full] /\ plan[r].full \in BOOLEAN
    BY DEF TypeInv, TypeOK
  <2>2. CASE SeeChange(r) \/ SeeAge(r)
    BY <2>1, <2>2 DEF SeeChange, SeeAge, Goto, At, locals
  <2>3. CASE Decide(r)
    <3>1. MustRebuild(r) \in BOOLEAN
      BY DEF MustRebuild, Wasteful
    <3> QED BY <2>3, <3>1 DEF Decide, Goto, At
  <2>4. CASE Embed(r)
    BY <2>1, <2>4 DEF Embed, Goto, At, locals, Scanned
  <2> QED BY <2>2, <2>3, <2>4
<1>2. pc'[r] = l /\ \A q \in Runs : q # r => pc'[q] = pc[q]
  BY <1>1 DEF TypeInv, TypeOK
<1>3. /\ plan' \in [Runs -> [full : BOOLEAN, drop : SUBSET Files, take : SUBSET Files]]
      /\ \A q \in Runs : plan'[q].take = plan[q].take
  BY <1>1 DEF TypeInv, TypeOK
<1>4. TypeOK'
  BY <1>1, <1>2, <1>3 DEF TypeInv, TypeOK, checkout, stored
<1> QED BY <1>1, <1>2, <1>3, <1>4 DEF TypeInv, Scanned

\* the scan,
LEMMA ScanType ==
  ASSUME TypeInv, NEW r \in Runs, Scan(r)
  PROVE  TypeInv'
<1>1. /\ pc' = [pc EXCEPT ![r] = IF plan[r].full THEN "chunk" ELSE "compare"]
      /\ scan' = [scan EXCEPT ![r] = tree]
      /\ UNCHANGED <<checkout, stored, status, task, made, faults>>
      /\ pc[r] = "scan"
      /\ \/ plan' = plan
         \/ plan' = [plan EXCEPT ![r].take = Indexable(tree)]
  BY DEF Scan, Goto, At
<1>2. /\ plan' \in [Runs -> [full : BOOLEAN, drop : SUBSET Files, take : SUBSET Files]]
      /\ \A q \in Runs : plan'[q].take \subseteq Supported
  <2>1. CASE plan' = plan
    BY <2>1 DEF TypeInv, TypeOK
  <2>2. CASE plan' = [plan EXCEPT ![r].take = Indexable(tree)]
    <3> DEFINE take == Indexable(tree)
    <3>1. take \subseteq Supported /\ take \subseteq Files
      BY FilesAssumption DEF FilesAssumption, Indexable
    <3>2. plan' = [plan EXCEPT ![r].take = take]
      BY <2>2
    <3> HIDE DEF take
    <3> QED BY <3>1, <3>2 DEF TypeInv, TypeOK
  <2> QED BY <1>1, <2>1, <2>2
<1>3. /\ pc'[r] \in {"chunk", "compare"} /\ scan'[r] = tree
      /\ \A q \in Runs : q # r => pc'[q] = pc[q] /\ scan'[q] = scan[q]
  BY <1>1 DEF TypeInv, TypeOK
<1>4. TypeOK'
  BY <1>1, <1>2, <1>3 DEF TypeInv, TypeOK, checkout, stored
<1> QED BY <1>1, <1>2, <1>3, <1>4 DEF TypeInv, TypeOK, Scanned, checkout

\* the comparison, which plans files the chunker has a language for,
LEMMA CompareType ==
  ASSUME TypeInv, NEW r \in Runs, Compare(r)
  PROVE  TypeInv'
<1> DEFINE old == snapshot[task[r].scope]
           add == Added(old, scan[r])
           rem == Removed(old, scan[r])
           mod == Modified(old, scan[r])
<1>1. /\ \E l \in {"finish", "chunk"} : pc' = [pc EXCEPT ![r] = l]
      /\ plan' = [plan EXCEPT ![r] = [full |-> FALSE, drop |-> rem \cup mod,
                                      take |-> (add \cup mod) \cap Supported]]
      /\ UNCHANGED <<checkout, stored, status, task, scan, made, faults>>
      /\ pc[r] = "compare"
  BY DEF Compare, Goto, At
<1>2. add \subseteq Files /\ rem \subseteq Files /\ mod \subseteq Files
  BY DEF Added, Removed, Modified, Present
<1> HIDE DEF old, add, rem, mod
<1>3. /\ plan' \in [Runs -> [full : BOOLEAN, drop : SUBSET Files, take : SUBSET Files]]
      /\ \A q \in Runs : plan'[q].take \subseteq Supported
  BY <1>1, <1>2 DEF TypeInv, TypeOK
<1>4. pc'[r] \in {"chunk", "finish"} /\ \A q \in Runs : q # r => pc'[q] = pc[q]
  BY <1>1 DEF TypeInv, TypeOK
<1>5. TypeOK'
  BY <1>1, <1>3, <1>4 DEF TypeInv, TypeOK, checkout, stored
<1> QED BY <1>1, <1>3, <1>4, <1>5 DEF TypeInv, Scanned

\* The chunks of one file are at most one, and of the types they should be.
LEMMA ChunkFileType ==
  ASSUME TypeInv, NEW r \in Runs, NEW f \in Files, ChunkFile(r, f) \/ SkipFile(r, f)
  PROVE  TypeInv'
<1>1. PICK new \in SUBSET Chunks :
        /\ IsFiniteSet(new)
        /\ plan' = [plan EXCEPT ![r].take = @ \ {f}]
        /\ made' = [made EXCEPT ![r] = @ \cup new]
        /\ UNCHANGED <<checkout, stored, status, pc, task, scan, faults>>
  <2>1. CASE ChunkFile(r, f)
    <3> DEFINE c == [file |-> f, version |-> tree[f], name |-> task[r].name]
               new == IF tree[f] \in Chunkless \cup {Absent} THEN {} ELSE {c}
    <3>1. /\ plan' = [plan EXCEPT ![r].take = @ \ {f}]
          /\ made' = [made EXCEPT ![r] = @ \cup new]
          /\ UNCHANGED <<checkout, stored, status, pc, task, scan, faults>>
          /\ pc[r] = "chunk" /\ f \in plan[r].take
      BY <2>1 DEF ChunkFile, At
    <3>2. f \in Supported /\ task[r] \in Tasks
      BY <3>1 DEF TypeInv, TypeOK
    <3>3. tree[f] \notin Chunkless \cup {Absent} => c \in Chunks
      BY <3>2, TreeValues DEF TypeInv, TypeOK, Chunks, Tasks
    <3>4. IsFiniteSet({}) /\ IsFiniteSet({c})
      BY FS_EmptySet, FS_Singleton
    <3> HIDE DEF c
    <3>5. IsFiniteSet(new) /\ new \in SUBSET Chunks
      BY <3>3, <3>4
    <3> QED BY <3>1, <3>5
  <2>2. CASE SkipFile(r, f)
    <3>1. made' = [made EXCEPT ![r] = @ \cup {}]
      BY <2>2 DEF SkipFile, TypeInv, TypeOK
    <3> QED BY <2>2, <3>1, FS_EmptySet DEF SkipFile
  <2> QED BY <2>1, <2>2
<1>2. /\ plan' \in [Runs -> [full : BOOLEAN, drop : SUBSET Files, take : SUBSET Files]]
      /\ \A q \in Runs : plan'[q].take \subseteq Supported
  BY <1>1 DEF TypeInv, TypeOK
<1>3. IsFiniteSet(made[r] \cup new)
  BY <1>1, FS_Union DEF TypeInv
<1>4. made'[r] = made[r] \cup new /\ \A q \in Runs : q # r => made'[q] = made[q]
  BY <1>1 DEF TypeInv, TypeOK
<1>5. TypeOK'
  BY <1>1, <1>2, <1>4 DEF TypeInv, TypeOK, checkout, stored
<1> QED BY <1>1, <1>2, <1>3, <1>4, <1>5 DEF TypeInv, Scanned

\* the publication,
LEMMA PublishType ==
  ASSUME TypeInv, NEW r \in Runs, Publish(r)
  PROVE  TypeInv'
<1> DEFINE p == task[r].provider
<1>1. pc[r] = "publish" /\ task[r] \in Tasks /\ p \in Providers
  BY DEF Publish, At, TypeInv, TypeOK, Tasks
<1>2. Cardinality(made[r]) \in Nat
  BY FS_CardinalityType DEF TypeInv
<1>3. Updated(chunks[p], plan[r].drop, task[r].name, made[r]) \subseteq Chunks
  BY <1>1 DEF Updated, TypeInv, TypeOK
<1>4. PICK cs \in SUBSET Chunks, n \in Nat :
        /\ chunks' = [chunks EXCEPT ![p] = cs]
        /\ rows' = [rows EXCEPT ![p] = n]
  <2>1. CASE plan[r].full
    BY <1>2, <2>1 DEF Publish, TypeInv, TypeOK
  <2>2. CASE ~plan[r].full
    <3>1. rows[p] + Cardinality(made[r]) \in Nat
      BY <1>1, <1>2 DEF TypeInv, TypeOK
    <3> QED BY <1>3, <2>2, <3>1 DEF Publish
  <2> QED BY <2>1, <2>2
<1>5. /\ pc' = [pc EXCEPT ![r] = "truncate"]
      /\ UNCHANGED <<checkout, snapshot, empty, status, locals, faults>>
  BY DEF Publish, Goto
<1>6. pc'[r] = "truncate" /\ \A q \in Runs : q # r => pc'[q] = pc[q]
  BY <1>5 DEF TypeInv, TypeOK
<1> HIDE DEF p
<1>7. TypeOK'
  BY <1>1, <1>4, <1>5, <1>6 DEF TypeInv, TypeOK, checkout, locals
<1> QED BY <1>1, <1>5, <1>6, <1>7 DEF TypeInv, Scanned, locals

\* the steps that save the snapshot,
LEMMA SaveType ==
  ASSUME TypeInv, NEW r \in Runs, Truncate(r) \/ Fill(r) \/ Describe(r)
  PROVE  TypeInv'
<1> DEFINE p == task[r].scope
<1>1. Scanned(r) /\ task[r] \in Tasks /\ p \in Providers /\ scan[r] \in Trees
  BY DEF Truncate, Fill, Describe, At, TypeInv, TypeOK, Tasks, Scanned
<1>2. PICK l \in {"fill", "describe", "finish"}, s \in Trees \cup {Missing, Torn},
           e \in BOOLEAN :
        /\ pc' = [pc EXCEPT ![r] = l]
        /\ snapshot' = [snapshot EXCEPT ![p] = s]
        /\ empty' = [empty EXCEPT ![p] = e]
        /\ UNCHANGED <<checkout, chunks, rows, status, locals, faults>>
  <2>1. /\ snapshot = [snapshot EXCEPT ![p] = snapshot[p]]
        /\ empty = [empty EXCEPT ![p] = empty[p]]
        /\ snapshot[p] \in Trees \cup {Missing, Torn} /\ empty[p] \in BOOLEAN
    BY <1>1 DEF TypeInv, TypeOK
  <2>2. CASE Truncate(r)
    BY <2>1, <2>2 DEF Truncate, Goto
  <2>3. CASE Fill(r)
    BY <1>1, <2>1, <2>3 DEF Fill, Goto
  <2>4. CASE Describe(r)
    BY <1>1, <2>1, <2>4 DEF Describe, Goto
  <2> QED BY <2>2, <2>3, <2>4
<1> HIDE DEF p
<1>3. pc'[r] = l /\ \A q \in Runs : q # r => pc'[q] = pc[q]
  BY <1>2 DEF TypeInv, TypeOK
<1>4. TypeOK'
  BY <1>1, <1>2, <1>3 DEF TypeInv, TypeOK, checkout, locals
<1> QED BY <1>1, <1>2, <1>3, <1>4 DEF TypeInv, Scanned, locals

\* A run ends, whichever way.
Ends(r) == SkipFresh(r) \/ Refuse(r) \/ Finish(r) \/ Fail(r) \/ Cancel(r)
           \/ SaveFails(r) \/ Crash(r)

\* every end of a run,
LEMMA EndType ==
  ASSUME TypeInv, NEW r \in Runs, Ends(r)
  PROVE  TypeInv'
<1>1. Leave(r) /\ UNCHANGED <<checkout, stored>> /\ pc[r] # "idle"
  BY DEF Ends, SkipFresh, Refuse, Finish, Fail, Cancel, SaveFails, Crash, At, Working
<1>2. faults' \in 0 .. MaxFaults
  <2>1. faults' = faults \/ Fault
    BY DEF Ends, SkipFresh, Refuse, Finish, Fail, Cancel, SaveFails, Crash
  <2> QED BY <2>1, BoundAssumption DEF BoundAssumption, Fault, TypeInv, TypeOK
<1>3. task[r] \in Tasks /\ tree \in Trees
  BY <1>1 DEF TypeInv, TypeOK
<1>4. task[r].provider \in Providers /\ task[r].before \in Identities
  BY <1>3 DEF Tasks
<1>5. UNCHANGED status \/ \E s \in Identities : SetStatus(task[r].provider, s)
  <2>1. \A s \in States : Plain(s) \in Identities
    BY StatusType
  <2>2. Ready(tree) \in Identities
    BY <1>3, StatusType
  <2> USE <1>4, <2>1 DEF States
  <2>3. CASE SkipFresh(r)
    BY <2>3 DEF SkipFresh
  <2>4. CASE Refuse(r)
    BY <2>4 DEF Refuse
  <2>5. CASE Finish(r)
    BY <2>2, <2>5 DEF Finish
  <2>6. CASE Fail(r) \/ SaveFails(r)
    BY <2>6 DEF Fail, SaveFails
  <2>7. CASE Cancel(r)
    BY <2>7 DEF Cancel
  <2>8. CASE Crash(r)
    BY <2>8 DEF Crash
  <2> QED BY <2>3, <2>4, <2>5, <2>6, <2>7, <2>8 DEF Ends
<1>6. status' \in [Providers -> Identities]
  BY <1>4, <1>5, StatusType DEF TypeInv, TypeOK
<1> QED BY <1>1, <1>2, <1>6, LeaveType

\* and a cleared index.
LEMMA ClearType ==
  ASSUME TypeInv, NEW p \in Providers, Clear(p)
  PROVE  TypeInv'
<1>1. faults' \in 0 .. MaxFaults
  BY BoundAssumption DEF BoundAssumption, Clear, Fault, TypeInv, TypeOK
<1> QED BY <1>1 DEF Clear, TypeInv, TypeOK, checkout, locals, Scanned

\* Next, by kinds of steps.
LEMMA NextCases ==
  ASSUME Next, TypeInv
  PROVE  \/ Change
         \/ \E r \in Runs, p \in Providers : Starts(r, p)
         \/ \E r \in Runs : SeeChange(r) \/ SeeAge(r) \/ Decide(r) \/ Embed(r)
         \/ \E r \in Runs : Scan(r) \/ Compare(r) \/ Publish(r)
         \/ \E r \in Runs, f \in Files : ChunkFile(r, f) \/ SkipFile(r, f)
         \/ \E r \in Runs : Truncate(r) \/ Fill(r) \/ Describe(r)
         \/ \E r \in Runs : Ends(r)
         \/ \E p \in Providers : Clear(p)
<1>1. CASE Start
  <2>1. PICK r \in Runs :
          \/ \E p \in Providers, name \in Names, forced \in BOOLEAN :
               StartJob(r, p, name, forced)
          \/ \E p \in AutoProviders : StartAuto(r, p)
    BY <1>1 DEF Start
  <2>2. AutoProviders \subseteq Providers
    BY ProviderAssumption DEF ProviderAssumption
  <2>3. \E p \in Providers : Starts(r, p)
    BY <2>1, <2>2, StartEffect
  <2> QED BY <2>3
<1>2. CASE \E r \in Runs : Step(r)
  BY <1>2 DEF Step, Ends
<1>3. CASE Trouble
  BY <1>3 DEF Trouble, Ends
<1> QED BY <1>1, <1>2, <1>3 DEF Next

\* Every step keeps the types.
LEMMA NextType ==
  ASSUME TypeInv, [Next]_vars
  PROVE  TypeInv'
<1>1. CASE UNCHANGED vars
  BY <1>1 DEF vars, TypeInv, TypeOK, Scanned
<1>2. CASE Next
  BY <1>2, NextCases, ChangeType, StartType, WalkType, ScanType, CompareType,
     PublishType, ChunkFileType, SaveType, EndType, ClearType
<1> QED BY <1>1, <1>2

\* The states of a run and what it has in hand are always of their types, for
\* any files, providers, runs, bounds and mishaps.
THEOREM TypeCorrect == Spec => []TypeOK
<1>1. TypeInv => TypeOK
  BY DEF TypeInv
<1> QED BY <1>1, InitType, NextType, PTL DEF Spec

----------------------------------------------------------------------------
(* Steps of the checkout and steps of a run, one file, run and index at a     *)
(* time.                                                                      *)

\* A file stays as it is, gets a new version, or goes: then no run that is
\* active started without it.
Moves(f) ==
  \/ tree'[f] = tree[f] /\ latest'[f] = latest[f]
  \/ tree'[f] = latest[f] + 1 /\ latest'[f] = latest[f] + 1
  \/ /\ tree'[f] = Absent /\ latest'[f] = latest[f]
     /\ \A r \in Runs : Active(r) => task[r].start[f] # Absent

\* A change of the checkout moves each file, or leaves it.
LEMMA ChangeMoves ==
  ASSUME Disciplined, TypeInv, Change
  PROVE  \A f \in Files : Moves(f)
<1>1. ASSUME NEW f \in Files, NEW g \in Files, Edit(f) PROVE Moves(g)
  BY <1>1 DEF Edit, Moves, TypeInv, TypeOK, Trees
<1>2. ASSUME NEW f \in Files, NEW g \in Files, Delete(f) PROVE Moves(g)
  BY <1>2 DEF Delete, Moves, TypeInv, TypeOK, Trees, Disciplined, Active
<1>3. ASSUME NEW f \in Files, NEW v \in Versions, Restore(f, v) PROVE FALSE
  BY <1>3 DEF Restore, Disciplined
<1> QED BY <1>1, <1>2, <1>3 DEF Change

\* The steps of a run once it has started.
Acts(r) ==
  \/ SeeChange(r) \/ SeeAge(r) \/ Decide(r) \/ Embed(r)
  \/ Scan(r) \/ Compare(r) \/ Publish(r)
  \/ \E f \in Files : ChunkFile(r, f)
  \/ Truncate(r) \/ Fill(r) \/ Describe(r)
  \/ Ends(r)

\* Next without mishaps, by kinds of steps.
LEMMA DisciplinedCases ==
  ASSUME Next, TypeInv, Disciplined
  PROVE  \/ Change
         \/ \E r \in Runs, p \in Providers : Starts(r, p)
         \/ \E r \in Runs : Acts(r)
<1>1. \A r \in Runs, f \in Files : ~SkipFile(r, f)
  BY DEF SkipFile, Disciplined
<1>2. \A p \in Providers : ~Clear(p)
  BY DEF Clear, Disciplined
<1> QED BY <1>1, <1>2, NextCases DEF Acts

\* A run moves in its own place and on its own index, and sets the identity
\* when it ends.
Local(r) ==
  /\ UNCHANGED <<tree, latest>>
  /\ \A q \in Runs : q # r => /\ pc'[q] = pc[q] /\ task'[q] = task[q]
                              /\ scan'[q] = scan[q] /\ plan'[q] = plan[q]
                              /\ made'[q] = made[q]
  /\ \A p \in Providers : p # task[r].provider =>
       chunks'[p] = chunks[p] /\ snapshot'[p] = snapshot[p] /\ status'[p] = status[p]
  /\ Active(r)
  /\ pc'[r] # "idle" => task'[r] = task[r] /\ status' = status

\* A run ends without touching the index or its snapshot.
LEMMA EndsLocal ==
  ASSUME TypeInv, NEW r \in Runs, Ends(r)
  PROVE  /\ Local(r)
         /\ pc'[r] = "idle" /\ made'[r] = {}
         /\ chunks' = chunks /\ snapshot' = snapshot
<1>1. Leave(r) /\ UNCHANGED <<checkout, stored>> /\ pc[r] # "idle"
  BY DEF Ends, SkipFresh, Refuse, Finish, Fail, Cancel, SaveFails, Crash, At, Working
<1>2. /\ pc'[r] = "idle" /\ made'[r] = {}
      /\ \A q \in Runs : q # r => /\ pc'[q] = pc[q] /\ task'[q] = task[q]
                                  /\ scan'[q] = scan[q] /\ plan'[q] = plan[q]
                                  /\ made'[q] = made[q]
  BY <1>1 DEF Leave, Goto, TypeInv, TypeOK
<1>3. UNCHANGED status \/ \E s : SetStatus(task[r].provider, s)
  BY DEF Ends, SkipFresh, Refuse, Finish, Fail, Cancel, SaveFails, Crash
<1>4. \A p \in Providers : p # task[r].provider => status'[p] = status[p]
  BY <1>3 DEF SetStatus, TypeInv, TypeOK
<1> QED BY <1>1, <1>2, <1>4 DEF Local, Active, checkout, stored

\* All steps of a run are local to it and its index, if its snapshot is that
\* of its index.
LEMMA OwnLocal ==
  ASSUME TypeInv, OwnInv, NEW r \in Runs, Acts(r)
  PROVE  Local(r)
<1>1. ASSUME Active(r)
      PROVE  task[r].scope = task[r].provider /\ task[r].provider \in Providers
  BY <1>1 DEF OwnInv, Active, TypeInv, TypeOK, Tasks
<1> USE DEF Local, Active, TypeInv, TypeOK, At, Goto, checkout, stored, locals
<1>2. CASE SeeChange(r) \/ SeeAge(r)
  BY <1>2 DEF SeeChange, SeeAge
<1>3. CASE Decide(r)
  BY <1>3 DEF Decide
<1>4. CASE Embed(r)
  BY <1>4 DEF Embed
<1>5. CASE Scan(r)
  BY <1>5 DEF Scan
<1>6. CASE Compare(r)
  BY <1>6 DEF Compare
<1>7. CASE Publish(r)
  BY <1>1, <1>7 DEF Publish
<1>8. CASE \E f \in Files : ChunkFile(r, f)
  BY <1>8 DEF ChunkFile
<1>9. CASE Truncate(r) \/ Fill(r) \/ Describe(r)
  BY <1>1, <1>9 DEF Truncate, Fill, Describe
<1>10. CASE Ends(r)
  BY <1>10, EndsLocal
<1> QED BY <1>2, <1>3, <1>4, <1>5, <1>6, <1>7, <1>8, <1>9, <1>10 DEF Acts

LEMMA ActsLocal ==
  ASSUME TypeInv, RunInv, NEW r \in Runs, Acts(r)
  PROVE  Local(r)
<1>1. OwnInv
  BY DEF RunInv, OwnInv
<1> QED BY <1>1, OwnLocal

\* A start: the run has the index to itself.
LEMMA StartsOwn ==
  ASSUME Lone, TypeInv, NEW r \in Runs, NEW p \in Providers, Starts(r, p)
  PROVE  /\ UNCHANGED <<tree, latest, chunks, snapshot, scan, plan, made>>
         /\ pc[r] = "idle" /\ pc'[r] \in {"decide", "fresh"}
         /\ \A q \in Runs : q # r => pc'[q] = pc[q] /\ task'[q] = task[q]
         /\ \A q \in Runs : q # r /\ Active(q) => task[q].provider # p
         /\ task'[r].provider = p /\ task'[r].scope = p
<1>1. PICK t \in Tasks, l \in {"decide", "fresh"} :
       /\ task' = [task EXCEPT ![r] = t]
       /\ pc' = [pc EXCEPT ![r] = l]
       /\ t.provider = p
       /\ t.scope \in {p, Unscoped} /\ (t.auto \/ t.scope = p)
       /\ t.auto => p \in AutoProviders
  BY DEF Starts
<1>2. t.scope = p
  BY <1>1 DEF Lone
<1>3. UNCHANGED <<tree, latest, chunks, snapshot, scan, plan, made>> /\ pc[r] = "idle"
      /\ \A q \in Runs : q # r /\ Active(q) => task[q].provider # p
  BY DEF Starts, MayStart, At, Lone, Active, checkout, stored
<1>4. /\ task'[r] = t /\ pc'[r] = l
      /\ \A q \in Runs : q # r => pc'[q] = pc[q] /\ task'[q] = task[q]
  BY <1>1 DEF TypeInv, TypeOK
<1> QED BY <1>1, <1>2, <1>3, <1>4

\* A start, under the discipline.
LEMMA StartsAlone ==
  ASSUME Disciplined, TypeInv, NEW r \in Runs, NEW p \in Providers, Starts(r, p)
  PROVE  /\ UNCHANGED <<tree, latest, chunks, snapshot, scan, plan, made>>
         /\ pc[r] = "idle" /\ pc'[r] \in {"decide", "fresh"}
         /\ \A q \in Runs : q # r => pc'[q] = pc[q] /\ task'[q] = task[q]
         /\ \A q \in Runs : q # r /\ Active(q) => task[q].provider # p
         /\ task'[r].provider = p /\ task'[r].scope = p
         /\ task'[r].name = DirName /\ task'[r].start = tree
         /\ status'[p].state # "ready"
         /\ \A o \in Providers : o # p => status'[o] = status[o]
         /\ pc'[r] = "fresh" => task'[r].before = status[p]
<1>1. PICK t \in Tasks, s \in Identities, l \in {"decide", "fresh"} :
       /\ task' = [task EXCEPT ![r] = t]
       /\ status' = [status EXCEPT ![p] = s]
       /\ pc' = [pc EXCEPT ![r] = l]
       /\ t.provider = p /\ t.start = tree /\ t.name \in Names \cup {DirName}
       /\ t.scope \in {p, Unscoped} /\ (t.auto \/ t.scope = p)
       /\ t.auto => p \in AutoProviders
       /\ l = "fresh" => t.before = status[p]
       /\ s.state # "ready"
  BY DEF Starts
<1>2. t.scope = p /\ t.name = DirName
  BY <1>1 DEF Disciplined
<1>3. UNCHANGED <<tree, latest, chunks, snapshot, scan, plan, made>> /\ pc[r] = "idle"
      /\ \A q \in Runs : q # r /\ Active(q) => task[q].provider # p
  BY DEF Starts, MayStart, At, Disciplined, Active, checkout, stored
<1>4. /\ task'[r] = t /\ pc'[r] = l /\ status'[p] = s
      /\ \A q \in Runs : q # r => pc'[q] = pc[q] /\ task'[q] = task[q]
      /\ \A o \in Providers : o # p => status'[o] = status[o]
  BY <1>1 DEF TypeInv, TypeOK
<1> QED BY <1>1, <1>2, <1>3, <1>4

\* Every run has its index to itself.
LEMMA RunStep ==
  ASSUME Disciplined, TypeInv, RunInv, Next
  PROVE  RunInv'
<1>1. \A q \in Runs : Active(q) => task[q].provider \in Providers
  BY DEF Active, TypeInv, TypeOK, Tasks
<1>2. CASE Change
  BY <1>2, ChangeEffect DEF RunInv, Active, locals
<1>3. ASSUME NEW r \in Runs, NEW p \in Providers, Starts(r, p) PROVE RunInv'
  BY <1>1, <1>3, StartsAlone DEF RunInv, Active
<1>4. ASSUME NEW r \in Runs, Acts(r) PROVE RunInv'
  <2>1. Local(r)
    BY <1>4, ActsLocal
  <2> QED BY <1>1, <2>1 DEF RunInv, Active, Local
<1> QED BY <1>2, <1>3, <1>4, DisciplinedCases

----------------------------------------------------------------------------
(* What was read of the checkout.                                             *)

\* A tree that is past stays so, and a file does not become again what it has
\* been, unless it is gone.
LEMMA PastKept ==
  ASSUME TypeInv, NEW t \in Trees, Past(tree, latest, t),
         \A f \in Files : Moves(f)
  PROVE  /\ Past(tree', latest', t)
         /\ \A f \in Files : tree'[f] = t[f] => tree[f] = t[f] \/ t[f] = Absent
<1>1. ASSUME NEW f \in Files
      PROVE  /\ t[f] <= latest'[f] /\ (tree'[f] # Absent => t[f] <= tree'[f])
             /\ tree'[f] = t[f] => tree[f] = t[f] \/ t[f] = Absent
  <2>1. t[f] \in Nat /\ tree[f] \in Nat /\ latest[f] \in Nat
    BY TreeValues DEF TypeInv, TypeOK
  <2>2. t[f] <= latest[f] /\ (tree[f] # Absent => t[f] <= tree[f]) /\ Moves(f)
    BY DEF Past
  <2> QED BY <2>1, <2>2 DEF Moves, Absent
<1> QED BY <1>1 DEF Past

\* Scans, snapshots and starting points stay in the past.
LEMMA PastStep ==
  ASSUME Disciplined, TypeInv, RunInv, PastInv, Next
  PROVE  PastInv'
<1>1. /\ \A r \in Runs : Active(r) => task[r].start \in Trees
      /\ \A r \in Runs : Scanned(r) => scan[r] \in Trees /\ Active(r)
  BY DEF Active, Scanned, TypeInv, TypeOK, Tasks
<1>2. CASE Change
  <2>1. \A f \in Files : Moves(f)
    BY <1>2, ChangeMoves
  <2>2. UNCHANGED <<stored, pc, locals>>
    BY <1>2, ChangeEffect
  <2>3. \A p \in Providers : snapshot'[p] \in Trees => Past(tree', latest', snapshot'[p])
    BY <2>1, <2>2, PastKept DEF PastInv, stored
  <2>4. \A r \in Runs : Active(r) => Past(tree', latest', task[r].start)
    BY <1>1, <2>1, PastKept DEF PastInv
  <2>5. ASSUME NEW r \in Runs, Scanned(r)
        PROVE  /\ Past(tree', latest', scan[r])
               /\ \A f \in Files : tree'[f] = task[r].start[f] => scan[r][f] = tree'[f]
    <3>1. Past(tree', latest', scan[r])
      BY <1>1, <2>1, <2>5, PastKept DEF PastInv
    <3>2. ASSUME NEW f \in Files, tree'[f] = task[r].start[f] PROVE scan[r][f] = tree'[f]
      <4>1. tree[f] = task[r].start[f] \/ task[r].start[f] = Absent
        BY <1>1, <2>1, <2>5, <3>2, PastKept DEF PastInv
      <4>2. tree[f] \in Nat /\ latest[f] \in Nat /\ Moves(f)
        BY <2>1, TreeValues DEF TypeInv, TypeOK
      <4>3. tree[f] = tree'[f]
        BY <1>1, <2>5, <3>2, <4>1, <4>2 DEF Moves, Absent
      <4> QED BY <2>5, <3>2, <4>3 DEF PastInv
    <3> QED BY <3>1, <3>2
  <2> QED BY <2>2, <2>3, <2>4, <2>5 DEF PastInv, Active, Scanned, stored, locals
<1>3. Past(tree, latest, tree)
  BY TreeValues DEF Past, TypeInv, TypeOK
<1>4. ASSUME NEW r \in Runs, NEW p \in Providers, Starts(r, p) PROVE PastInv'
  BY <1>3, <1>4, StartsAlone DEF PastInv, Active, Scanned
<1>5. ASSUME NEW r \in Runs, Acts(r) PROVE PastInv'
  <2>1. Local(r)
    BY <1>5, ActsLocal
  <2>2. /\ \/ Scanned(r) /\ scan'[r] = scan[r]
           \/ scan'[r] = tree
           \/ ~Scanned(r)'
        /\ \A p \in Providers : snapshot'[p] \in Trees =>
             snapshot'[p] = snapshot[p] \/ (Scanned(r) /\ snapshot'[p] = scan[r])
    <3> USE MarkerAssumption
        DEF MarkerAssumption, At, Goto, Scanned, TypeInv, TypeOK, stored, locals
    <3>1. CASE SeeChange(r) \/ SeeAge(r)
      BY <3>1 DEF SeeChange, SeeAge
    <3>2. CASE Decide(r)
      BY <3>2 DEF Decide
    <3>3. CASE Embed(r)
      BY <3>3 DEF Embed
    <3>4. CASE Scan(r)
      BY <3>4 DEF Scan
    <3>5. CASE Compare(r)
      BY <3>5 DEF Compare
    <3>6. CASE Publish(r)
      BY <3>6 DEF Publish
    <3>7. CASE \E f \in Files : ChunkFile(r, f)
      BY <3>7 DEF ChunkFile
    <3>8. CASE Truncate(r)
      BY <3>8 DEF Truncate
    <3>9. CASE Fill(r)
      BY <3>9 DEF Fill
    <3>10. CASE Describe(r)
      BY <3>10 DEF Describe
    <3>11. CASE Ends(r)
      BY <3>11, EndsLocal
    <3> QED BY <1>5, <3>1, <3>2, <3>3, <3>4, <3>5, <3>6, <3>7, <3>8, <3>9, <3>10,
               <3>11 DEF Acts
  <2> QED BY <1>3, <2>1, <2>2 DEF PastInv, Active, Scanned, Local
<1> QED BY <1>2, <1>4, <1>5, DisciplinedCases

----------------------------------------------------------------------------
(* Chunks and trees.                                                          *)

\* A file the tree does not list has no chunks.
LEMMA NoChunks ==
  ASSUME NEW cs, NEW t, Above(cs, t), NEW f, t[f] = Absent
  PROVE  OfFile(cs, f) = {} /\ Wanted(t[f]) = {}
BY DEF Above, OfFile, Wanted

\* Chunks that match a tree of the past go on matching it.
LEMMA MatchesKept ==
  ASSUME TypeInv, NEW t \in Trees, NEW cs, NEW fs, fs \subseteq Supported,
         Above(cs, t), Past(tree, latest, t), Matches(tree, cs, t, fs),
         \A f \in Files : Moves(f)
  PROVE  Matches(tree', cs, t, fs)
<1>1. ASSUME NEW f \in fs, tree'[f] = t[f]
      PROVE  OfFile(cs, f) = Wanted(t[f])
  <2>1. f \in Files
    BY FilesAssumption DEF FilesAssumption
  <2>2. tree[f] = t[f] \/ t[f] = Absent
    BY <1>1, <2>1, PastKept
  <2> QED BY <2>2, NoChunks DEF Matches
<1> QED BY <1>1 DEF Matches

\* What an incremental publication leaves belongs to the new tree, if what was
\* there belonged to the snapshot and what was made belongs to the new tree.
LEMMA MergeBelongs ==
  ASSUME Names \subseteq {DirName},
         NEW now, NEW old \in Trees, NEW new \in Trees,
         NEW cs \in SUBSET Chunks, NEW mk \in SUBSET Chunks, NEW drop,
         Single(cs), Above(cs, old), Matches(now, cs, old, Supported),
         Single(mk), Above(mk, new), \A c \in mk : c.file \in Work(FALSE, old, new),
         Matches(now, mk, new, Work(FALSE, old, new)),
         drop = Removed(old, new) \cup Modified(old, new)
  PROVE  /\ Single(Updated(cs, drop, DirName, mk))
         /\ Above(Updated(cs, drop, DirName, mk), new)
         /\ Matches(now, Updated(cs, drop, DirName, mk), new, Supported)
<1> DEFINE U == Updated(cs, drop, DirName, mk)
           W == Work(FALSE, old, new)
<1>1. \A c \in U : c \in mk \/ (c \in cs /\ c.file \notin drop)
  BY DEF Updated, Chunks
<1>2. /\ mk \subseteq U
      /\ \A c \in cs : c.file \notin drop /\ c.file \notin W => c \in U
  BY DEF Updated, SameId, ChunkId
<1>3. ASSUME NEW f \in Files
      PROVE  /\ f \in drop <=> old[f] # Absent /\ new[f] # old[f]
             /\ f \in W <=> f \in Supported /\ new[f] # Absent /\ new[f] # old[f]
  BY <1>3, MarkerAssumption
     DEF MarkerAssumption, Work, Added, Removed, Modified, Present
<1>4. \A c \in cs \cup mk : c.file \in Supported /\ c.file \in Files
  BY FilesAssumption DEF FilesAssumption, Chunks
<1>5. \A c \in cs : old[c.file] # Absent /\ old[c.file] <= c.version
  BY DEF Above
<1>6. \A c \in mk : c.file \in W /\ new[c.file] # Absent /\ new[c.file] <= c.version
  BY DEF Above
<1> HIDE DEF U, W
<1>7. \A c \in U : c \in mk \/ (c \in cs /\ c.file \notin W /\ new[c.file] = old[c.file])
  BY <1>1, <1>3, <1>4, <1>5
<1>8. Single(U)
  BY <1>6, <1>7 DEF Single
<1>9. Above(U, new)
  BY <1>5, <1>6, <1>7 DEF Above
<1>10. ASSUME NEW f \in Supported, now[f] = new[f]
       PROVE  OfFile(U, f) = Wanted(new[f])
  <2>1. f \in Files
    BY FilesAssumption DEF FilesAssumption
  <2>2. CASE new[f] = Absent
    BY <1>9, <2>2, NoChunks
  <2>3. CASE f \in W
    <3>1. \A c : c.file = f => (c \in U <=> c \in mk)
      BY <1>2, <1>7, <2>3
    <3>2. OfFile(U, f) = OfFile(mk, f)
      BY <3>1 DEF OfFile
    <3> QED BY <1>10, <2>3, <3>2 DEF Matches, W
  <2>4. CASE new[f] # Absent /\ f \notin W
    <3>1. new[f] = old[f] /\ f \notin drop
      BY <1>3, <2>1, <2>4
    <3>2. \A c : c.file = f => (c \in U <=> c \in cs)
      BY <1>2, <1>6, <1>7, <2>4, <3>1
    <3>3. OfFile(U, f) = OfFile(cs, f)
      BY <3>2 DEF OfFile
    <3> QED BY <1>10, <3>1, <3>3 DEF Matches
  <2> QED BY <2>2, <2>3, <2>4
<1> QED BY <1>8, <1>9, <1>10 DEF Matches, U

\* What a rebuild publishes belongs to the tree it was made from.
LEMMA RebuildBelongs ==
  ASSUME NEW now, NEW old, NEW new \in Trees, NEW mk \in SUBSET Chunks,
         \A c \in mk : c.file \in Work(TRUE, old, new),
         Matches(now, mk, new, Work(TRUE, old, new))
  PROVE  Matches(now, mk, new, Supported)
<1>1. \A f \in Supported : f \in Work(TRUE, old, new) \/ new[f] = Absent
  BY FilesAssumption DEF FilesAssumption, Work, Indexable, Present
<1>2. \A f \in Supported : f \notin Work(TRUE, old, new) => OfFile(mk, f) = {}
  BY DEF OfFile
<1> QED BY <1>1, <1>2 DEF Matches, Wanted

\* A comparison that finds no difference has compared equal trees.
LEMMA NoDifference ==
  ASSUME NEW old \in Trees, NEW new \in Trees,
         Added(old, new) \cup Removed(old, new) \cup Modified(old, new) = {}
  PROVE  old = new
<1>1. \A f \in Files : old[f] = new[f]
  BY MarkerAssumption DEF MarkerAssumption, Added, Removed, Modified, Present
<1> QED BY <1>1 DEF Trees

\* Chunks that match a tree for every file are its contents.
LEMMA MatchesExactly ==
  ASSUME NEW t \in Trees, NEW cs \in SUBSET Chunks, Matches(t, cs, t, Supported)
  PROVE  ContentsIn(cs) = ContentsOf(t)
<1>1. ASSUME NEW f \in Supported
      PROVE  \A v : (\E c \in cs : c.file = f /\ c.version = v)
                    <=> v = t[f] /\ t[f] # Absent /\ t[f] \notin Chunkless
  <2>1. OfFile(cs, f) = Wanted(t[f])
    BY DEF Matches
  <2> QED BY <2>1 DEF OfFile, Wanted
<1>2. \A c \in cs : c.file \in Supported
  BY DEF Chunks
<1>3. Supported \subseteq Files
  BY FilesAssumption DEF FilesAssumption
<1>4. ASSUME NEW c \in cs PROVE <<c.file, c.version>> \in ContentsOf(t)
  BY <1>1, <1>2, <1>3 DEF ContentsOf, Indexable, Present
<1>5. ASSUME NEW f \in {g \in Indexable(t) : t[g] \notin Chunkless}
      PROVE  <<f, t[f]>> \in ContentsIn(cs)
  <2>1. f \in Supported /\ t[f] # Absent
    BY DEF Indexable, Present
  <2>2. PICK c \in cs : c.file = f /\ c.version = t[f]
    BY <1>1, <2>1
  <2> QED BY <2>2 DEF ContentsIn
<1> QED BY <1>4, <1>5 DEF ContentsIn, ContentsOf

----------------------------------------------------------------------------
(* The index and its snapshot.                                                *)

\* An index is settled unless the one run on it is saving.
LEMMA SettledAlone ==
  ASSUME RunInv, NEW r \in Runs, Active(r), ~Saving(r)
  PROVE  Settled(task[r].provider)
BY DEF RunInv, Settled, Saving, Active

\* The run and its index, for a step of the run.
LEMMA ActiveTypes ==
  ASSUME TypeInv, RunInv, NEW r \in Runs, Active(r)
  PROVE  /\ task[r] \in Tasks /\ task[r].provider \in Providers
         /\ task[r].scope = task[r].provider /\ task[r].name = DirName
         /\ chunks[task[r].provider] \in SUBSET Chunks
         /\ made[r] \in SUBSET Chunks
BY DEF RunInv, Active, TypeInv, TypeOK, Tasks

\* What a publication leaves in the index belongs to the scan.
LEMMA PublishBelongs ==
  ASSUME Disciplined, TypeInv, RunInv, PastInv, StoreInv, MakeInv,
         NEW r \in Runs, Publish(r)
  PROVE  LET cs == chunks'[task[r].provider]
         IN /\ Single(cs) /\ Above(cs, scan[r])
            /\ Matches(tree, cs, scan[r], Supported)
<1> DEFINE p == task[r].provider
           old == snapshot[p]
           W == Work(plan[r].full, old, scan[r])
<1>1. pc[r] = "publish" /\ Active(r) /\ Making(r) /\ ~Saving(r) /\ Scanned(r)
  BY DEF Publish, At, Active, Making, Saving, Scanned
<1>2. p \in Providers /\ task[r].name = DirName /\ chunks[p] \in SUBSET Chunks
      /\ made[r] \in SUBSET Chunks /\ scan[r] \in Trees
  BY <1>1, ActiveTypes DEF TypeInv
<1>3. plan[r].take = {}
  BY <1>1 DEF MakeInv, MakeOf
<1>4. /\ Single(made[r]) /\ Above(made[r], scan[r])
      /\ \A c \in made[r] : c.file \in W
      /\ Matches(tree, made[r], scan[r], W)
      /\ ~plan[r].full => /\ old \in Trees
                          /\ plan[r].drop = Removed(old, scan[r]) \cup Modified(old, scan[r])
  <2>1. W \ plan[r].take = W
    BY <1>3
  <2>2. /\ Single(made[r]) /\ Above(made[r], scan[r])
        /\ \A c \in made[r] : c.file \in W \ plan[r].take
        /\ Matches(tree, made[r], scan[r], W \ plan[r].take)
        /\ ~plan[r].full => /\ old \in Trees
                            /\ plan[r].drop = Removed(old, scan[r]) \cup Modified(old, scan[r])
    BY <1>1 DEF MakeInv, MakeOf
  <2> QED BY <2>1, <2>2
<1>5. CASE plan[r].full
  <2>1. chunks'[p] = made[r]
    BY <1>2, <1>5 DEF Publish, TypeInv, TypeOK
  <2>2. W = Work(TRUE, old, scan[r])
    BY <1>5 DEF Work
  <2>3. Matches(tree, made[r], scan[r], Supported)
    BY <1>2, <1>4, <2>2, RebuildBelongs
  <2> QED BY <1>4, <2>1, <2>3
<1>6. CASE ~plan[r].full
  <2>1. chunks'[p] = Updated(chunks[p], plan[r].drop, DirName, made[r])
    BY <1>2, <1>6 DEF Publish, TypeInv, TypeOK
  <2>2. W = Work(FALSE, old, scan[r])
    BY <1>6 DEF Work
  <2>3. Settled(p)
    BY <1>1, SettledAlone
  <2>4. old # Missing
    BY <1>4, <1>6, MarkerAssumption DEF MarkerAssumption
  <2>5. /\ Single(chunks[p]) /\ Above(chunks[p], old)
        /\ Matches(tree, chunks[p], old, Supported)
    BY <1>2, <2>3, <2>4 DEF StoreInv
  <2> HIDE DEF p, old, W
  <2>6. Names \subseteq {DirName}
    BY DEF Disciplined
  <2>7. /\ old \in Trees /\ plan[r].drop = Removed(old, scan[r]) \cup Modified(old, scan[r])
        /\ \A c \in made[r] : c.file \in Work(FALSE, old, scan[r])
        /\ Matches(tree, made[r], scan[r], Work(FALSE, old, scan[r]))
    BY <1>4, <1>6, <2>2
  <2>8. /\ Single(Updated(chunks[p], plan[r].drop, DirName, made[r]))
        /\ Above(Updated(chunks[p], plan[r].drop, DirName, made[r]), scan[r])
        /\ Matches(tree, Updated(chunks[p], plan[r].drop, DirName, made[r]), scan[r], Supported)
    BY <1>2, <1>4, <2>5, <2>6, <2>7, MergeBelongs
  <2> QED BY <2>1, <2>8 DEF p
<1> QED BY <1>5, <1>6

\* Steps of a run that leave the stored data alone and do not end in a save.
LEMMA StoreFrame ==
  ASSUME StoreInv, NEW r \in Runs, Local(r),
         chunks' = chunks, snapshot' = snapshot, ~Saving(r), ~Saving(r)'
  PROVE  StoreInv'
<1>1. \A p \in Providers : Settled(p)' <=> Settled(p)
  BY DEF Settled, Saving, Local
<1> QED BY <1>1 DEF StoreInv, Local

\* An index and its snapshot go on belonging together.
LEMMA StoreStep ==
  ASSUME Disciplined, TypeInv, RunInv, PastInv, StoreInv, MakeInv, SaveInv, Next
  PROVE  StoreInv'
<1>1. CASE Change
  <2>1. UNCHANGED <<stored, pc, locals>>
    BY <1>1, ChangeEffect
  <2>2. \A f \in Files : Moves(f)
    BY <1>1, ChangeMoves
  <2>3. \A p \in Providers : Settled(p)' <=> Settled(p)
    BY <2>1 DEF Settled, Saving, locals
  <2>4. ASSUME NEW p \in Providers, snapshot[p] \in Trees,
               Above(chunks[p], snapshot[p]),
               Matches(tree, chunks[p], snapshot[p], Supported)
        PROVE  Matches(tree', chunks[p], snapshot[p], Supported)
    BY <2>2, <2>4, MatchesKept DEF PastInv
  <2> QED BY <2>1, <2>3, <2>4 DEF StoreInv, stored
<1>2. ASSUME NEW r \in Runs, NEW p \in Providers, Starts(r, p) PROVE StoreInv'
  <2>1. /\ UNCHANGED <<tree, chunks, snapshot>>
        /\ pc[r] = "idle" /\ pc'[r] \in {"decide", "fresh"}
        /\ \A q \in Runs : q # r => pc'[q] = pc[q] /\ task'[q] = task[q]
    BY <1>2, StartsAlone
  <2>2. \A o \in Providers : Settled(o)' <=> Settled(o)
    BY <2>1 DEF Settled, Saving
  <2> QED BY <2>1, <2>2 DEF StoreInv
<1>3. ASSUME NEW r \in Runs, Acts(r) PROVE StoreInv'
  <2> DEFINE p == task[r].provider
  <2>1. Local(r) /\ Active(r)
    BY <1>3, ActsLocal DEF Local
  <2>2. p \in Providers /\ task[r].scope = p
    BY <2>1, ActiveTypes
  <2>3. ASSUME NEW o \in Providers, o # p
        PROVE  /\ Settled(o)' <=> Settled(o)
               /\ chunks'[o] = chunks[o] /\ snapshot'[o] = snapshot[o]
    BY <2>1, <2>3 DEF Local, Settled, Saving
  <2>4. ASSUME chunks' = chunks, snapshot' = snapshot, ~Saving(r), ~Saving(r)'
        PROVE  StoreInv'
    BY <2>1, <2>4, StoreFrame
  <2> USE DEF Saving, At, Goto, stored, locals, TypeInv, TypeOK
  <2>5. CASE SeeChange(r) \/ SeeAge(r)
    BY <2>4, <2>5 DEF SeeChange, SeeAge
  <2>6. CASE Decide(r)
    BY <2>4, <2>6 DEF Decide
  <2>7. CASE Embed(r)
    BY <2>4, <2>7 DEF Embed
  <2>8. CASE Scan(r)
    BY <2>4, <2>8 DEF Scan
  <2>9. CASE Compare(r)
    BY <2>4, <2>9 DEF Compare
  <2>10. CASE \E f \in Files : ChunkFile(r, f)
    BY <2>4, <2>10 DEF ChunkFile
  <2>11. CASE Publish(r)
    <3>1. Single(chunks'[p])
      BY <2>11, PublishBelongs
    <3>2. ~Settled(p)' /\ task' = task
      BY <2>1, <2>11 DEF Publish, Settled, Local
    <3> HIDE DEF TypeInv, TypeOK
    <3> QED BY <2>1, <2>3, <3>1, <3>2 DEF StoreInv, Local
  <2>12. CASE Truncate(r)
    <3>1. ~Settled(p)' /\ chunks' = chunks /\ task' = task
      BY <2>1, <2>12 DEF Truncate, Settled, Local
    <3> HIDE DEF TypeInv, TypeOK
    <3> QED BY <2>1, <2>3, <3>1 DEF StoreInv, Local
  <2>13. CASE Fill(r)
    <3>1. chunks' = chunks /\ snapshot'[p] = scan[r] /\ scan[r] \in Trees
      BY <2>2, <2>13 DEF Fill, Scanned
    <3>2. Above(chunks[p], scan[r]) /\ Matches(tree, chunks[p], scan[r], Supported)
      BY <2>13 DEF SaveInv, SaveOf, Fill
    <3> HIDE DEF TypeInv, TypeOK
    <3> QED BY <2>1, <2>2, <2>3, <3>1, <3>2 DEF StoreInv, Local
  <2>14. CASE Describe(r)
    BY <2>4, <2>14 DEF Describe
  <2>15. CASE Ends(r)
    <3>1. ~Saving(r)
      BY <2>15 DEF Ends, SkipFresh, Refuse, Finish, Fail, Cancel, SaveFails, Crash,
                   Working, Disciplined
    <3> QED BY <2>4, <2>15, <3>1, EndsLocal
  <2> QED BY <1>3, <2>5, <2>6, <2>7, <2>8, <2>9, <2>10, <2>11, <2>12, <2>13, <2>14,
             <2>15 DEF Acts
<1> QED BY <1>1, <1>2, <1>3, DisciplinedCases

----------------------------------------------------------------------------
(* What a run makes and saves.                                                *)

\* A run is left alone by the others.
LEMMA OthersKept ==
  ASSUME TypeInv, RunInv, MakeInv, SaveInv, NEW r \in Runs, Local(r),
         NEW q \in Runs, q # r
  PROVE  MakeOf(q)' /\ SaveOf(q)'
<1>1. /\ pc'[q] = pc[q] /\ task'[q] = task[q] /\ scan'[q] = scan[q]
      /\ plan'[q] = plan[q] /\ made'[q] = made[q] /\ tree' = tree
  BY DEF Local
<1>2. Active(q) => /\ chunks'[task[q].provider] = chunks[task[q].provider]
                   /\ snapshot'[task[q].provider] = snapshot[task[q].provider]
  <2>1. Active(q) => task[q].provider # task[r].provider
    BY DEF RunInv, Local
  <2>2. Active(q) => task[q].provider \in Providers
    BY ActiveTypes
  <2> QED BY <2>1, <2>2 DEF Local
<1>3. MakeOf(q) /\ SaveOf(q)
  BY DEF MakeInv, SaveInv
<1>4. CASE Active(q)
  BY <1>1, <1>2, <1>3, <1>4 DEF MakeOf, SaveOf, Making, Saving, Saved
<1>5. CASE ~Active(q)
  BY <1>1, <1>3, <1>5 DEF MakeOf, SaveOf, Making, Saving, Saved, Active
<1> QED BY <1>4, <1>5

\* The decision trusts a snapshot only if there is one.
LEMMA DecideMakes ==
  ASSUME TypeInv, RunInv, StoreInv, MakeInv, NEW r \in Runs, Decide(r)
  PROVE  MakeOf(r)'
<1>1. /\ pc[r] = "decide" /\ pc'[r] = "scan" /\ plan'[r].full = MustRebuild(r)
      /\ UNCHANGED <<snapshot, task, scan, made>>
  BY DEF Decide, At, Goto, stored, TypeInv, TypeOK
<1>2. made[r] = {}
  BY <1>1 DEF MakeInv, MakeOf
<1>3. ~MustRebuild(r) => snapshot[task[r].provider] \in Trees
  <2>1. Settled(task[r].provider)
    BY <1>1, SettledAlone DEF Saving, Active
  <2>2. task[r].scope = task[r].provider /\ task[r].provider \in Providers
    BY <1>1, ActiveTypes DEF Active
  <2> QED BY <2>1, <2>2 DEF MustRebuild, StoreInv
<1> QED BY <1>1, <1>2, <1>3 DEF MakeOf, Making

\* A full run sets out to chunk what it scanned, having made nothing.
LEMMA ScanMakes ==
  ASSUME TypeInv, RunInv, MakeInv, NEW r \in Runs, Scan(r)
  PROVE  MakeOf(r)'
<1>1. /\ pc[r] = "scan" /\ scan'[r] = tree
      /\ UNCHANGED <<tree, snapshot, task, made>> /\ made[r] = {}
      /\ plan'[r].full = plan[r].full
  <2>1. /\ pc[r] = "scan" /\ scan' = [scan EXCEPT ![r] = tree]
        /\ UNCHANGED <<tree, snapshot, task, made>>
        /\ plan' = [plan EXCEPT ![r].take = Indexable(tree)] \/ plan' = plan
    BY DEF Scan, At, stored, checkout
  <2>2. plan'[r].full = plan[r].full
    BY <2>1 DEF TypeInv, TypeOK
  <2>3. made[r] = {}
    BY <2>1 DEF MakeInv, MakeOf
  <2> QED BY <2>1, <2>2, <2>3 DEF TypeInv, TypeOK
<1>2. CASE plan[r].full
  <2>1. pc'[r] = "chunk" /\ plan'[r].take = Indexable(tree)
    BY <1>2 DEF Scan, Goto, TypeInv, TypeOK
  <2>2. \A old : Work(plan'[r].full, old, scan'[r]) = Indexable(tree)
    BY <1>1, <1>2 DEF Work
  <2>3. Single({}) /\ Above({}, tree) /\ \A t : Matches(t, {}, tree, {})
    BY DEF Single, Above, Matches
  <2> QED BY <1>1, <1>2, <2>1, <2>2, <2>3 DEF MakeOf, Making
<1>3. CASE ~plan[r].full
  <2>1. pc'[r] = "compare"
    BY <1>3 DEF Scan, Goto, TypeInv, TypeOK
  <2> QED BY <1>1, <1>3, <2>1 DEF MakeOf, Making, MakeInv
<1> QED BY <1>2, <1>3

\* An incremental one sets out to chunk the differences; with none it is done.
LEMMA CompareMakes ==
  ASSUME TypeInv, RunInv, MakeInv, SaveInv, NEW r \in Runs, Compare(r)
  PROVE  MakeOf(r)' /\ SaveOf(r)'
<1> DEFINE old == snapshot[task[r].provider]
           add == Added(old, scan[r])
           rem == Removed(old, scan[r])
           mod == Modified(old, scan[r])
<1>1. pc[r] = "compare" /\ scan[r] \in Trees /\ task[r].scope = task[r].provider
  BY ActiveTypes DEF Compare, At, Active, Scanned, TypeInv
<1>2. /\ UNCHANGED <<tree, chunks, snapshot, task, scan, made>>
      /\ plan'[r] = [full |-> FALSE, drop |-> rem \cup mod,
                     take |-> (add \cup mod) \cap Supported]
      /\ pc'[r] = IF add \cup rem \cup mod = {} THEN "finish" ELSE "chunk"
  BY <1>1 DEF Compare, Goto, checkout, stored, TypeInv, TypeOK
<1>3. made[r] = {} /\ old \in Trees
  BY <1>1 DEF MakeInv, MakeOf
<1>4. Work(FALSE, old, scan[r]) = (add \cup mod) \cap Supported
  BY DEF Work
<1>5. add \cup rem \cup mod = {} => old = scan[r]
  BY <1>1, <1>3, NoDifference
<1>6. Single({}) /\ \A t : Above({}, t) /\ \A u : Matches(t, {}, u, {})
  BY DEF Single, Above, Matches
<1>7. /\ plan'[r].full = FALSE /\ plan'[r].drop = rem \cup mod
      /\ plan'[r].take = Work(FALSE, old, scan[r])
  <2> HIDE DEF old, add, rem, mod
  <2>1. plan'[r] = [full |-> FALSE, drop |-> rem \cup mod,
                    take |-> (add \cup mod) \cap Supported]
    BY <1>2
  <2>2. /\ plan'[r].full = FALSE /\ plan'[r].drop = rem \cup mod
        /\ plan'[r].take = (add \cup mod) \cap Supported
    BY <2>1
  <2> QED BY <1>4, <2>2
<1>8. SaveOf(r)'
  BY <1>2, <1>5 DEF SaveOf, Saving, Saved
<1> QED BY <1>2, <1>3, <1>6, <1>7, <1>8 DEF MakeOf, Making

\* Chunks of one more file, which nothing was made of yet.
LEMMA AddFile ==
  ASSUME NEW now \in Trees, NEW t \in Trees, NEW mk \in SUBSET Chunks, NEW fs,
         NEW f \in Files \ fs, NEW new \in SUBSET Chunks,
         \A c \in new : c.file = f /\ c.version = now[f] /\ now[f] # Absent,
         \A c, d \in new : c = d, OfFile(new, f) = Wanted(now[f]),
         t[f] # Absent, now[f] # Absent => t[f] <= now[f],
         Single(mk), Above(mk, t), \A c \in mk : c.file \in fs,
         Matches(now, mk, t, fs)
  PROVE  /\ Single(mk \cup new) /\ Above(mk \cup new, t)
         /\ \A c \in mk \cup new : c.file \in fs \cup {f}
         /\ Matches(now, mk \cup new, t, fs \cup {f})
<1>1. Single(mk \cup new)
  BY DEF Single
<1>2. Above(mk \cup new, t)
  BY DEF Above
<1>3. OfFile(mk \cup new, f) = OfFile(new, f)
  BY DEF OfFile
<1>4. \A g \in fs : OfFile(mk \cup new, g) = OfFile(mk, g)
  BY DEF OfFile
<1> QED BY <1>1, <1>2, <1>3, <1>4 DEF Matches

\* What is read of a file is what was scanned of it, or newer.
LEMMA ChunkFileMakes ==
  ASSUME TypeInv, RunInv, PastInv, MakeInv, NEW r \in Runs, NEW f \in Files,
         ChunkFile(r, f)
  PROVE  MakeOf(r)'
<1> DEFINE work == Work(plan[r].full, snapshot[task[r].provider], scan[r])
           c == [file |-> f, version |-> tree[f], name |-> task[r].name]
           new == IF tree[f] \in Chunkless \cup {Absent} THEN {} ELSE {c}
           fs == work \ plan[r].take
<1>1. /\ pc[r] = "chunk" /\ f \in plan[r].take
      /\ plan' = [plan EXCEPT ![r].take = @ \ {f}]
      /\ made' = [made EXCEPT ![r] = @ \cup new]
      /\ UNCHANGED <<tree, snapshot, pc, task, scan>>
  BY DEF ChunkFile, At, stored, checkout
<1>2. /\ Active(r) /\ Making(r) /\ Scanned(r)
      /\ scan[r] \in Trees /\ tree \in Trees /\ made[r] \in SUBSET Chunks
      /\ plan[r].take \subseteq Supported
  BY <1>1 DEF Active, Making, Scanned, TypeInv, TypeOK
<1>3. /\ plan'[r].full = plan[r].full /\ plan'[r].drop = plan[r].drop
      /\ plan'[r].take = plan[r].take \ {f} /\ made'[r] = made[r] \cup new
  BY <1>1 DEF TypeInv, TypeOK
<1>4. /\ Single(made[r]) /\ Above(made[r], scan[r])
      /\ plan[r].take \subseteq work
      /\ \A d \in made[r] : d.file \in fs
      /\ Matches(tree, made[r], scan[r], fs)
      /\ ~plan[r].full =>
           /\ snapshot[task[r].provider] \in Trees
           /\ plan[r].drop = Removed(snapshot[task[r].provider], scan[r])
                             \cup Modified(snapshot[task[r].provider], scan[r])
  BY <1>2 DEF MakeInv, MakeOf
<1>5. scan[r][f] # Absent
  <2>1. work \subseteq Present(scan[r])
    BY <1>2, MarkerAssumption DEF MarkerAssumption, Work, Indexable, Added, Modified, Present
  <2> QED BY <1>1, <1>4, <2>1 DEF Present
<1>6. tree[f] # Absent => scan[r][f] <= tree[f]
  BY <1>2 DEF PastInv, Past
<1>7. new \in SUBSET Chunks
  <2>1. task[r].name = DirName /\ f \in Supported
    BY <1>1, <1>2, ActiveTypes
  <2>2. tree[f] # Absent => tree[f] \in Versions
    BY <1>2, TreeValues
  <2> QED BY <2>1, <2>2 DEF Chunks
<1>8. /\ \A d \in new : d.file = f /\ d.version = tree[f] /\ tree[f] # Absent
      /\ \A d, e \in new : d = e
      /\ OfFile(new, f) = Wanted(tree[f])
  <2>1. CASE tree[f] \in Chunkless \cup {Absent}
    BY <2>1 DEF OfFile, Wanted
  <2>2. CASE tree[f] \notin Chunkless \cup {Absent}
    <3>1. new = {c} /\ c.file = f /\ c.version = tree[f]
      BY <2>2
    <3>2. OfFile({c}, f) = {c.version}
      BY <3>1 DEF OfFile
    <3> QED BY <2>2, <3>1, <3>2 DEF Wanted
  <2> QED BY <2>1, <2>2
<1>9. /\ Single(made'[r]) /\ Above(made'[r], scan[r])
      /\ \A d \in made'[r] : d.file \in fs \cup {f}
      /\ Matches(tree, made'[r], scan[r], fs \cup {f})
  <2> HIDE DEF work, new, c
  <2>1. f \in Files \ fs
    BY <1>1
  <2> HIDE DEF fs
  <2>2. made'[r] = made[r] \cup new
    BY <1>3
  <2>3. \A mk \in SUBSET Chunks, n \in SUBSET Chunks :
          /\ \A d \in n : d.file = f /\ d.version = tree[f] /\ tree[f] # Absent
          /\ \A d, e \in n : d = e
          /\ OfFile(n, f) = Wanted(tree[f])
          /\ Single(mk) /\ Above(mk, scan[r]) /\ \A d \in mk : d.file \in fs
          /\ Matches(tree, mk, scan[r], fs)
          => /\ Single(mk \cup n) /\ Above(mk \cup n, scan[r])
             /\ \A d \in mk \cup n : d.file \in fs \cup {f}
             /\ Matches(tree, mk \cup n, scan[r], fs \cup {f})
    BY <1>2, <1>5, <1>6, <2>1, AddFile
  <2> QED BY <1>2, <1>4, <1>7, <1>8, <2>2, <2>3
<1>10. work \ plan'[r].take = fs \cup {f}
  BY <1>1, <1>3, <1>4
<1> HIDE DEF c, new
<1> QED BY <1>1, <1>3, <1>4, <1>9, <1>10 DEF MakeOf, Making

\* The steps that save leave the index as the publication left it.
LEMMA SavesMake ==
  ASSUME Disciplined, TypeInv, RunInv, PastInv, StoreInv, MakeInv, SaveInv,
         NEW r \in Runs, Publish(r) \/ Truncate(r) \/ Fill(r) \/ Describe(r)
  PROVE  MakeOf(r)' /\ SaveOf(r)'
<1>1. /\ UNCHANGED <<tree, task, scan, plan, made>>
      /\ pc'[r] \in {"truncate", "fill", "describe", "finish"}
      /\ Active(r)
  BY DEF Publish, Truncate, Fill, Describe, At, Goto, Active, checkout, locals,
         TypeInv, TypeOK
<1>2. MakeOf(r)'
  BY <1>1 DEF MakeOf, Making
<1>3. task[r].scope = task[r].provider /\ task[r].provider \in Providers
  BY <1>1, ActiveTypes
<1>4. CASE Publish(r)
  <2>1. pc'[r] = "truncate"
    BY <1>4 DEF Publish, Goto, TypeInv, TypeOK
  <2>2. /\ Above(chunks'[task[r].provider], scan[r])
        /\ Matches(tree, chunks'[task[r].provider], scan[r], Supported)
    BY <1>4, PublishBelongs
  <2> QED BY <1>1, <1>2, <2>1, <2>2 DEF SaveOf, Saving, Saved
<1>5. CASE Truncate(r)
  <2>1. Saving(r) /\ pc'[r] = "fill" /\ chunks' = chunks
    BY <1>5 DEF Truncate, At, Goto, Saving, TypeInv, TypeOK
  <2> QED BY <1>1, <1>2, <2>1 DEF SaveInv, SaveOf, Saving, Saved
<1>6. CASE Fill(r)
  <2>1. pc'[r] = "describe" /\ snapshot'[task[r].provider] = scan[r]
    BY <1>3, <1>6 DEF Fill, At, Goto, TypeInv, TypeOK
  <2> QED BY <1>1, <1>2, <2>1 DEF SaveOf, Saving, Saved
<1>7. CASE Describe(r)
  <2>1. Saved(r) /\ pc'[r] = "finish" /\ snapshot' = snapshot
    BY <1>7 DEF Describe, At, Goto, Saved, TypeInv, TypeOK
  <2> QED BY <1>1, <1>2, <2>1 DEF SaveInv, SaveOf, Saving, Saved
<1> QED BY <1>4, <1>5, <1>6, <1>7

\* Every step of a run keeps what it has made and saved with its scan.
LEMMA ActsMake ==
  ASSUME Disciplined, TypeInv, RunInv, PastInv, StoreInv, MakeInv, SaveInv,
         NEW r \in Runs, Acts(r)
  PROVE  MakeOf(r)' /\ SaveOf(r)'
<1>1. CASE SeeChange(r) \/ SeeAge(r)
  <2>1. pc[r] = "fresh" /\ pc'[r] = "decide" /\ made' = made
    BY <1>1 DEF SeeChange, SeeAge, At, Goto, locals, TypeInv, TypeOK
  <2> QED BY <2>1 DEF MakeInv, MakeOf, SaveOf, Making, Saving, Saved
<1>2. CASE Embed(r)
  <2>1. /\ pc[r] = "chunk" /\ pc'[r] = "publish" /\ plan[r].take = {}
        /\ UNCHANGED <<tree, snapshot, task, scan, plan, made>>
    BY <1>2 DEF Embed, At, Goto, checkout, stored, locals, TypeInv, TypeOK
  <2>2. MakeOf(r)
    BY DEF MakeInv
  <2> QED BY <2>1, <2>2 DEF MakeOf, SaveOf, Making, Saving, Saved
<1>3. CASE Decide(r)
  <2>1. pc'[r] = "scan"
    BY <1>3 DEF Decide, Goto, TypeInv, TypeOK
  <2> QED BY <1>3, <2>1, DecideMakes DEF SaveOf, Saving, Saved
<1>4. CASE Scan(r)
  <2>1. pc'[r] \in {"chunk", "compare"}
    BY <1>4 DEF Scan, Goto, TypeInv, TypeOK
  <2> QED BY <1>4, <2>1, ScanMakes DEF SaveOf, Saving, Saved
<1>5. CASE Compare(r)
  BY <1>5, CompareMakes
<1>6. ASSUME NEW f \in Files, ChunkFile(r, f) PROVE MakeOf(r)' /\ SaveOf(r)'
  <2>1. pc'[r] = "chunk"
    BY <1>6 DEF ChunkFile, At
  <2> QED BY <1>6, <2>1, ChunkFileMakes DEF SaveOf, Saving, Saved
<1>7. CASE Publish(r) \/ Truncate(r) \/ Fill(r) \/ Describe(r)
  BY <1>7, SavesMake
<1>8. CASE Ends(r)
  <2>1. pc'[r] = "idle" /\ made'[r] = {}
    BY <1>8, EndsLocal
  <2> QED BY <2>1 DEF MakeOf, SaveOf, Making, Saving, Saved
<1> QED BY <1>1, <1>2, <1>3, <1>4, <1>5, <1>6, <1>7, <1>8 DEF Acts

\* Only files the chunker has a language for are chunked.
LEMMA WorkSupported ==
  ASSUME NEW full, NEW old, NEW new
  PROVE  Work(full, old, new) \subseteq Supported
BY DEF Work, Indexable

\* A change of the checkout spoils nothing that was made or published.
LEMMA ChangeMakes ==
  ASSUME Disciplined, TypeInv, PastInv, MakeInv, SaveInv, Change, NEW r \in Runs
  PROVE  MakeOf(r)' /\ SaveOf(r)'
<1> DEFINE fs == Work(plan[r].full, snapshot[task[r].provider], scan[r]) \ plan[r].take
           cs == chunks[task[r].provider]
<1>1. UNCHANGED <<chunks, snapshot, pc, task, scan, plan, made>>
  BY ChangeEffect DEF stored, locals
<1>2. \A f \in Files : Moves(f)
  BY ChangeMoves
<1>3. MakeOf(r) /\ SaveOf(r)
  BY DEF MakeInv, SaveInv
<1>4. Scanned(r) => scan[r] \in Trees /\ Past(tree, latest, scan[r])
  BY DEF TypeInv, PastInv
<1>5. Making(r) => Scanned(r)
  BY DEF Making, Scanned
<1>6. Saving(r) => Scanned(r)
  BY DEF Saving, Scanned
<1>7. Making(r) => Matches(tree', made[r], scan[r], fs)
  <2>1. fs \subseteq Supported
    BY WorkSupported
  <2>2. Making(r) => Above(made[r], scan[r]) /\ Matches(tree, made[r], scan[r], fs)
    BY <1>3 DEF MakeOf
  <2> HIDE DEF fs
  <2> QED BY <1>2, <1>4, <1>5, <2>1, <2>2, MatchesKept
<1>8. Saving(r) => Matches(tree', cs, scan[r], Supported)
  <2>1. Saving(r) => Above(cs, scan[r]) /\ Matches(tree, cs, scan[r], Supported)
    BY <1>3 DEF SaveOf
  <2> HIDE DEF cs
  <2> QED BY <1>2, <1>4, <1>6, <2>1, MatchesKept
<1>9. MakeOf(r)'
  BY <1>1, <1>3, <1>7 DEF MakeOf, Making
<1>10. SaveOf(r)'
  BY <1>1, <1>3, <1>8 DEF SaveOf, Saving, Saved
<1> QED BY <1>9, <1>10

\* A run that starts has made nothing, and disturbs no other.
LEMMA StartMakes ==
  ASSUME Disciplined, TypeInv, MakeInv, SaveInv,
         NEW q \in Runs, NEW p \in Providers, Starts(q, p), NEW r \in Runs
  PROVE  MakeOf(r)' /\ SaveOf(r)'
<1>1. /\ UNCHANGED <<tree, chunks, snapshot, scan, plan, made>>
      /\ pc[q] = "idle" /\ pc'[q] \in {"decide", "fresh"}
      /\ q # r => pc'[r] = pc[r] /\ task'[r] = task[r]
  BY StartsAlone
<1>2. MakeOf(r) /\ SaveOf(r)
  BY DEF MakeInv, SaveInv
<1>3. CASE q = r
  BY <1>1, <1>2, <1>3 DEF MakeOf, SaveOf, Making, Saving, Saved
<1>4. CASE q # r
  BY <1>1, <1>2, <1>4 DEF MakeOf, SaveOf, Making, Saving, Saved
<1> QED BY <1>3, <1>4

\* Every step keeps what all runs have made and saved with their scans.
LEMMA MakeSaveStep ==
  ASSUME Disciplined, TypeInv, RunInv, PastInv, StoreInv, MakeInv, SaveInv, Next
  PROVE  MakeInv' /\ SaveInv'
<1> SUFFICES ASSUME NEW r \in Runs PROVE MakeOf(r)' /\ SaveOf(r)'
  BY DEF MakeInv, SaveInv
<1>1. CASE Change
  BY <1>1, ChangeMakes
<1>2. ASSUME NEW q \in Runs, NEW p \in Providers, Starts(q, p)
      PROVE  MakeOf(r)' /\ SaveOf(r)'
  BY <1>2, StartMakes
<1>3. ASSUME NEW q \in Runs, Acts(q) PROVE MakeOf(r)' /\ SaveOf(r)'
  <2>1. CASE q = r
    BY <1>3, <2>1, ActsMake
  <2>2. CASE q # r
    BY <1>3, <2>2, ActsLocal, OthersKept
  <2> QED BY <2>1, <2>2
<1> QED BY <1>1, <1>2, <1>3, DisciplinedCases

----------------------------------------------------------------------------
(* The identity of an index.                                                  *)

\* A run that finishes in the checkout it started from has scanned, saved and
\* indexed that checkout.
LEMMA FinishExact ==
  ASSUME TypeInv, RunInv, PastInv, StoreInv, SaveInv, NEW r \in Runs,
         pc[r] = "finish", tree = task[r].start
  PROVE  ContentsIn(chunks[task[r].provider]) = ContentsOf(tree)
<1> DEFINE p == task[r].provider
<1>1. /\ Active(r) /\ Scanned(r) /\ Saved(r) /\ ~Saving(r)
      /\ scan[r] \in Trees /\ tree \in Trees
  BY DEF Active, Scanned, Saved, Saving, TypeInv, TypeOK
<1>2. p \in Providers /\ chunks[p] \in SUBSET Chunks
  BY <1>1, ActiveTypes
<1>3. scan[r] = tree
  <2>1. \A f \in Files : scan[r][f] = tree[f]
    BY <1>1 DEF PastInv
  <2> QED BY <1>1, <2>1 DEF Trees
<1>4. snapshot[p] = tree
  BY <1>1, <1>3 DEF SaveInv, SaveOf
<1>5. Settled(p)
  BY <1>1, SettledAlone
<1>6. tree # Missing
  BY <1>1, MarkerAssumption DEF MarkerAssumption
<1>7. Matches(tree, chunks[p], tree, Supported)
  BY <1>2, <1>4, <1>5, <1>6 DEF StoreInv
<1> QED BY <1>1, <1>2, <1>7, MatchesExactly

\* Whatever ends a run, the identity it leaves is exact if it is ready.
LEMMA EndsExact ==
  ASSUME TypeInv, RunInv, PastInv, StoreInv, SaveInv, ReadyInv, NEW r \in Runs,
         Ends(r)
  PROVE  Exact(chunks[task[r].provider], status'[task[r].provider])
<1> DEFINE p == task[r].provider
<1>1. Local(r)
  BY EndsLocal
<1>2. p \in Providers
  BY <1>1, ActiveTypes DEF Local
<1>3. \A s : SetStatus(p, s) => status'[p] = s
  BY <1>2 DEF SetStatus, TypeInv, TypeOK
<1>4. CASE SkipFresh(r)
  <2>1. pc[r] = "fresh" /\ SetStatus(p, task[r].before)
    BY <1>4 DEF SkipFresh, At
  <2> QED BY <1>3, <2>1 DEF ReadyInv
<1>5. CASE Finish(r)
  <2>1. /\ pc[r] = "finish"
        /\ SetStatus(p, IF tree = task[r].start THEN Ready(tree) ELSE Plain("changed"))
    BY <1>5 DEF Finish, At
  <2>2. status'[p] = IF tree = task[r].start THEN Ready(tree) ELSE Plain("changed")
    BY <1>3, <2>1
  <2>3. CASE tree = task[r].start
    <3>1. status'[p].of = tree
      BY <2>2, <2>3 DEF Ready
    <3> QED BY <2>1, <2>3, <3>1, FinishExact DEF Exact
  <2>4. CASE tree # task[r].start
    <3>1. status'[p].state = "changed"
      BY <2>2, <2>4 DEF Plain
    <3> QED BY <3>1 DEF Exact
  <2> QED BY <2>3, <2>4
<1>6. CASE Crash(r)
  <2>1. status' = status /\ status[p].state # "ready"
    BY <1>1, <1>6 DEF Crash, Local, RunInv
  <2> QED BY <2>1 DEF Exact
<1>7. CASE Refuse(r) \/ Fail(r) \/ Cancel(r) \/ SaveFails(r)
  <2>1. SetStatus(p, Plain("error")) \/ SetStatus(p, Plain("cancelled"))
    BY <1>7 DEF Refuse, Fail, Cancel, SaveFails
  <2>2. status'[p] = Plain("error") \/ status'[p] = Plain("cancelled")
    BY <1>3, <2>1
  <2>3. status'[p].state # "ready"
    BY <2>2 DEF Plain
  <2> QED BY <2>3 DEF Exact
<1> QED BY <1>4, <1>5, <1>6, <1>7 DEF Ends

\* A run is past its freshness check once it has taken a step, and does not
\* end by any step but one of Ends.
LEMMA GoesOn ==
  ASSUME TypeInv, NEW r \in Runs, Acts(r), ~Ends(r)
  PROVE  pc'[r] # "idle" /\ pc'[r] # "fresh"
<1> USE DEF TypeInv, TypeOK, At, Goto, locals
<1>1. CASE SeeChange(r) \/ SeeAge(r) \/ Decide(r) \/ Embed(r)
  BY <1>1 DEF SeeChange, SeeAge, Decide, Embed
<1>2. CASE Scan(r)
  BY <1>2 DEF Scan
<1>3. CASE Compare(r)
  BY <1>3 DEF Compare
<1>4. CASE \E f \in Files : ChunkFile(r, f)
  BY <1>4 DEF ChunkFile
<1>5. CASE Publish(r)
  BY <1>5 DEF Publish
<1>6. CASE Truncate(r) \/ Fill(r) \/ Describe(r)
  BY <1>6 DEF Truncate, Fill, Describe
<1> QED BY <1>1, <1>2, <1>3, <1>4, <1>5, <1>6 DEF Acts

\* No step makes an identity ready, or keeps it so, over an index that is not exact.
LEMMA ReadyStep ==
  ASSUME Disciplined, TypeInv, RunInv, PastInv, StoreInv, MakeInv, SaveInv,
         ReadyInv, Next
  PROVE  ReadyInv'
<1>1. CASE Change
  <2>1. UNCHANGED <<chunks, status, pc, task>>
    BY <1>1, ChangeEffect DEF stored, locals
  <2> QED BY <2>1 DEF ReadyInv
<1>2. ASSUME NEW r \in Runs, NEW p \in Providers, Starts(r, p) PROVE ReadyInv'
  <2>1. /\ chunks' = chunks
        /\ \A q \in Runs : q # r => pc'[q] = pc[q] /\ task'[q] = task[q]
        /\ task'[r].provider = p /\ status'[p].state # "ready"
        /\ \A o \in Providers : o # p => status'[o] = status[o]
        /\ pc'[r] = "fresh" => task'[r].before = status[p]
    BY <1>2, StartsAlone
  <2>2. \A o \in Providers : Exact(chunks'[o], status'[o])
    BY <2>1 DEF ReadyInv, Exact
  <2>3. ASSUME NEW q \in Runs, pc'[q] = "fresh"
        PROVE  Exact(chunks'[task'[q].provider], task'[q].before)
    <3>1. CASE q = r
      BY <2>1, <2>3, <3>1 DEF ReadyInv
    <3>2. CASE q # r
      BY <2>1, <2>3, <3>2 DEF ReadyInv
    <3> QED BY <3>1, <3>2
  <2> QED BY <2>2, <2>3 DEF ReadyInv
<1>3. ASSUME NEW r \in Runs, Acts(r) PROVE ReadyInv'
  <2> DEFINE p == task[r].provider
  <2>1. /\ Local(r) /\ Active(r)
        /\ \A q \in Runs : q # r => pc'[q] = pc[q] /\ task'[q] = task[q]
        /\ \A o \in Providers : o # p => chunks'[o] = chunks[o] /\ status'[o] = status[o]
        /\ pc'[r] # "idle" => status' = status
    BY <1>3, ActsLocal DEF Local
  <2>2. pc'[r] # "fresh"
    BY <1>3, GoesOn, EndsLocal
  <2>3. Exact(chunks'[p], status'[p])
    <3>1. CASE Ends(r)
      BY <3>1, EndsLocal, EndsExact
    <3>2. CASE ~Ends(r)
      <4>1. status' = status
        BY <1>3, <2>1, <3>2, GoesOn
      <4>2. status[p].state # "ready"
        BY <2>1 DEF RunInv
      <4> QED BY <4>1, <4>2 DEF Exact
    <3> QED BY <3>1, <3>2
  <2>4. \A o \in Providers : Exact(chunks'[o], status'[o])
    BY <2>1, <2>3 DEF ReadyInv
  <2>5. ASSUME NEW q \in Runs, pc'[q] = "fresh"
        PROVE  Exact(chunks'[task'[q].provider], task'[q].before)
    <3>1. q # r /\ pc[q] = "fresh" /\ task'[q] = task[q] /\ Active(q)
      BY <2>1, <2>2, <2>5 DEF Active
    <3>2. task[q].provider # p /\ task[q].provider \in Providers
      BY <2>1, <3>1, ActiveTypes DEF RunInv
    <3>3. chunks'[task[q].provider] = chunks[task[q].provider]
      BY <2>1, <3>2
    <3> QED BY <3>1, <3>3 DEF ReadyInv
  <2> QED BY <2>4, <2>5 DEF ReadyInv
<1> QED BY <1>1, <1>2, <1>3, DisciplinedCases

----------------------------------------------------------------------------
(* The theorems.                                                              *)

\* The invariant holds initially, and every step keeps it.
LEMMA InitIndexInv == Init => IndexInv
<1> SUFFICES ASSUME Init PROVE IndexInv
  OBVIOUS
<1>1. /\ chunks = [p \in Providers |-> {}]
      /\ snapshot = [p \in Providers |-> Missing]
      /\ status = [p \in Providers |-> Plain("none")]
      /\ pc = [r \in Runs |-> "idle"] /\ made = [r \in Runs |-> {}]
  BY DEF Init
<1>2. TypeInv
  BY InitType
<1>3. RunInv
  BY <1>1 DEF RunInv, Active
<1>4. PastInv
  BY <1>1, MarkerAssumption DEF MarkerAssumption, PastInv, Active, Scanned
<1>5. StoreInv
  BY <1>1 DEF StoreInv, Single
<1>6. MakeInv
  BY <1>1 DEF MakeInv, MakeOf, Making
<1>7. SaveInv
  BY <1>1 DEF SaveInv, SaveOf, Saving, Saved
<1>8. ReadyInv
  BY <1>1 DEF ReadyInv, Exact, Plain
<1> QED BY <1>2, <1>3, <1>4, <1>5, <1>6, <1>7, <1>8 DEF IndexInv

\* The induction step: one lemma for each part.
LEMMA IndexInvStep ==
  ASSUME Disciplined, IndexInv, [Next]_vars
  PROVE  IndexInv'
<1>1. CASE Next
  BY <1>1, NextType, RunStep, PastStep, StoreStep, MakeSaveStep, ReadyStep DEF IndexInv
<1>2. CASE UNCHANGED vars
  <2> USE <1>2 DEF vars
  <2>1. TypeInv'
    BY NextType DEF IndexInv
  <2>2. RunInv'
    BY DEF IndexInv, RunInv, Active
  <2>3. PastInv'
    BY DEF IndexInv, PastInv, Active, Scanned
  <2>4. StoreInv'
    BY DEF IndexInv, StoreInv, Settled, Saving
  <2>5. MakeInv'
    BY DEF IndexInv, MakeInv, MakeOf, Making
  <2>6. SaveInv'
    BY DEF IndexInv, SaveInv, SaveOf, Saving, Saved
  <2>7. ReadyInv'
    BY DEF IndexInv, ReadyInv
  <2> QED BY <2>1, <2>2, <2>3, <2>4, <2>5, <2>6, <2>7 DEF IndexInv
<1> QED BY <1>1, <1>2

\* The order in which a run reads the checkout, publishes and saves keeps every
\* index with its snapshot, for any files, versions, runs and faults, whichever
\* step a run stops at and whenever the checkout changes.
THEOREM IndexInvHolds ==
  ASSUME Disciplined
  PROVE  Spec => []IndexInv
<1>1. Init => IndexInv
  BY InitIndexInv
<1>2. IndexInv /\ [Next]_vars => IndexInv'
  BY IndexInvStep
<1> QED BY <1>1, <1>2, PTL DEF Spec

\* A settled index that has a snapshot belongs to it.
LEMMA TrustedBelongs ==
  ASSUME IndexInv, NEW p \in Providers, Trusted(p)
  PROVE  Above(chunks[p], snapshot[p])
<1>1. Settled(p) /\ snapshot[p] # Missing
  BY MarkerAssumption DEF MarkerAssumption, Trusted
<1> QED BY <1>1 DEF IndexInv, StoreInv

\* No index has two versions of a file, or chunks of a file that its snapshot
\* does not list and later runs would never drop.
THEOREM IndexFollowsHolds ==
  ASSUME Disciplined
  PROVE  Spec => []IndexFollowsSnapshot
<1>1. IndexInv => IndexFollowsSnapshot
  BY TrustedBelongs
     DEF IndexInv, StoreInv, IndexFollowsSnapshot, OneVersion, Single, Listed, Above
<1> QED BY <1>1, IndexInvHolds, PTL

\* No index is behind its snapshot: an edit during a run is always seen by the
\* next one.
THEOREM NeverBehindHolds ==
  ASSUME Disciplined
  PROVE  Spec => []NeverBehind
<1>1. IndexInv => NeverBehind
  BY TrustedBelongs DEF NeverBehind, Above
<1> QED BY <1>1, IndexInvHolds, PTL

\* The identity of an index is ready for a checkout only while the index holds
\* exactly the chunks of that checkout.
THEOREM ReadyMeansExactHolds ==
  ASSUME Disciplined
  PROVE  Spec => []ReadyMeansExact
<1>1. IndexInv => ReadyMeansExact
  BY DEF IndexInv, ReadyInv, ReadyMeansExact, Exact, Contents, ContentsIn
<1> QED BY <1>1, IndexInvHolds, PTL

----------------------------------------------------------------------------
(* Rebuilds, whatever mishaps there are.                                      *)

\* A run has its index and its snapshot to itself.
LEMMA OwnStep ==
  ASSUME Lone, TypeInv, OwnInv, Next
  PROVE  OwnInv'
<1>1. CASE Change
  BY <1>1, ChangeEffect DEF OwnInv, Active, locals
<1>2. ASSUME NEW r \in Runs, NEW p \in Providers, Starts(r, p) PROVE OwnInv'
  BY <1>2, StartsOwn DEF OwnInv, Active
<1>3. ASSUME NEW r \in Runs, Acts(r) PROVE OwnInv'
  <2>1. Local(r)
    BY <1>3, OwnLocal
  <2> QED BY <2>1 DEF OwnInv, Active, Local
<1>4. ASSUME NEW r \in Runs, NEW f \in Files, SkipFile(r, f) PROVE OwnInv'
  BY <1>4 DEF SkipFile, OwnInv, Active
<1>5. ASSUME NEW p \in Providers, Clear(p) PROVE OwnInv'
  BY <1>5 DEF Clear, OwnInv, Active, locals
<1> QED BY <1>1, <1>2, <1>3, <1>4, <1>5, NextCases DEF Acts

\* A rebuild chunks each file of its scan once, in any version, or skips it.
LEMMA RebuildChunks ==
  ASSUME TypeInv, NEW r \in Runs, RebuildOf(r), NEW f \in Files,
         ChunkFile(r, f) \/ SkipFile(r, f)
  PROVE  RebuildOf(r)'
<1>1. /\ pc' = pc /\ pc[r] = "chunk" /\ UNCHANGED <<scan, chunks, snapshot, task>>
      /\ f \in plan[r].take /\ plan' = [plan EXCEPT ![r].take = @ \ {f}]
  BY DEF ChunkFile, SkipFile, At, stored
<1>2. plan'[r].full = plan[r].full /\ plan'[r].take = plan[r].take \ {f}
  BY <1>1 DEF TypeInv, TypeOK
<1>3. PICK c : c.file = f /\ made'[r] \in {made[r], made[r] \cup {c}}
  <2> DEFINE c == [file |-> f, version |-> tree[f], name |-> task[r].name]
  <2>1. made'[r] \in {made[r], made[r] \cup {c}}
    <3>1. CASE ChunkFile(r, f)
      <4>1. made' = [made EXCEPT ![r] = @ \cup
                       (IF tree[f] \in Chunkless \cup {Absent} THEN {} ELSE {c})]
        BY <3>1 DEF ChunkFile
      <4> HIDE DEF c
      <4> QED BY <4>1 DEF TypeInv, TypeOK
    <3>2. CASE SkipFile(r, f)
      BY <3>2 DEF SkipFile
    <3> QED BY <3>1, <3>2
  <2>2. c.file = f
    OBVIOUS
  <2> HIDE DEF c
  <2> QED BY <2>1, <2>2
<1>4. ASSUME plan[r].full
      PROVE  /\ Single(made'[r]) /\ Among(made'[r], scan[r])
             /\ plan'[r].take \subseteq Present(scan[r])
             /\ \A d \in made'[r] : d.file \notin plan'[r].take
  <2>1. /\ Single(made[r]) /\ Among(made[r], scan[r])
        /\ plan[r].take \subseteq Present(scan[r])
        /\ \A d \in made[r] : d.file \notin plan[r].take
    BY <1>1, <1>4 DEF RebuildOf, Making
  <2>2. scan[r][f] # Absent
    BY <1>1, <2>1 DEF Present
  <2> QED BY <1>1, <1>2, <1>3, <2>1, <2>2 DEF Single, Among
<1> QED BY <1>1, <1>2, <1>4 DEF RebuildOf, Making, Saving, Saved

\* Every other step of a run leads a rebuild from its scan to its snapshot.
LEMMA RebuildActs ==
  ASSUME TypeInv, OwnInv, NEW r \in Runs, RebuildOf(r), Acts(r)
  PROVE  RebuildOf(r)'
<1> USE DEF At, Goto, Making, Saving, Saved
<1>1. Active(r) => task[r].scope = task[r].provider /\ task[r].provider \in Providers
  BY DEF OwnInv, Active, TypeInv, TypeOK, Tasks
<1>2. CASE SeeChange(r) \/ SeeAge(r)
  <2>1. pc[r] = "fresh" /\ pc'[r] = "decide" /\ made' = made
    BY <1>2 DEF SeeChange, SeeAge, locals, TypeInv, TypeOK
  <2> QED BY <2>1 DEF RebuildOf
<1>3. CASE Embed(r)
  <2>1. /\ pc[r] = "chunk" /\ pc'[r] = "publish" /\ UNCHANGED <<scan, plan, made>>
    BY <1>3 DEF Embed, locals, TypeInv, TypeOK
  <2> QED BY <2>1 DEF RebuildOf
<1>4. CASE Decide(r)
  <2>1. pc[r] = "decide" /\ pc'[r] = "scan" /\ made' = made
    BY <1>4 DEF Decide, TypeInv, TypeOK
  <2> QED BY <2>1 DEF RebuildOf
<1>5. CASE Scan(r)
  <2>1. pc[r] = "scan" /\ made' = made /\ scan'[r] = tree /\ made[r] = {}
    BY <1>5 DEF Scan, TypeInv, TypeOK, RebuildOf
  <2>2. CASE plan[r].full
    <3>1. pc'[r] = "chunk" /\ plan' = [plan EXCEPT ![r].take = Indexable(tree)]
      BY <1>5, <2>2 DEF Scan, TypeInv, TypeOK
    <3>2. plan'[r].take = Indexable(tree)
      BY <3>1 DEF TypeInv, TypeOK
    <3> QED BY <2>1, <3>1, <3>2 DEF RebuildOf, Single, Among, Indexable
  <2>3. CASE ~plan[r].full
    <3>1. pc'[r] = "compare"
      BY <1>5, <2>3 DEF Scan, TypeInv, TypeOK
    <3> QED BY <2>1, <3>1 DEF RebuildOf
  <2> QED BY <2>2, <2>3
<1>6. CASE Compare(r)
  <2>1. pc'[r] \in {"finish", "chunk"} /\ ~plan'[r].full
    BY <1>6 DEF Compare, TypeInv, TypeOK
  <2> QED BY <2>1 DEF RebuildOf
<1>7. CASE Publish(r)
  <2>1. /\ pc[r] = "publish" /\ pc'[r] = "truncate"
        /\ UNCHANGED <<scan, plan, made, task>>
    BY <1>7 DEF Publish, locals, TypeInv, TypeOK
  <2>2. plan[r].full => chunks'[task[r].provider] = made[r]
    BY <1>1, <1>7 DEF Publish, TypeInv, TypeOK, Active
  <2> QED BY <2>1, <2>2 DEF RebuildOf
<1>8. CASE \E f \in Files : ChunkFile(r, f)
  BY <1>8, RebuildChunks
<1>9. CASE Truncate(r)
  <2>1. /\ pc[r] = "truncate" /\ pc'[r] = "fill"
        /\ UNCHANGED <<scan, plan, made, task, chunks>>
    BY <1>9 DEF Truncate, locals, TypeInv, TypeOK
  <2> QED BY <2>1 DEF RebuildOf
<1>10. CASE Fill(r)
  <2>1. /\ pc[r] = "fill" /\ pc'[r] = "describe"
        /\ UNCHANGED <<scan, plan, made, task, chunks>>
    BY <1>10 DEF Fill, locals, TypeInv, TypeOK
  <2>2. snapshot'[task[r].provider] = scan[r]
    BY <1>1, <1>10 DEF Fill, TypeInv, TypeOK, Active
  <2> QED BY <2>1, <2>2 DEF RebuildOf
<1>11. CASE Describe(r)
  <2>1. /\ pc[r] = "describe" /\ pc'[r] = "finish"
        /\ UNCHANGED <<scan, plan, made, task, chunks, snapshot>>
    BY <1>11 DEF Describe, locals, TypeInv, TypeOK
  <2> QED BY <2>1 DEF RebuildOf
<1>12. CASE Ends(r)
  <2>1. pc'[r] = "idle" /\ made'[r] = {}
    BY <1>12, EndsLocal
  <2> QED BY <2>1 DEF RebuildOf
<1> QED BY <1>2, <1>3, <1>4, <1>5, <1>6, <1>7, <1>8, <1>9, <1>10, <1>11, <1>12 DEF Acts

\* What the others do leaves a rebuild alone.
LEMMA RebuildOthers ==
  ASSUME TypeInv, OwnInv, NEW r \in Runs, NEW q \in Runs, q # r, RebuildOf(q), Local(r)
  PROVE  RebuildOf(q)'
<1>1. /\ pc'[q] = pc[q] /\ task'[q] = task[q] /\ scan'[q] = scan[q]
      /\ plan'[q] = plan[q] /\ made'[q] = made[q]
  BY DEF Local
<1>2. Active(q) => /\ chunks'[task[q].provider] = chunks[task[q].provider]
                   /\ snapshot'[task[q].provider] = snapshot[task[q].provider]
  <2>1. Active(q) => task[q].provider \in Providers /\ task[q].provider # task[r].provider
    BY DEF OwnInv, Local, Active, TypeInv, TypeOK, Tasks
  <2> QED BY <2>1 DEF Local
<1> QED BY <1>1, <1>2 DEF RebuildOf, Making, Saving, Saved, Active

LEMMA RepairStep ==
  ASSUME Lone, RepairInv, [Next]_vars
  PROVE  RepairInv'
<1>1. TypeInv /\ OwnInv /\ \A r \in Runs : RebuildOf(r)
  BY DEF RepairInv
<1>2. TypeInv'
  BY <1>1, NextType
<1>3. OwnInv'
  <2>1. CASE UNCHANGED vars
    BY <1>1, <2>1 DEF vars, OwnInv, Active
  <2> QED BY <1>1, <2>1, OwnStep
<1>4. ASSUME NEW q \in Runs PROVE RebuildOf(q)'
  <2>1. CASE UNCHANGED vars
    BY <1>1, <2>1 DEF vars, RebuildOf, Making, Saving, Saved
  <2>2. CASE Change
    BY <1>1, <2>2, ChangeEffect DEF stored, locals, RebuildOf, Making, Saving, Saved
  <2>3. ASSUME NEW r \in Runs, NEW p \in Providers, Starts(r, p) PROVE RebuildOf(q)'
    <3>1. /\ UNCHANGED <<chunks, snapshot, scan, plan, made>>
          /\ pc[r] = "idle" /\ pc'[r] \in {"decide", "fresh"}
          /\ q # r => pc'[q] = pc[q] /\ task'[q] = task[q]
      BY <1>1, <2>3, StartsOwn
    <3> QED BY <1>1, <3>1 DEF RebuildOf, Making, Saving, Saved
  <2>4. ASSUME NEW r \in Runs, Acts(r) PROVE RebuildOf(q)'
    BY <1>1, <2>4, OwnLocal, RebuildActs, RebuildOthers
  <2>5. ASSUME NEW r \in Runs, NEW f \in Files, SkipFile(r, f) PROVE RebuildOf(q)'
    <3>1. CASE q = r
      BY <1>1, <2>5, <3>1, RebuildChunks
    <3>2. CASE q # r
      <4>1. /\ UNCHANGED <<chunks, snapshot, scan, made, pc, task>>
            /\ plan'[q] = plan[q]
        BY <1>1, <2>5, <3>2 DEF SkipFile, stored, TypeInv, TypeOK
      <4> QED BY <1>1, <4>1 DEF RebuildOf, Making, Saving, Saved
    <3> QED BY <3>1, <3>2
  <2>6. ASSUME NEW p \in Providers, Clear(p) PROVE RebuildOf(q)'
    BY <1>1, <2>6 DEF Clear, locals, RebuildOf, Making, Saving, Saved
  <2> QED BY <1>1, <2>1, <2>2, <2>3, <2>4, <2>5, <2>6, NextCases DEF Acts
<1> QED BY <1>2, <1>3, <1>4 DEF RepairInv

\* A rebuild repairs its index whatever went before it and whatever goes wrong
\* during it - lost and torn snapshots, cleared indexes, files that cannot be
\* read or go back to an old content, chunks of other project names - as long
\* as no other run works on the index or its snapshot at the same time
\* (incremental_indexer.py _full_index).
THEOREM RebuildRepairsHolds ==
  ASSUME Lone
  PROVE  Spec => []RebuildRepairs
<1>1. Init => RepairInv
  <2> SUFFICES ASSUME Init PROVE RepairInv
    OBVIOUS
  <2>1. pc = [r \in Runs |-> "idle"] /\ made = [r \in Runs |-> {}]
    BY DEF Init
  <2> QED BY <2>1, InitType
      DEF RepairInv, OwnInv, Active, RebuildOf, Making, Saving, Saved
<1>2. RepairInv /\ [Next]_vars => RepairInv'
  BY RepairStep
<1>3. RepairInv => RebuildRepairs
  <2> SUFFICES ASSUME RepairInv, NEW r \in Runs, pc[r] = "finish", plan[r].full
               PROVE  Rebuilt(r)
    BY DEF RebuildRepairs, At
  <2>1. RebuildOf(r) /\ task[r].scope = task[r].provider
    BY DEF RepairInv, OwnInv, Active
  <2> QED BY <2>1 DEF RebuildOf, Rebuilt, Saved, Single, OneVersion, Among
<1> QED BY <1>1, <1>2, <1>3, PTL DEF Spec

=============================================================================
