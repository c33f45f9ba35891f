-------------------------- MODULE IndexJobsProofs --------------------------
(***************************************************************************)
(* Proofs about IndexJobs: that the job in the slot and the flag of the    *)
(* background reindex are true of the threads in every deployment, and     *)
(* that in a sequential one a single run indexes at a time and             *)
(* project_info.json is true.                                              *)
(***************************************************************************)
EXTENDS IndexJobsInvariant, TLAPS

\* The constants, and what they make of the sets of runners.
LEMMA Sets ==
  /\ MaxJobs \in Nat /\ MaxSource \in Nat
  /\ Jobs \subseteq Runners /\ Calls \subseteq Runners /\ Bgs \subseteq Runners
  /\ Jobs \cap Calls = {} /\ Jobs \cap Bgs = {} /\ Calls \cap Bgs = {}
  /\ Runners = Jobs \cup Bgs \cup Calls
  /\ Jobs = 1..MaxJobs
  /\ None \notin 0..MaxSource /\ None \notin {"ok", "skipped", "failed", "cancelled"}
BY JobsAssumption DEF JobsAssumption, Jobs, Runners

-----------------------------------------------------------------------------
(* Types.                                                                  *)

Ats == {"off", "enter", "pend", "index", "write", "settle", "leave"}
Outs == {None, "ok", "skipped", "failed", "cancelled"}
RunType == [at : Ats, target : Targets \cup {None}, start : Versions,
            seen : Versions, before : Identities, out : Outs]
CallType == [at : {"idle", "asked", "registered"}, target : Targets \cup {None}]

\* The values that steps write have their types.
LEMMA Values ==
  /\ NoRun \in RunType
  /\ NoCall \in CallType
  /\ \A s \in States : Plain(s) \in Identities
  /\ \A v \in Versions : Ready(v) \in Identities
  /\ None \in Versions
  /\ \A v \in 0..MaxSource : v \in Versions
BY DEF NoRun, NoCall, RunType, CallType, Plain, Ready, Identities, States,
       Versions, Ats, Outs

\* The type of a run is that of each of its fields.
LEMMA RunFields ==
  ASSUME NEW r \in RunType
  PROVE  /\ r.at \in Ats /\ r.target \in Targets \cup {None}
         /\ r.start \in Versions /\ r.seen \in Versions
         /\ r.before \in Identities /\ r.out \in Outs
         /\ \A a \in Ats : [r EXCEPT !.at = a] \in RunType
         /\ \A v \in Versions : [r EXCEPT !.start = v] \in RunType
         /\ \A v \in Versions : [r EXCEPT !.seen = v] \in RunType
         /\ \A i \in Identities : [r EXCEPT !.before = i] \in RunType
         /\ \A o \in Outs : [r EXCEPT !.out = o] \in RunType
BY DEF RunType

\* The variables have their types at first.
LEMMA TypeInit == Init => TypeOK
<1> SUFFICES ASSUME Init PROVE TypeOK
  OBVIOUS
<1>1. source \in 0..MaxSource /\ job.id \in 0..MaxJobs
  BY Sets DEF Init, NoJob
<1>2. run \in [Runners -> RunType] /\ call \in [Calls -> CallType]
  BY Values DEF Init
<1>3. identity \in [Targets -> Identities]
  BY Values DEF Init, States
<1>4. index \in [Targets -> [of : Versions, whole : BOOLEAN]]
  BY Values DEF Init
<1> QED
  BY <1>1, <1>2, <1>3, <1>4 DEF Init, TypeOK, NoJob, RunType, CallType, Ats, Outs

\* The type invariant with the sets above.
LEMMA TypeParts ==
  TypeOK <=>
    /\ mode \in Modes
    /\ source \in 0..MaxSource
    /\ job \in [id : 0..MaxJobs, target : Targets \cup {None}, cancel : BOOLEAN,
                status : {"none", "indexing", "completed", "failed", "cancelled"}]
    /\ guard \in [active : BOOLEAN, overdue : BOOLEAN, reclaimed : BOOLEAN]
    /\ call \in [Calls -> CallType]
    /\ run \in [Runners -> RunType]
    /\ identity \in [Targets -> Identities]
    /\ index \in [Targets -> [of : Versions, whole : BOOLEAN]]
    /\ crashed \in BOOLEAN
BY DEF TypeOK, CallType, RunType, Ats, Outs

\* A run that is changed keeps its type.
LEMMA RunSet ==
  ASSUME run \in [Runners -> RunType], NEW x \in Runners, NEW r \in RunType
  PROVE  [run EXCEPT ![x] = r] \in [Runners -> RunType]
OBVIOUS

\* Tool calls keep the types.
LEMMA TypeCall ==
  ASSUME TypeOK, NEW c \in Calls, CallStep(c)
  PROVE  TypeOK'
<1> USE Sets
<1>1. ASSUME NEW t \in Targets, Ask(c, t) PROVE TypeOK'
  BY <1>1 DEF TypeOK, Ask, Goto
<1>2. ASSUME NEW t \in Targets, SearchBlocking(c, t) PROVE TypeOK'
  <2>1. run' \in [Runners -> RunType]
    <3>1. [NoRun EXCEPT !.at = "enter", !.target = t] \in RunType
      BY Values DEF NoRun, RunType, Ats
    <3> QED BY <3>1, <1>2, TypeParts DEF SearchBlocking
  <2> QED BY <2>1, <1>2, TypeParts DEF SearchBlocking, TypeOK, RunType, Ats, Outs
<1>3. ASSUME NEW t \in Targets, Clear(c, t) PROVE TypeOK'
  BY <1>3, Values DEF TypeOK, Clear
<1>4. ASSUME NEW t \in Targets, NEW b \in Bgs, Dispatch(c, b, t) PROVE TypeOK'
  <2>1. run' \in [Runners -> RunType]
    <3>1. [NoRun EXCEPT !.at = "enter", !.target = t] \in RunType
      BY Values DEF NoRun, RunType, Ats
    <3> QED BY <3>1, <1>4, TypeParts DEF Dispatch
  <2>2. guard' \in [active : BOOLEAN, overdue : BOOLEAN, reclaimed : BOOLEAN]
    BY <1>4 DEF Dispatch, TypeOK
  <2> QED BY <2>1, <2>2, <1>4 DEF Dispatch, TypeOK, RunType, Ats, Outs
<1>5. CASE Register(c)
  <2>1. call[c].target \in Targets \cup {None}
    BY DEF TypeOK
  <2>2. job.id \in 0..MaxJobs /\ job.id + 1 \in 0..MaxJobs
    BY <1>5 DEF TypeOK, Register
  <2> QED BY <2>1, <2>2, <1>5 DEF Register, Goto, TypeOK
<1>6. CASE TurnAway(c)
  BY <1>6 DEF TurnAway, Goto, TypeOK
<1>7. CASE Launch(c)
  <2>1. call[c].target \in Targets \cup {None}
    BY DEF TypeOK
  <2>2. Plain("indexing") \in Identities
    BY Values DEF States
  <2>3. identity' \in [Targets -> Identities]
    BY <1>7, <2>2 DEF Launch, Persist, TypeOK
  <2>4. PICK start \in Captures :
          run' = [run EXCEPT ![job.id] =
             [NoRun EXCEPT !.at = "index", !.target = call[c].target, !.start = start]]
    BY <1>7 DEF Launch
  <2>5. start \in Versions
    BY DEF TypeOK, Captures, Versions
  <2>6. [NoRun EXCEPT !.at = "index", !.target = call[c].target, !.start = start]
          \in RunType
    BY <2>1, <2>5, Values DEF NoRun, RunType, Ats
  <2>7. run' \in [Runners -> RunType]
    BY <2>4, <2>6, TypeParts
  <2> QED BY <2>3, <2>7, <1>7 DEF Launch, Goto, TypeOK, RunType, Ats, Outs
<1>8. CASE LaunchRaises(c)
  BY <1>8 DEF LaunchRaises, Goto, TypeOK
<1>9. CASE Cancel(c)
  BY <1>9 DEF Cancel, TypeOK
<1> QED
  BY <1>1, <1>2, <1>3, <1>4, <1>5, <1>6, <1>7, <1>8, <1>9 DEF CallStep

\* So do the steps of a run.
LEMMA TypeIndexes ==
  ASSUME TypeOK, ShapeInv, NEW x \in Runners, Indexes(x)
  PROVE  TypeOK'
<1> USE Sets
<1>1. run[x] \in RunType
  BY TypeParts
<1>2. /\ source \in Versions /\ None \in Versions
      /\ source \in 0..MaxSource
  BY TypeParts, Values
<1>3. CASE Scan(x)
  <2>1. [run[x] EXCEPT !.at = "write", !.seen = source] \in RunType
    BY <1>1, <1>2 DEF RunType, Ats
  <2>2. run' \in [Runners -> RunType]
    BY <2>1, <1>3, TypeParts DEF Scan
  <2> QED BY <2>2, <1>3, TypeParts DEF Scan, TypeOK, RunType, Ats, Outs
<1>4. ASSUME NEW out \in Outs, End(x, out) PROVE run' \in [Runners -> RunType]
  <2>1. [run[x] EXCEPT !.at = "settle", !.seen = None, !.out = out] \in RunType
    BY <1>1, <1>2 DEF RunType, Ats
  <2> QED BY <2>1, <1>4, TypeParts DEF End
<1>5. ASSUME NEW w \in BOOLEAN, NEW t,
             index' = [index EXCEPT ![t] = [of |-> run[x].seen, whole |-> w]]
      PROVE  index' \in [Targets -> [of : Versions, whole : BOOLEAN]]
  <2>1. run[x].seen \in Versions
    BY <1>1 DEF RunType
  <2> QED BY <2>1, <1>5, TypeParts
<1>6. CASE Complete(x)
  <2>1. run' \in [Runners -> RunType]
    BY <1>4, <1>6 DEF Complete, Outs
  <2>2. index' \in [Targets -> [of : Versions, whole : BOOLEAN]]
    BY <1>5, <1>6 DEF Complete
  <2> QED BY <2>1, <2>2, <1>6 DEF Complete, TypeOK, RunType, Ats, Outs
<1>7. CASE NothingChanged(x)
  <2>1. run' \in [Runners -> RunType]
    BY <1>4, <1>7 DEF NothingChanged, Outs
  <2> QED BY <2>1, <1>7 DEF NothingChanged, TypeOK, RunType, Ats, Outs
<1>8. CASE Fail(x)
  <2>1. run' \in [Runners -> RunType]
    BY <1>4, <1>8 DEF Fail, Outs
  <2>2. index' \in [Targets -> [of : Versions, whole : BOOLEAN]]
    BY <1>5, <1>8, TypeParts DEF Fail
  <2> QED BY <2>1, <2>2, <1>8 DEF Fail, TypeOK, RunType, Ats, Outs
<1>9. CASE Interrupt(x)
  <2>1. run' \in [Runners -> RunType]
    BY <1>4, <1>9 DEF Interrupt, Outs
  <2>2. index' \in [Targets -> [of : Versions, whole : BOOLEAN]]
    BY <1>5, <1>9, TypeParts DEF Interrupt
  <2> QED BY <2>1, <2>2, <1>9 DEF Interrupt, TypeOK, RunType, Ats, Outs
<1>10. CASE Settle(x)
  <2>1. run[x].out \in Outs \ {None} /\ run[x].before \in Identities
        /\ run[x].target \in Targets \cup {None}
    BY <1>1, <1>10 DEF RunType, Settle, ShapeInv
  <2>2. PICK end \in Captures :
          /\ Persist(run[x].target, Outcome(x, end))
          /\ run' = [run EXCEPT ![x] = [NoRun EXCEPT !.at = "leave",
                       !.target = run[x].target,
                       !.out = IF run[x].out = "ok" /\ Verdict(x, end).state # "ready"
                               THEN "failed" ELSE run[x].out]]
    BY <1>10 DEF Settle
  <2>3. end \in Versions
    BY <1>2 DEF Captures
  <2>4. Verdict(x, end) \in Identities
    BY <2>3, Values DEF Verdict, States
  <2>5. Outcome(x, end) \in Identities
    BY <2>1, <2>4, Values DEF Outcome, Outs, States
  <2>6. identity' \in [Targets -> Identities]
    BY <2>2, <2>5, TypeParts DEF Persist
  <2>7. ASSUME NEW o \in Outs
        PROVE  [NoRun EXCEPT !.at = "leave", !.target = run[x].target, !.out = o]
                 \in RunType
    BY <2>1, Values DEF NoRun, RunType, Ats
  <2>8. run' \in [Runners -> RunType]
    <3> DEFINE o == IF run[x].out = "ok" /\ Verdict(x, end).state # "ready"
                    THEN "failed" ELSE run[x].out
    <3>1. o \in Outs
      BY <2>1 DEF Outs
    <3> HIDE DEF o
    <3>2. [NoRun EXCEPT !.at = "leave", !.target = run[x].target, !.out = o] \in RunType
      BY <3>1, <2>1, Values DEF NoRun, RunType, Ats
    <3>3. run' = [run EXCEPT ![x] = [NoRun EXCEPT !.at = "leave",
                     !.target = run[x].target, !.out = o]]
      BY <2>2 DEF o
    <3> QED BY <3>2, <3>3, TypeParts
  <2> QED BY <2>6, <2>8, <1>10 DEF Settle, TypeOK, RunType, Ats, Outs
<1> QED
  BY <1>3, <1>6, <1>7, <1>8, <1>9, <1>10 DEF Indexes

\* So do the steps of a search that reindexes.
LEMMA TypeSearches ==
  ASSUME TypeOK, ShapeInv, NEW x \in Runners, Searches(x)
  PROVE  TypeOK'
<1>1. run[x] \in RunType
  BY TypeParts
<1>2. CASE Enter(x)
  <2>1. run[x].target \in Targets
    BY <1>2 DEF Enter, ShapeInv, Indexing
  <2>2. identity[run[x].target] \in Identities
    BY <2>1, TypeParts
  <2>3. [run[x] EXCEPT !.at = "pend", !.before = identity[run[x].target]] \in RunType
    BY <1>1, <2>2 DEF RunType, Ats
  <2>4. run' \in [Runners -> RunType]
    BY <2>3, <1>2, TypeParts DEF Enter
  <2> QED BY <2>4, <1>2 DEF Enter, TypeOK, RunType, Ats, Outs
<1>3. CASE NeverEnter(x)
  <2>1. run[x].target \in Targets \cup {None}
    BY <1>1 DEF RunType
  <2>2. [NoRun EXCEPT !.at = "leave", !.target = run[x].target] \in RunType
    BY <2>1, Values DEF NoRun, RunType, Ats
  <2>3. run' \in [Runners -> RunType]
    BY <2>2, <1>3, TypeParts DEF NeverEnter
  <2> QED BY <2>3, <1>3 DEF NeverEnter, TypeOK, RunType, Ats, Outs
<1>4. CASE Pend(x)
  <2>1. PICK start \in Captures :
          run' = [run EXCEPT ![x].at = "index", ![x].start = start]
    BY <1>4 DEF Pend
  <2>2. start \in Versions
    BY <2>1, TypeParts, Values DEF Captures
  <2>3. [run[x] EXCEPT !.at = "index", !.start = start] \in RunType
    BY <1>1, <2>2 DEF RunType, Ats
  <2>4. run' \in [Runners -> RunType]
    BY <2>1, <2>3, TypeParts
  <2>5. identity' \in [Targets -> Identities]
    BY <1>4, Values, TypeParts DEF Pend, Persist, States
  <2> QED BY <2>4, <2>5, <1>4 DEF Pend, TypeOK, RunType, Ats, Outs
<1>5. CASE Skip(x)
  <2>1. [run[x] EXCEPT !.at = "settle", !.seen = None, !.out = "skipped"] \in RunType
    BY <1>1, Values DEF RunType, Ats, Outs
  <2>2. run' \in [Runners -> RunType]
    BY <2>1, <1>5, TypeParts DEF Skip, End
  <2> QED BY <2>2, <1>5 DEF Skip, TypeOK, RunType, Ats, Outs
<1> QED
  BY <1>2, <1>3, <1>4, <1>5, TypeIndexes DEF Searches

\* A run that is over is forgotten.
LEMMA Forgotten ==
  ASSUME TypeOK, NEW x \in Runners, run' = [run EXCEPT ![x] = NoRun]
  PROVE  run' \in [Runners -> RunType]
BY TypeParts, Values

\* Every step keeps the types.
LEMMA TypeNext ==
  ASSUME TypeOK, ShapeInv, Next
  PROVE  TypeOK'
<1> USE Sets
<1>1. ASSUME NEW c \in Calls, CallStep(c) PROVE TypeOK'
  BY <1>1, TypeCall
<1>2. ASSUME NEW x \in Runners, Searches(x) \/ Indexes(x) PROVE TypeOK'
  BY <1>2, TypeSearches, TypeIndexes
<1>3. ASSUME NEW c \in Calls, Answer(c) PROVE TypeOK'
  <2>1. run' \in [Runners -> RunType]
    BY <1>3, Forgotten DEF Answer
  <2> QED BY <2>1, <1>3 DEF Answer, TypeOK, RunType, Ats, Outs
<1>4. ASSUME NEW j \in Jobs, Report(j) PROVE TypeOK'
  <2>1. run' \in [Runners -> RunType]
    BY <1>4, Forgotten DEF Report
  <2>2. run[j].out \in {"ok", "failed", "cancelled"}
    BY <1>4, TypeParts DEF Report, ShapeInv, RunType, Outs
  <2>3. Terminal(run[j].out) \in {"completed", "failed", "cancelled"}
    BY <2>2 DEF Terminal
  <2>4. job' \in [id : 0..MaxJobs, target : Targets \cup {None}, cancel : BOOLEAN,
                  status : {"none", "indexing", "completed", "failed", "cancelled"}]
    BY <1>4, <2>3, TypeParts DEF Report
  <2> QED BY <2>1, <2>4, <1>4 DEF Report, TypeOK, RunType, Ats, Outs
<1>5. ASSUME NEW b \in Bgs, Release(b) PROVE TypeOK'
  <2>1. run' \in [Runners -> RunType]
    BY <1>5, Forgotten DEF Release
  <2> QED BY <2>1, <1>5 DEF Release, TypeOK, RunType, Ats, Outs
<1>6. CASE Overdue
  BY <1>6 DEF Overdue, TypeOK
<1>7. CASE Edit
  BY <1>7 DEF Edit, TypeOK
<1>8. CASE Restart
  <2>1. run' \in [Runners -> RunType] /\ call' \in [Calls -> CallType]
    BY <1>8, Values DEF Restart
  <2> QED BY <2>1, <1>8 DEF Restart, NoJob, TypeOK, RunType, CallType, Ats, Outs
<1> QED
  BY <1>1, <1>2, <1>3, <1>4, <1>5, <1>6, <1>7, <1>8 DEF Next

-----------------------------------------------------------------------------
(* Shapes.                                                                 *)

\* At first nothing is under way.
LEMMA ShapeInit == Init => ShapeInv
BY Sets DEF Init, ShapeInv, Indexing, NoCall, NoRun

\* A step that changes one run to one of the right shape keeps the shapes.
LEMMA ShapeOne ==
  ASSUME TypeOK, ShapeInv, NEW x \in Runners, NEW r,
         run' = [run EXCEPT ![x] = r], UNCHANGED call,
         r.at # "off" => r.target \in Targets,
         r.at = "settle" => r.out # None,
         x \in Jobs => /\ r.at \notin {"enter", "pend"}
                       /\ r.out # "skipped"
                       /\ r.at = "leave" => r.out # None
  PROVE  ShapeInv'
<1>1. run'[x] = r /\ \A y \in Runners : y # x => run'[y] = run[y]
  BY TypeParts
<1>2. \A y \in Runners : Indexing(y)' => run'[y].target \in Targets
  BY <1>1 DEF ShapeInv, Indexing
<1>3. \A y \in Runners : run'[y].at = "settle" => run'[y].out # None
  BY <1>1 DEF ShapeInv
<1>4. \A j \in Jobs : /\ run'[j].at \notin {"enter", "pend"}
                      /\ run'[j].out # "skipped"
                      /\ run'[j].at = "leave" => run'[j].out # None
  BY <1>1, Sets DEF ShapeInv
<1>5. \A c \in Calls : call'[c].at # "idle" => call'[c].target \in Targets
  BY DEF ShapeInv
<1> QED BY <1>2, <1>3, <1>4, <1>5 DEF ShapeInv

\* The steps of a run.
LEMMA ShapeIndexes ==
  ASSUME TypeOK, ShapeInv, NEW x \in Runners, Indexes(x)
  PROVE  ShapeInv'
<1>1. run[x] \in RunType /\ run \in [Runners -> RunType]
  BY TypeParts
<1>2. run[x].at # "off" => run[x].target \in Targets
  BY DEF ShapeInv, Indexing
<1>3. x \in Jobs => run[x].out # "skipped"
  BY DEF ShapeInv
<1>4. CASE Scan(x)
  <2> DEFINE r == [run[x] EXCEPT !.at = "write", !.seen = source]
  <2>1. r.at = "write" /\ r.target = run[x].target /\ r.out = run[x].out
    BY <1>1 DEF RunType
  <2>2. run' = [run EXCEPT ![x] = r] /\ UNCHANGED call
    BY <1>1, <1>4 DEF Scan
  <2>3. run[x].at = "index"
    BY <1>4 DEF Scan
  <2> HIDE DEF r
  <2> QED BY <2>1, <2>2, <2>3, <1>2, <1>3, ShapeOne
<1>5. ASSUME NEW out \in Outs, out # None, End(x, out), UNCHANGED call,
             run[x].at \in {"index", "write"}, x \in Jobs => out # "skipped"
      PROVE  ShapeInv'
  <2> DEFINE r == [run[x] EXCEPT !.at = "settle", !.seen = None, !.out = out]
  <2>1. r.at = "settle" /\ r.target = run[x].target /\ r.out = out
    BY <1>1 DEF RunType
  <2>2. run' = [run EXCEPT ![x] = r]
    BY <1>1, <1>5 DEF End
  <2> HIDE DEF r
  <2> QED BY <2>1, <2>2, <1>2, <1>5, ShapeOne
<1>6. CASE Complete(x)
  BY <1>5, <1>6, Sets DEF Complete, Outs
<1>7. CASE NothingChanged(x)
  BY <1>5, <1>7, Sets DEF NothingChanged, Outs
<1>8. CASE Fail(x)
  BY <1>5, <1>8, Sets DEF Fail, Outs
<1>9. CASE Interrupt(x)
  BY <1>5, <1>9, Sets DEF Interrupt, Outs
<1>10. CASE Settle(x)
  <2>1. PICK end \in Captures :
          run' = [run EXCEPT ![x] = [NoRun EXCEPT !.at = "leave",
                       !.target = run[x].target,
                       !.out = IF run[x].out = "ok" /\ Verdict(x, end).state # "ready"
                               THEN "failed" ELSE run[x].out]]
    BY <1>10 DEF Settle
  <2> DEFINE o == IF run[x].out = "ok" /\ Verdict(x, end).state # "ready"
                  THEN "failed" ELSE run[x].out
             r == [NoRun EXCEPT !.at = "leave", !.target = run[x].target, !.out = o]
  <2>2. o # None /\ (x \in Jobs => o # "skipped")
    BY <1>3, <1>10, Sets DEF Settle, ShapeInv
  <2> HIDE DEF o
  <2>3. r.at = "leave" /\ r.target = run[x].target /\ r.out = o
    BY DEF NoRun
  <2>4. run' = [run EXCEPT ![x] = r] /\ UNCHANGED call /\ run[x].at = "settle"
    BY <2>1, <1>10 DEF o, Settle
  <2> HIDE DEF r
  <2> QED BY <2>2, <2>3, <2>4, <1>2, ShapeOne
<1> QED
  BY <1>4, <1>6, <1>7, <1>8, <1>9, <1>10 DEF Indexes

\* The steps of a search that reindexes.
LEMMA ShapeSearches ==
  ASSUME TypeOK, ShapeInv, NEW x \in Runners, x \notin Jobs, Searches(x)
  PROVE  ShapeInv'
<1>1. run[x] \in RunType /\ run \in [Runners -> RunType]
  BY TypeParts
<1>2. run[x].at # "off" => run[x].target \in Targets
  BY DEF ShapeInv, Indexing
<1>3. ASSUME NEW r, run' = [run EXCEPT ![x] = r], UNCHANGED call,
             r.at # "settle" \/ r.out # None, r.target = run[x].target,
             run[x].at # "off"
      PROVE  ShapeInv'
  BY <1>2, <1>3, ShapeOne
<1>4. CASE Enter(x)
  <2> DEFINE r == [run[x] EXCEPT !.at = "pend", !.before = identity[run[x].target]]
  <2>1. r.at = "pend" /\ r.target = run[x].target
    BY <1>1 DEF RunType
  <2>2. run' = [run EXCEPT ![x] = r] /\ UNCHANGED call /\ run[x].at = "enter"
    BY <1>1, <1>4 DEF Enter
  <2> HIDE DEF r
  <2> QED BY <2>1, <2>2, <1>3
<1>5. CASE NeverEnter(x)
  <2> DEFINE r == [NoRun EXCEPT !.at = "leave", !.target = run[x].target]
  <2>1. r.at = "leave" /\ r.target = run[x].target
    BY DEF NoRun
  <2>2. run' = [run EXCEPT ![x] = r] /\ UNCHANGED call
        /\ run[x].at \in {"enter", "pend"}
    BY <1>5 DEF NeverEnter
  <2> HIDE DEF r
  <2> QED BY <2>1, <2>2, <1>3
<1>6. CASE Pend(x)
  <2>1. PICK start \in Captures :
          run' = [run EXCEPT ![x].at = "index", ![x].start = start]
    BY <1>6 DEF Pend
  <2> DEFINE r == [run[x] EXCEPT !.at = "index", !.start = start]
  <2>2. r.at = "index" /\ r.target = run[x].target
    BY <1>1 DEF RunType
  <2>3. run' = [run EXCEPT ![x] = r] /\ UNCHANGED call /\ run[x].at = "pend"
    BY <2>1, <1>1, <1>6 DEF Pend
  <2> HIDE DEF r
  <2> QED BY <2>2, <2>3, <1>3
<1>7. CASE Skip(x)
  <2> DEFINE r == [run[x] EXCEPT !.at = "settle", !.seen = None, !.out = "skipped"]
  <2>1. r.at = "settle" /\ r.target = run[x].target /\ r.out # None
    BY <1>1, Sets DEF RunType
  <2>2. run' = [run EXCEPT ![x] = r] /\ UNCHANGED call /\ run[x].at = "index"
    BY <1>1, <1>7 DEF Skip, End
  <2> HIDE DEF r
  <2> QED BY <2>1, <2>2, <1>3
<1> QED
  BY <1>4, <1>5, <1>6, <1>7, ShapeIndexes DEF Searches

\* Tool calls.
LEMMA ShapeCall ==
  ASSUME TypeOK, ShapeInv, NEW c \in Calls, CallStep(c)
  PROVE  ShapeInv'
<1>1. ASSUME NEW at, NEW t, Goto(c, at, t), at # "idle" => t \in Targets,
             UNCHANGED run
      PROVE  ShapeInv'
  <2>1. \A d \in Calls : call'[d].at # "idle" => call'[d].target \in Targets
    BY <1>1, TypeParts DEF Goto, ShapeInv
  <2> QED BY <2>1, <1>1 DEF ShapeInv, Indexing
<1>2. call[c].at # "idle" => call[c].target \in Targets
  BY DEF ShapeInv
<1>3. ASSUME NEW x \in Runners, x \notin Jobs, NEW t \in Targets, UNCHANGED call,
             run' = [run EXCEPT ![x] = [NoRun EXCEPT !.at = "enter", !.target = t]]
      PROVE  ShapeInv'
  <2> DEFINE r == [NoRun EXCEPT !.at = "enter", !.target = t]
  <2>1. r.at = "enter" /\ r.target = t
    BY DEF NoRun
  <2>2. run' = [run EXCEPT ![x] = r]
    BY <1>3
  <2> HIDE DEF r
  <2> QED BY <2>1, <2>2, <1>3, ShapeOne
<1>5. ASSUME NEW t \in Targets, Ask(c, t) \/ SearchBlocking(c, t) \/ Clear(c, t)
      PROVE  ShapeInv'
  <2>1. CASE Ask(c, t)
    BY <2>1, <1>1 DEF Ask
  <2>2. CASE SearchBlocking(c, t)
    BY <2>2, <1>3, Sets DEF SearchBlocking
  <2>3. CASE Clear(c, t)
    BY <2>3 DEF Clear, ShapeInv, Indexing
  <2> QED BY <1>5, <2>1, <2>2, <2>3
<1>6. ASSUME NEW t \in Targets, NEW b \in Bgs, Dispatch(c, b, t) PROVE ShapeInv'
  BY <1>6, <1>3, Sets DEF Dispatch
<1>7. CASE Register(c)
  BY <1>7, <1>1, <1>2 DEF Register
<1>8. CASE TurnAway(c)
  BY <1>8, <1>1 DEF TurnAway
<1>9. CASE Launch(c)
  <2>1. PICK start \in Captures :
          run' = [run EXCEPT ![job.id] =
             [NoRun EXCEPT !.at = "index", !.target = call[c].target, !.start = start]]
    BY <1>9 DEF Launch
  <2> DEFINE r == [NoRun EXCEPT !.at = "index", !.target = call[c].target,
                                !.start = start]
  <2>2. r.at = "index" /\ r.target = call[c].target /\ r.out = None
    BY DEF NoRun
  <2>3. \A x \in Runners : run'[x] = run[x] \/ run'[x] = r
    BY <2>1, TypeParts
  <2>4. \A d \in Calls : call'[d].at # "idle" => call'[d].target \in Targets
    BY <1>9, TypeParts DEF Launch, Goto, ShapeInv
  <2>5. call[c].target \in Targets
    BY <1>2, <1>9 DEF Launch
  <2> HIDE DEF r
  <2> QED BY <2>2, <2>3, <2>4, <2>5, Sets DEF ShapeInv, Indexing
<1>10. CASE LaunchRaises(c)
  BY <1>10, <1>1 DEF LaunchRaises
<1>11. CASE Cancel(c)
  BY <1>11 DEF Cancel, ShapeInv, Indexing
<1> QED
  BY <1>5, <1>6, <1>7, <1>8, <1>9, <1>10, <1>11 DEF CallStep

\* Every step keeps the shapes.
LEMMA ShapeNext ==
  ASSUME TypeOK, ShapeInv, Next
  PROVE  ShapeInv'
<1>1. ASSUME NEW c \in Calls, CallStep(c) \/ Searches(c) PROVE ShapeInv'
  BY <1>1, ShapeCall, ShapeSearches, Sets
<1>2. ASSUME NEW b \in Bgs, Searches(b) PROVE ShapeInv'
  BY <1>2, ShapeSearches, Sets
<1>3. ASSUME NEW j \in Jobs, Indexes(j) PROVE ShapeInv'
  BY <1>3, ShapeIndexes, Sets
<1>4. ASSUME NEW x \in Runners, run' = [run EXCEPT ![x] = NoRun], UNCHANGED call
      PROVE  ShapeInv'
  <2>1. NoRun.at = "off" /\ NoRun.out = None
    BY DEF NoRun
  <2> QED BY <1>4, <2>1, ShapeOne, Sets
<1>5. ASSUME NEW c \in Calls, Answer(c) PROVE ShapeInv'
  BY <1>4, <1>5, Sets DEF Answer
<1>6. ASSUME NEW j \in Jobs, Report(j) PROVE ShapeInv'
  BY <1>4, <1>6, Sets DEF Report
<1>7. ASSUME NEW b \in Bgs, Release(b) PROVE ShapeInv'
  BY <1>4, <1>7, Sets DEF Release
<1>8. CASE Overdue \/ Edit
  BY <1>8 DEF Overdue, Edit, ShapeInv, Indexing
<1>9. CASE Restart
  BY <1>9, Sets DEF Restart, ShapeInv, Indexing, NoRun, NoCall
<1> QED
  BY <1>1, <1>2, <1>3, <1>5, <1>6, <1>7, <1>8, <1>9 DEF Next

-----------------------------------------------------------------------------
(* The job in the slot and the flag.                                       *)

\* At first there is no job and no thread.
LEMMA FlagsInit == Init => FlagsTrue
BY Sets DEF Init, FlagsTrue, OneJob, OneBackground, Indexing, NoRun, NoCall

\* Between its beginning and its end a step of a run changes no flag.
LEMMA SameRuns ==
  ASSUME TypeOK, NEW x \in Runners, NEW r, run' = [run EXCEPT ![x] = r],
         x \in Jobs \cup Bgs => (r.at # "off" <=> Indexing(x)),
         SlotInv, FlagsTrue, UNCHANGED <<job, call, guard>>
  PROVE  FlagsTrue'
<1>1. \A y \in Jobs \cup Bgs : Indexing(y)' <=> Indexing(y)
  BY TypeParts, Sets DEF Indexing
<1>2. \A c \in Calls : call[c].at = "registered" => job.id \in Jobs
  BY DEF SlotInv, FlagsTrue, OneJob
<1>3. OneJob'
  BY <1>1, <1>2 DEF FlagsTrue, OneJob, Active
<1>4. OneBackground'
  BY <1>1 DEF FlagsTrue, OneBackground
<1> QED BY <1>3, <1>4 DEF FlagsTrue

\* The steps of a run are between its beginning and its end.
LEMMA RunGoesOn ==
  ASSUME TypeOK, NEW x \in Runners, Searches(x)
  PROVE  /\ \E r : run' = [run EXCEPT ![x] = r] /\ r.at # "off"
         /\ Indexing(x)
         /\ UNCHANGED <<mode, job, call, guard, source, crashed>>
<1>1. run[x] \in RunType /\ run \in [Runners -> RunType]
  BY TypeParts
<1>2. ASSUME NEW r, run' = [run EXCEPT ![x] = r], r.at # "off"
      PROVE  \E q : run' = [run EXCEPT ![x] = q] /\ q.at # "off"
  BY <1>2
<1>3. CASE Enter(x)
  <2> DEFINE r == [run[x] EXCEPT !.at = "pend", !.before = identity[run[x].target]]
  <2>1. run' = [run EXCEPT ![x] = r] /\ r.at # "off"
    BY <1>1, <1>3 DEF Enter, RunType
  <2> HIDE DEF r
  <2> QED BY <2>1, <1>2, <1>3 DEF Enter, Indexing
<1>4. CASE NeverEnter(x)
  <2> DEFINE r == [NoRun EXCEPT !.at = "leave", !.target = run[x].target]
  <2>1. run' = [run EXCEPT ![x] = r] /\ r.at # "off"
    BY <1>1, <1>4 DEF NeverEnter, NoRun
  <2> HIDE DEF r
  <2> QED BY <2>1, <1>2, <1>4 DEF NeverEnter, Indexing
<1>5. CASE Pend(x)
  <2>1. PICK start \in Captures :
          run' = [run EXCEPT ![x].at = "index", ![x].start = start]
    BY <1>5 DEF Pend
  <2> DEFINE r == [run[x] EXCEPT !.at = "index", !.start = start]
  <2>2. run' = [run EXCEPT ![x] = r] /\ r.at # "off"
    BY <2>1, <1>1, <1>5 DEF RunType
  <2> HIDE DEF r
  <2> QED BY <2>2, <1>2, <1>5 DEF Pend, Indexing
<1>6. CASE Scan(x)
  <2> DEFINE r == [run[x] EXCEPT !.at = "write", !.seen = source]
  <2>1. run' = [run EXCEPT ![x] = r] /\ r.at # "off"
    BY <1>1, <1>6 DEF Scan, RunType
  <2> HIDE DEF r
  <2> QED BY <2>1, <1>2, <1>6 DEF Scan, Indexing
<1>7. ASSUME NEW out, End(x, out)
      PROVE  \E q : run' = [run EXCEPT ![x] = q] /\ q.at # "off"
  <2> DEFINE r == [run[x] EXCEPT !.at = "settle", !.seen = None, !.out = out]
  <2>1. run' = [run EXCEPT ![x] = r] /\ r.at # "off"
    BY <1>1, <1>7 DEF End, RunType
  <2> HIDE DEF r
  <2> QED BY <2>1, <1>2
<1>8. CASE Complete(x) \/ NothingChanged(x) \/ Skip(x) \/ Fail(x) \/ Interrupt(x)
  <2>1. \E out : End(x, out)
    BY <1>8 DEF Complete, NothingChanged, Skip, Fail, Interrupt
  <2> QED
    BY <2>1, <1>7, <1>8
       DEF Complete, NothingChanged, Skip, Fail, Interrupt, Indexing
<1>9. CASE Settle(x)
  <2>1. PICK end \in Captures :
          run' = [run EXCEPT ![x] = [NoRun EXCEPT !.at = "leave",
                       !.target = run[x].target,
                       !.out = IF run[x].out = "ok" /\ Verdict(x, end).state # "ready"
                               THEN "failed" ELSE run[x].out]]
    BY <1>9 DEF Settle
  <2> DEFINE o == IF run[x].out = "ok" /\ Verdict(x, end).state # "ready"
                  THEN "failed" ELSE run[x].out
             r == [NoRun EXCEPT !.at = "leave", !.target = run[x].target, !.out = o]
  <2>2. run' = [run EXCEPT ![x] = r]
    BY <2>1
  <2> HIDE DEF o
  <2>3. r.at # "off"
    BY DEF NoRun
  <2> HIDE DEF r
  <2> QED BY <2>2, <2>3, <1>2, <1>9 DEF Settle, Indexing
<1> QED
  BY <1>3, <1>4, <1>5, <1>6, <1>8, <1>9 DEF Searches, Indexes

\* Only a registration makes a job active, and gives it an identifier.
LEMMA SlotNext ==
  ASSUME TypeOK, SlotInv, Next
  PROVE  SlotInv'
<1> USE Sets
<1>1. ASSUME NEW c \in Calls, CallStep(c) PROVE SlotInv'
  <2>1. CASE Register(c)
    <3>1. job'.id \in Jobs
      BY <2>1, TypeParts DEF Register
    <3> QED BY <3>1 DEF SlotInv
  <2>2. CASE Cancel(c)
    BY <2>2, TypeParts DEF Cancel, SlotInv, Active
  <2>3. CASE UNCHANGED job
    BY <2>3 DEF SlotInv, Active
  <2> QED
    BY <1>1, <2>1, <2>2, <2>3
       DEF CallStep, Ask, SearchBlocking, Clear, Dispatch, TurnAway, Launch,
           LaunchRaises
<1>2. ASSUME NEW x \in Runners, Searches(x) PROVE SlotInv'
  BY <1>2, RunGoesOn DEF SlotInv, Active
<1>3. ASSUME NEW j \in Jobs, Report(j) PROVE SlotInv'
  <2>1. job' = job \/ job' = [job EXCEPT !.status = Terminal(run[j].out)]
    BY <1>3 DEF Report
  <2>2. job'.id = job.id /\ (job' = job \/ job.id = j)
    BY <1>3, TypeParts DEF Report
  <2> QED BY <2>2 DEF SlotInv, Active
<1>4. CASE Restart
  BY <1>4 DEF Restart, NoJob, SlotInv, Active
<1>5. ASSUME NEW c, Answer(c) \/ Release(c) PROVE SlotInv'
  BY <1>5 DEF Answer, Release, SlotInv, Active
<1>6. CASE Overdue \/ Edit
  BY <1>6 DEF Overdue, Edit, SlotInv, Active
<1> QED
  BY <1>1, <1>2, <1>3, <1>4, <1>5, <1>6 DEF Next, Searches

\* Registration and start keep at most one job, the one in the slot.
LEMMA OneJobCall ==
  ASSUME TypeOK, SlotInv, OneJob, NEW c \in Calls, CallStep(c)
  PROVE  OneJob'
<1>1. call \in [Calls -> CallType] /\ run \in [Runners -> RunType]
  BY TypeParts
<1>2. \A d \in Calls : call[d].at = "registered" => job.id \in Jobs
  BY DEF SlotInv, OneJob
<1>3. ASSUME NEW at, at # "registered", NEW t, Goto(c, at, t), UNCHANGED <<run, job>>
      PROVE  OneJob'
  <2>1. \A d \in Calls : call'[d].at = "registered" => call[d].at = "registered"
    BY <1>1, <1>3 DEF Goto
  <2> QED BY <2>1, <1>3 DEF OneJob, Active, Indexing
<1>4. ASSUME NEW x \in Bgs \cup Calls, NEW r, run' = [run EXCEPT ![x] = r],
             UNCHANGED <<call, job>>
      PROVE  OneJob'
  <2>1. \A j \in Jobs : run'[j] = run[j]
    BY <1>1, <1>4, Sets
  <2> QED BY <2>1, <1>2, <1>4 DEF OneJob, Active, Indexing
<1>5. ASSUME NEW t \in Targets, Ask(c, t) \/ SearchBlocking(c, t) \/ Clear(c, t)
      PROVE  OneJob'
  <2>1. CASE Ask(c, t)
    BY <2>1, <1>3 DEF Ask
  <2>2. CASE SearchBlocking(c, t)
    BY <2>2, <1>4 DEF SearchBlocking
  <2>3. CASE Clear(c, t)
    BY <2>3 DEF Clear, OneJob, Active, Indexing
  <2> QED BY <1>5, <2>1, <2>2, <2>3
<1>6. ASSUME NEW t \in Targets, NEW b \in Bgs, Dispatch(c, b, t) PROVE OneJob'
  BY <1>6, <1>4 DEF Dispatch
<1>7. CASE Register(c)
  <2>1. job'.id = job.id + 1 /\ Active' /\ UNCHANGED run
    BY <1>7 DEF Register, Active
  <2>2. \A j \in Jobs : ~Indexing(j)
    BY <1>7 DEF Register, OneJob
  <2>3. \A d \in Calls : call[d].at # "registered"
    BY <1>7 DEF Register, OneJob
  <2>4. job'.id \in Jobs
    BY <2>1, <1>7, TypeParts, Sets DEF Register
  <2>5. \A d \in Calls : call'[d].at = "registered" => d = c
    BY <2>3, <1>1, <1>7 DEF Register, Goto
  <2> QED BY <2>1, <2>2, <2>4, <2>5 DEF OneJob, Indexing
<1>8. CASE TurnAway(c)
  BY <1>8, <1>3 DEF TurnAway
<1>9. CASE Launch(c)
  <2>1. PICK start \in Captures :
          run' = [run EXCEPT ![job.id] =
             [NoRun EXCEPT !.at = "index", !.target = call[c].target, !.start = start]]
    BY <1>9 DEF Launch
  <2>2. UNCHANGED job /\ Active /\ Active'
    BY <1>9 DEF Launch, OneJob, Active
  <2>3. \A d \in Calls : call'[d].at # "registered"
    BY <1>1, <1>9 DEF Launch, Goto, OneJob
  <2>4. \A j \in Jobs : j # job.id => run'[j] = run[j]
    BY <2>1, <1>1, Sets
  <2> QED BY <2>2, <2>3, <2>4 DEF OneJob, Indexing
<1>10. CASE LaunchRaises(c)
  BY <1>10, <1>3 DEF LaunchRaises
<1>11. CASE Cancel(c)
  BY <1>11, TypeParts DEF Cancel, OneJob, Active, Indexing
<1> QED
  BY <1>5, <1>6, <1>7, <1>8, <1>9, <1>10, <1>11 DEF CallStep

\* The flag is set with the thread that is started.
LEMMA OneBackgroundCall ==
  ASSUME TypeOK, SlotInv, FlagsTrue, NEW c \in Calls, CallStep(c)
  PROVE  OneBackground'
<1>1. run \in [Runners -> RunType]
  BY TypeParts
<1>2. ASSUME UNCHANGED guard, \A b \in Bgs : run'[b] = run[b]
      PROVE  OneBackground'
  BY <1>2 DEF FlagsTrue, OneBackground, Indexing
<1>3. ASSUME NEW t \in Targets, NEW b \in Bgs, Dispatch(c, b, t)
      PROVE  OneBackground'
  <2> DEFINE r == [NoRun EXCEPT !.at = "enter", !.target = t]
  <2>1. run' = [run EXCEPT ![b] = r] /\ r.at = "enter"
    BY <1>3 DEF Dispatch, NoRun
  <2> HIDE DEF r
  <2>2. Indexing(b)' /\ \A a \in Bgs : a # b => Indexing(a)' = Indexing(a)
    BY <2>1, <1>1, Sets DEF Indexing
  <2>3. guard'.active /\ (guard'.reclaimed <=> guard.reclaimed \/ guard.active)
    BY <1>3, TypeParts DEF Dispatch
  <2> QED BY <2>2, <2>3 DEF FlagsTrue, OneBackground
<1>4. CASE Launch(c)
  <2>1. job.id \in Jobs
    BY <1>4 DEF Launch, FlagsTrue, OneJob, SlotInv
  <2>2. \A b \in Bgs : run'[b] = run[b]
    BY <2>1, <1>1, <1>4, Sets DEF Launch
  <2> QED BY <2>2, <1>2, <1>4 DEF Launch
<1>5. ASSUME NEW t \in Targets, SearchBlocking(c, t) PROVE OneBackground'
  <2>1. \A b \in Bgs : run'[b] = run[b]
    BY <1>1, <1>5, Sets DEF SearchBlocking
  <2> QED BY <2>1, <1>2, <1>5 DEF SearchBlocking
<1>6. CASE UNCHANGED <<run, guard>>
  BY <1>2, <1>6
<1> QED
  BY <1>3, <1>4, <1>5, <1>6
     DEF CallStep, Ask, Clear, Register, TurnAway, LaunchRaises, Cancel

\* The flags stay true of the threads.
LEMMA FlagsNext ==
  ASSUME TypeOK, SlotInv, FlagsTrue, Next
  PROVE  FlagsTrue'
<1> USE Sets
<1>1. call \in [Calls -> CallType] /\ run \in [Runners -> RunType]
  BY TypeParts
<1>2. ASSUME NEW c \in Calls, CallStep(c) PROVE FlagsTrue'
  BY <1>2, OneJobCall, OneBackgroundCall DEF FlagsTrue
<1>3. ASSUME NEW x \in Runners, Searches(x) PROVE FlagsTrue'
  <2>1. PICK r : run' = [run EXCEPT ![x] = r] /\ r.at # "off"
    BY <1>3, RunGoesOn
  <2>2. Indexing(x) /\ UNCHANGED <<job, call, guard>>
    BY <1>3, RunGoesOn
  <2> QED BY <2>1, <2>2, SameRuns
<1>4. ASSUME NEW c \in Calls, Answer(c) PROVE FlagsTrue'
  BY <1>4, SameRuns DEF Answer
<1>5. ASSUME NEW j \in Jobs, Report(j) PROVE FlagsTrue'
  <2>1. Indexing(j) /\ job.id = j /\ Active
    BY <1>5 DEF Report, Indexing, FlagsTrue, OneJob
  <2>2. \A d \in Calls : call'[d].at # "registered"
    BY <2>1, <1>5 DEF Report, FlagsTrue, OneJob
  <2>3. \A k \in Jobs : ~Indexing(k)'
    BY <2>1, <1>1, <1>5 DEF Report, FlagsTrue, OneJob, Indexing, NoRun
  <2>4. \A b \in Bgs : Indexing(b)' = Indexing(b)
    BY <1>1, <1>5 DEF Report, Indexing
  <2>5. OneJob'
    BY <2>2, <2>3 DEF OneJob
  <2>6. OneBackground'
    BY <2>4, <1>5 DEF Report, FlagsTrue, OneBackground
  <2> QED BY <2>5, <2>6 DEF FlagsTrue
<1>6. ASSUME NEW b \in Bgs, Release(b) PROVE FlagsTrue'
  <2>1. Indexing(b)
    BY <1>6 DEF Release, Indexing
  <2>2. ~Indexing(b)' /\ \A x \in Runners : x # b => run'[x] = run[x]
    BY <1>1, <1>6 DEF Release, Indexing, NoRun
  <2>3. ~guard'.active /\ guard'.reclaimed = guard.reclaimed
    BY <1>6, TypeParts DEF Release
  <2>4. OneBackground'
    BY <2>1, <2>2, <2>3 DEF FlagsTrue, OneBackground, Indexing
  <2>5. \A d \in Calls : call[d].at = "registered" => job.id \in Jobs
    BY DEF FlagsTrue, OneJob, SlotInv
  <2>6. OneJob'
    BY <2>2, <2>5, <1>6 DEF Release, FlagsTrue, OneJob, Indexing, Active
  <2> QED BY <2>4, <2>6 DEF FlagsTrue
<1>7. CASE Overdue
  <2>1. guard'.active = guard.active /\ guard'.reclaimed = guard.reclaimed
    BY <1>7, TypeParts DEF Overdue
  <2> QED
    BY <2>1, <1>7
       DEF Overdue, FlagsTrue, OneJob, OneBackground, Indexing, Active
<1>8. CASE Edit
  BY <1>8 DEF Edit, FlagsTrue, OneJob, OneBackground, Indexing, Active
<1>9. CASE Restart
  BY <1>9
     DEF Restart, FlagsTrue, OneJob, OneBackground, Indexing, NoRun, NoCall
<1> QED
  BY <1>2, <1>3, <1>4, <1>5, <1>6, <1>7, <1>8, <1>9 DEF Next, Searches

-----------------------------------------------------------------------------
(* A sequential server.                                                    *)

\* No step changes the deployment.
LEMMA ModeKept ==
  ASSUME TypeOK, Next
  PROVE  UNCHANGED mode
<1>1. ASSUME NEW c \in Calls, CallStep(c) PROVE UNCHANGED mode
  BY <1>1 DEF CallStep, Ask, SearchBlocking, Clear, Dispatch, Register, TurnAway,
              Launch, LaunchRaises, Cancel
<1>2. ASSUME NEW x \in Runners, Searches(x) PROVE UNCHANGED mode
  BY <1>2, RunGoesOn
<1> QED
  BY <1>1, <1>2, Sets
     DEF Next, Searches, Answer, Report, Release, Overdue, Edit, Restart

\* In a sequential server one runner at a time is at it.
LEMMA Single ==
  ASSUME FlagsTrue, AloneInv
  PROVE  \A x, y \in Runners : Indexing(x) /\ Indexing(y) => x = y
BY Sets DEF FlagsTrue, OneJob, AloneInv, Busy, Indexing

\* At first nobody is.
LEMMA AloneInit == Init => AloneInv
BY Sets DEF Init, AloneInv, Busy, Indexing, NoRun, NoCall

\* Tool calls of a sequential server come one after the other.
LEMMA AloneCall ==
  ASSUME TypeOK, SlotInv, FlagsTrue, Sequential, AloneInv,
         NEW c \in Calls, CallStep(c)
  PROVE  AloneInv'
<1>1. call \in [Calls -> CallType] /\ run \in [Runners -> RunType]
  BY TypeParts
<1>2. MayCall(c) => \A d \in Calls : ~Busy(d)
  BY DEF MayCall, Busy, Sequential
<1>3. ASSUME \A b \in Bgs : run'[b] = run[b],
             \A d \in Calls : d # c => Busy(d)' = Busy(d),
             \A d \in Calls : d # c => ~Busy(d),
             \A d \in Calls : Indexing(d)' => ~Active' /\ call'[d].at = "idle"
      PROVE  AloneInv'
  BY <1>3 DEF AloneInv, Indexing
<1>4. \A d \in Calls : d # c /\ Busy(c) => ~Busy(d)
  BY DEF AloneInv
<1>5. ASSUME NEW at, NEW t, Goto(c, at, t), UNCHANGED run, Busy(c) \/ MayCall(c),
             call[c].at # "idle" \/ MayCall(c)
      PROVE  AloneInv'
  <2>1. \A d \in Calls : d # c => Busy(d)' = Busy(d) /\ ~Busy(d)
    BY <1>1, <1>2, <1>4, <1>5 DEF Goto, Busy
  <2>2. \A d \in Calls : ~Indexing(d)
    BY <1>2, <1>4, <1>5 DEF Busy, Indexing, AloneInv
  <2>3. \A d \in Calls : ~Indexing(d)'
    BY <2>2, <1>5 DEF Indexing
  <2> QED BY <2>1, <2>3, <1>3, <1>5
<1>6. ASSUME NEW t \in Targets, Ask(c, t) PROVE AloneInv'
  BY <1>5, <1>6 DEF Ask
<1>7. ASSUME NEW t \in Targets, SearchBlocking(c, t) PROVE AloneInv'
  <2>1. \A x \in Runners : x # c => run'[x] = run[x]
    BY <1>1, <1>7 DEF SearchBlocking
  <2>2. \A d \in Calls : d # c => Busy(d)' = Busy(d) /\ ~Busy(d)
    BY <2>1, <1>2, <1>7, Sets DEF SearchBlocking, Busy
  <2>3. ~Active' /\ call'[c].at = "idle"
    BY <1>7 DEF SearchBlocking, MayCall, Active
  <2>4. \A d \in Calls : d # c => ~Indexing(d)'
    BY <2>2 DEF Busy, Indexing
  <2> QED BY <2>1, <2>2, <2>3, <2>4, <1>3, Sets
<1>8. ASSUME NEW t \in Targets, Clear(c, t) PROVE AloneInv'
  BY <1>8 DEF Clear, AloneInv, Busy, Indexing, Active
<1>9. ASSUME NEW t \in Targets, NEW b \in Bgs, Dispatch(c, b, t) PROVE AloneInv'
  BY <1>9 DEF Dispatch, Sequential
<1>10. CASE Register(c)
  BY <1>5, <1>10 DEF Register, Busy
<1>11. CASE TurnAway(c)
  BY <1>5, <1>11 DEF TurnAway, Busy
<1>12. CASE Launch(c)
  <2>1. job.id \in Jobs /\ Busy(c) /\ ~Indexing(c)
    BY <1>12 DEF Launch, FlagsTrue, OneJob, SlotInv, Busy, AloneInv
  <2>2. \A x \in Bgs \cup Calls : run'[x] = run[x]
    BY <2>1, <1>1, <1>12, Sets DEF Launch
  <2>3. \A d \in Calls : d # c => Busy(d)' = Busy(d) /\ ~Busy(d)
    BY <2>1, <2>2, <1>1, <1>4, <1>12 DEF Launch, Goto, Busy
  <2>4. \A d \in Calls : ~Indexing(d)'
    BY <2>1, <2>2, <2>3 DEF Busy, Indexing
  <2> QED BY <2>2, <2>3, <2>4, <1>3
<1>13. CASE LaunchRaises(c)
  BY <1>5, <1>13 DEF LaunchRaises, Busy
<1>14. CASE Cancel(c)
  BY <1>14, TypeParts DEF Cancel, AloneInv, Busy, Indexing, Active
<1> QED
  BY <1>6, <1>7, <1>8, <1>9, <1>10, <1>11, <1>12, <1>13, <1>14 DEF CallStep

\* Nor does any other step bring a second one.
LEMMA AloneNext ==
  ASSUME TypeOK, SlotInv, FlagsTrue, Sequential, AloneInv, Next
  PROVE  AloneInv'
<1> USE Sets
<1>1. call \in [Calls -> CallType] /\ run \in [Runners -> RunType]
  BY TypeParts
<1>2. ASSUME NEW c \in Calls, CallStep(c) PROVE AloneInv'
  BY <1>2, AloneCall
<1>3. ASSUME UNCHANGED call, Active' => Active,
             \A x \in Runners : Indexing(x)' => Indexing(x)
      PROVE  AloneInv'
  BY <1>3 DEF AloneInv, Busy, Indexing
<1>4. ASSUME NEW x \in Runners, Searches(x) PROVE AloneInv'
  <2>1. PICK r : run' = [run EXCEPT ![x] = r] /\ r.at # "off"
    BY <1>4, RunGoesOn
  <2>2. Indexing(x) /\ UNCHANGED <<job, call>>
    BY <1>4, RunGoesOn
  <2>3. \A y \in Runners : Indexing(y)' => Indexing(y)
    BY <2>1, <2>2, <1>1 DEF Indexing
  <2> QED BY <2>2, <2>3, <1>3 DEF Active
<1>5. ASSUME NEW x \in Runners, run' = [run EXCEPT ![x] = NoRun]
      PROVE  \A y \in Runners : Indexing(y)' => Indexing(y)
  BY <1>5, <1>1 DEF Indexing, NoRun
<1>6. ASSUME NEW c \in Calls, Answer(c) PROVE AloneInv'
  BY <1>3, <1>5, <1>6 DEF Answer, Active
<1>7. ASSUME NEW j \in Jobs, Report(j) PROVE AloneInv'
  <2>1. Active
    BY <1>7 DEF Report, FlagsTrue, OneJob, Indexing
  <2> QED BY <2>1, <1>3, <1>5, <1>7 DEF Report
<1>8. ASSUME NEW b \in Bgs, Release(b) PROVE AloneInv'
  BY <1>3, <1>5, <1>8 DEF Release, Active
<1>9. CASE Overdue \/ Edit
  BY <1>3, <1>9 DEF Overdue, Edit, Active, Indexing
<1>10. CASE Restart
  BY <1>10 DEF Restart, AloneInv, Busy, Indexing, NoRun, NoCall
<1> QED
  BY <1>2, <1>4, <1>6, <1>7, <1>8, <1>9, <1>10 DEF Next, Searches

-----------------------------------------------------------------------------
(* project_info.json is true.                                              *)

\* At first it says nothing.
LEMMA TruthInit == Init => TruthInv
<1> SUFFICES ASSUME Init PROVE TruthInv
  OBVIOUS
<1>1. \A x \in Runners : run[x].at = "off"
  BY DEF Init, NoRun
<1>2. \A t \in Targets : identity[t].state = "none"
  BY DEF Init, Plain
<1> QED
  BY <1>1, <1>2 DEF TruthInv, RunTrue, Begun, MayPutBack, Indexing,
                    ReadyIsExact, NothingDangles, Transient

\* Nothing is said to be under way when nobody has begun.
LEMMA Quiet ==
  ASSUME NothingDangles, ~crashed, \A y \in Runners : ~Begun(y)
  PROVE  \A t \in Targets : ~Transient(t)
BY DEF NothingDangles, Begun

\* When one runner is at it, the others are off.
LEMMA OthersOff ==
  ASSUME FlagsTrue, AloneInv, NEW x \in Runners, Indexing(x)
  PROVE  \A y \in Runners : y # x => run[y].at = "off"
BY Single DEF Indexing

\* It is enough to look at that one.
LEMMA TruthOne ==
  ASSUME TypeOK, NEW x \in Runners, NEW r, run' = [run EXCEPT ![x] = r],
         \A y \in Runners : y # x => run[y].at = "off",
         RunTrue(x)', ReadyIsExact', NothingDangles'
  PROVE  TruthInv'
<1>1. \A y \in Runners : y # x => run'[y].at = "off"
  BY TypeParts
<1>2. \A y \in Runners : y # x => RunTrue(y)'
  BY <1>1 DEF RunTrue, Begun, MayPutBack
<1> QED BY <1>2 DEF TruthInv

\* A search that reindexes remembers what was true when it came.
LEMMA TruthSearches ==
  ASSUME TypeOK, ShapeInv, FlagsTrue, AloneInv, TruthInv,
         NEW x \in Runners, Enter(x) \/ NeverEnter(x) \/ Pend(x) \/ Skip(x)
  PROVE  TruthInv'
<1>1. run[x] \in RunType /\ run \in [Runners -> RunType]
      /\ identity \in [Targets -> Identities]
  BY TypeParts
<1>2. Indexing(x) /\ \A y \in Runners : y # x => run[y].at = "off"
  BY OthersOff DEF Enter, NeverEnter, Pend, Skip, Indexing
<1>3. run[x].target \in Targets
  BY <1>2 DEF ShapeInv
<1>4. run[x].at \in {"enter", "pend"} /\ ~crashed => \A t \in Targets : ~Transient(t)
  BY <1>2, Quiet DEF Begun, TruthInv
<1>5. CASE Enter(x)
  <2> DEFINE r == [run[x] EXCEPT !.at = "pend", !.before = identity[run[x].target]]
  <2>1. r.at = "pend" /\ r.target = run[x].target
        /\ r.before = identity[run[x].target]
    BY <1>1 DEF RunType
  <2>2. run' = [run EXCEPT ![x] = r] /\ run[x].at = "enter"
        /\ UNCHANGED <<identity, index, crashed, source>>
    BY <1>1, <1>5 DEF Enter
  <2> HIDE DEF r
  <2>3. run'[x] = r
    BY <2>2, <1>1
  <2>4. RunTrue(x)'
    BY <2>1, <2>2, <2>3, <1>3, <1>4
       DEF RunTrue, Begun, MayPutBack, Exact, TruthInv, ReadyIsExact, Transient
  <2>5. ReadyIsExact'
    BY <2>2 DEF TruthInv, ReadyIsExact
  <2>6. NothingDangles'
    BY <2>2, <1>4 DEF NothingDangles, Transient
  <2> QED BY <2>2, <2>4, <2>5, <2>6, <1>2, TruthOne
<1>6. CASE NeverEnter(x)
  <2> DEFINE r == [NoRun EXCEPT !.at = "leave", !.target = run[x].target]
  <2>1. r.at = "leave"
    BY DEF NoRun
  <2>2. run' = [run EXCEPT ![x] = r] /\ run[x].at \in {"enter", "pend"}
        /\ UNCHANGED <<identity, index, crashed, source>>
    BY <1>6 DEF NeverEnter
  <2> HIDE DEF r
  <2>3. run'[x] = r
    BY <2>2, <1>1
  <2>4. RunTrue(x)'
    BY <2>1, <2>3 DEF RunTrue, Begun, MayPutBack
  <2>5. ReadyIsExact'
    BY <2>2 DEF TruthInv, ReadyIsExact
  <2>6. NothingDangles'
    BY <2>2, <1>4 DEF NothingDangles, Transient
  <2> QED BY <2>2, <2>4, <2>5, <2>6, <1>2, TruthOne
<1>7. CASE Pend(x)
  <2>1. PICK start \in Captures :
          run' = [run EXCEPT ![x].at = "index", ![x].start = start]
    BY <1>7 DEF Pend
  <2> DEFINE r == [run[x] EXCEPT !.at = "index", !.start = start]
  <2>2. /\ r.at = "index" /\ r.start = start
        /\ r.target = run[x].target /\ r.before = run[x].before
    BY <1>1 DEF RunType
  <2>3. run' = [run EXCEPT ![x] = r] /\ run[x].at = "pend"
        /\ UNCHANGED <<index, crashed, source>>
    BY <2>1, <1>1, <1>7 DEF Pend
  <2> HIDE DEF r
  <2>4. run'[x] = r
    BY <2>3, <1>1
  <2>5. identity'[run[x].target].state = "pending"
        /\ \A t \in Targets : t # run[x].target => identity'[t] = identity[t]
    BY <1>1, <1>3, <1>7 DEF Pend, Persist, Plain
  <2>6. start # None => start \in 0..source
    BY TypeParts, Sets DEF Captures
  <2>7. RunTrue(x)
    BY DEF TruthInv
  <2>8. RunTrue(x)'
    BY <2>2, <2>3, <2>4, <2>5, <2>6, <2>7, <1>3
       DEF RunTrue, Begun, MayPutBack, Exact, Transient
  <2>9. ReadyIsExact'
    BY <2>3, <2>5 DEF TruthInv, ReadyIsExact
  <2>10. NothingDangles'
    <3>1. ASSUME NEW t \in Targets, ~crashed', Transient(t)'
          PROVE  t = run[x].target
      BY <3>1, <2>3, <2>5, <1>4 DEF Transient
    <3> QED BY <3>1, <2>2, <2>4 DEF NothingDangles
  <2> QED BY <2>3, <2>8, <2>9, <2>10, <1>2, TruthOne
<1>8. CASE Skip(x)
  <2> DEFINE r == [run[x] EXCEPT !.at = "settle", !.seen = None, !.out = "skipped"]
  <2>1. /\ r.at = "settle" /\ r.out = "skipped" /\ r.start = run[x].start
        /\ r.target = run[x].target /\ r.before = run[x].before
    BY <1>1 DEF RunType
  <2>2. run' = [run EXCEPT ![x] = r] /\ run[x].at = "index"
        /\ UNCHANGED <<identity, index, crashed, source>>
    BY <1>1, <1>8 DEF Skip, End
  <2> HIDE DEF r
  <2>3. run'[x] = r
    BY <2>2, <1>1
  <2>4. RunTrue(x)
    BY DEF TruthInv
  <2>5. RunTrue(x)'
    BY <2>1, <2>2, <2>3, <2>4, <1>3
       DEF RunTrue, Begun, MayPutBack, Exact, Transient
  <2>6. ReadyIsExact'
    BY <2>2 DEF TruthInv, ReadyIsExact
  <2>7. NothingDangles'
    <3>1. ASSUME NEW t \in Targets, ~crashed', Transient(t)'
          PROVE  t = run[x].target
      BY <3>1, <2>2, <1>2 DEF Transient, TruthInv, NothingDangles
    <3> QED BY <3>1, <2>1, <2>3 DEF NothingDangles
  <2> QED BY <2>2, <2>5, <2>6, <2>7, <1>2, TruthOne
<1> QED BY <1>5, <1>6, <1>7, <1>8

\* A run that changes at most the index of its target, and goes on, leaves
\* the identities true.
LEMMA TruthGoesOn ==
  ASSUME TypeOK, TruthInv, NEW x \in Runners, NEW r,
         \A y \in Runners : y # x => run[y].at = "off",
         run[x].target \in Targets, Begun(x),
         run' = [run EXCEPT ![x] = r], r.target = run[x].target,
         r.at \in {"index", "write", "settle"},
         UNCHANGED <<identity, crashed>>,
         \A t \in Targets : t # run[x].target => index'[t] = index[t]
  PROVE  ReadyIsExact' /\ NothingDangles' /\ Transient(run[x].target)
<1>1. run'[x] = r
  BY TypeParts
<1>2. Transient(run[x].target)
  BY DEF TruthInv, RunTrue
<1>3. ReadyIsExact'
  BY <1>2 DEF TruthInv, ReadyIsExact, Transient
<1>4. ASSUME NEW t \in Targets, ~crashed', Transient(t)'
      PROVE  t = run[x].target
  BY <1>4 DEF Transient, TruthInv, NothingDangles
<1>5. NothingDangles'
  BY <1>1, <1>4 DEF NothingDangles
<1> QED BY <1>2, <1>3, <1>5

\* What a run scans and writes belongs to its start.
LEMMA TruthIndexes ==
  ASSUME TypeOK, ShapeInv, FlagsTrue, AloneInv, TruthInv,
         NEW x \in Runners,
         Scan(x) \/ Complete(x) \/ NothingChanged(x) \/ Fail(x) \/ Interrupt(x)
  PROVE  TruthInv'
<1>1. run[x] \in RunType /\ run \in [Runners -> RunType]
      /\ index \in [Targets -> [of : Versions, whole : BOOLEAN]]
      /\ source \in 0..MaxSource
  BY TypeParts
<1>2. Begun(x) /\ Indexing(x)
  BY DEF Scan, Complete, NothingChanged, Fail, Interrupt, Begun, Indexing
<1>3. \A y \in Runners : y # x => run[y].at = "off"
  BY <1>2, OthersOff
<1>4. run[x].target \in Targets /\ RunTrue(x)
  BY <1>2 DEF ShapeInv, TruthInv
<1>5. CASE Scan(x)
  <2> DEFINE r == [run[x] EXCEPT !.at = "write", !.seen = source]
  <2>1. /\ r.at = "write" /\ r.seen = source /\ r.start = run[x].start
        /\ r.target = run[x].target
    BY <1>1 DEF RunType
  <2>2. run' = [run EXCEPT ![x] = r] /\ run[x].at = "index"
        /\ UNCHANGED <<identity, index, crashed, source>>
    BY <1>1, <1>5 DEF Scan
  <2> HIDE DEF r
  <2>3. run'[x] = r
    BY <2>2, <1>1
  <2>4. ReadyIsExact' /\ NothingDangles' /\ Transient(run[x].target)
    BY <2>1, <2>2, <1>2, <1>3, <1>4, TruthGoesOn
  <2>5. Since(x, source)'
    BY <2>1, <2>2, <2>3, <1>1, <1>2, <1>4 DEF RunTrue, Since
  <2>6. RunTrue(x)'
    BY <2>1, <2>2, <2>3, <2>4, <2>5, <1>2, <1>4
       DEF RunTrue, Begun, MayPutBack, Transient
  <2> QED BY <2>2, <2>4, <2>6, <1>3, TruthOne
<1>6. ASSUME NEW out, End(x, out), UNCHANGED <<identity, crashed, source>>,
             \A t \in Targets : t # run[x].target => index'[t] = index[t],
             out # "skipped",
             out = "ok" => \/ index'[run[x].target].of = None
                           \/ /\ index'[run[x].target].whole
                              /\ Since(x, index'[run[x].target].of)
      PROVE  TruthInv'
  <2> DEFINE r == [run[x] EXCEPT !.at = "settle", !.seen = None, !.out = out]
  <2>1. /\ r.at = "settle" /\ r.out = out /\ r.start = run[x].start
        /\ r.target = run[x].target
    BY <1>1 DEF RunType
  <2>2. run' = [run EXCEPT ![x] = r]
    BY <1>1, <1>6 DEF End
  <2> HIDE DEF r
  <2>3. run'[x] = r
    BY <2>2, <1>1
  <2>4. ReadyIsExact' /\ NothingDangles' /\ Transient(run[x].target)
    BY <2>1, <2>2, <1>2, <1>3, <1>4, <1>6, TruthGoesOn
  <2>5. ASSUME out = "ok", index'[run[x].target].of # None
        PROVE  /\ index'[run'[x].target].whole
               /\ Since(x, index[run[x].target].of)'
    BY <2>1, <2>3, <2>5, <1>6 DEF Since
  <2>6. RunTrue(x)'
    BY <2>1, <2>3, <2>4, <2>5, <1>2, <1>4, <1>6
       DEF RunTrue, Begun, MayPutBack, Transient
  <2> QED BY <2>2, <2>4, <2>6, <1>3, TruthOne
<1>7. CASE Complete(x)
  <2>1. index'[run[x].target] = [of |-> run[x].seen, whole |-> TRUE]
        /\ \A t \in Targets : t # run[x].target => index'[t] = index[t]
    BY <1>1, <1>4, <1>7 DEF Complete
  <2>2. Since(x, run[x].seen)
    BY <1>4, <1>7 DEF RunTrue, Complete
  <2> QED BY <2>1, <2>2, <1>6, <1>7 DEF Complete
<1>8. CASE NothingChanged(x)
  <2>1. Since(x, run[x].seen)
    BY <1>4, <1>8 DEF RunTrue, NothingChanged
  <2> QED BY <2>1, <1>6, <1>8 DEF NothingChanged
<1>9. CASE Fail(x) \/ Interrupt(x)
  <2>1. \A t \in Targets : t # run[x].target => index'[t] = index[t]
    BY <1>1, <1>9 DEF Fail, Interrupt
  <2> QED BY <2>1, <1>6, <1>9 DEF Fail, Interrupt
<1> QED BY <1>5, <1>7, <1>8, <1>9

\* "ready" is published of what was scanned between two captures of one
\* version; what a search puts back is as true as when it read it.
LEMMA TruthSettle ==
  ASSUME TypeOK, ShapeInv, FlagsTrue, AloneInv, TruthInv,
         NEW x \in Runners, Settle(x)
  PROVE  TruthInv'
<1>1. run[x] \in RunType /\ run \in [Runners -> RunType]
      /\ identity \in [Targets -> Identities]
      /\ source \in 0..MaxSource
  BY TypeParts
<1>2. Begun(x) /\ Indexing(x) /\ run[x].at = "settle"
  BY DEF Settle, Begun, Indexing
<1>3. \A y \in Runners : y # x => run[y].at = "off"
  BY <1>2, OthersOff
<1>4. run[x].target \in Targets /\ RunTrue(x)
  BY <1>2 DEF ShapeInv, TruthInv
<1>t. PICK t \in Targets : t = run[x].target
  BY <1>4
<1>5. PICK end \in Captures :
        /\ Persist(run[x].target, Outcome(x, end))
        /\ run' = [run EXCEPT ![x] = [NoRun EXCEPT !.at = "leave",
                     !.target = run[x].target,
                     !.out = IF run[x].out = "ok" /\ Verdict(x, end).state # "ready"
                             THEN "failed" ELSE run[x].out]]
  BY DEF Settle
<1> DEFINE o == IF run[x].out = "ok" /\ Verdict(x, end).state # "ready"
                THEN "failed" ELSE run[x].out
           r == [NoRun EXCEPT !.at = "leave", !.target = run[x].target, !.out = o]
<1>6. run' = [run EXCEPT ![x] = r]
  BY <1>5
<1> HIDE DEF o
<1>7. r.at = "leave"
  BY DEF NoRun
<1> HIDE DEF r
<1>8. RunTrue(x)'
  BY <1>1, <1>6, <1>7 DEF RunTrue, Begun, MayPutBack
<1>9. identity'[t] = Outcome(x, end)
      /\ \A u \in Targets : u # t => identity'[u] = identity[u]
  BY <1>1, <1>t, <1>5 DEF Persist
<1>10. UNCHANGED <<index, crashed>>
  BY DEF Settle
<1>11. run[x].out \in {"ok", "skipped", "failed", "cancelled"}
  BY <1>1, <1>2 DEF RunType, Outs, ShapeInv
<1>12. ASSUME run[x].out = "ok"
       PROVE  /\ Outcome(x, end).state \notin {"indexing", "pending"}
              /\ Outcome(x, end).state = "ready" /\ index[t].of # None =>
                   index[t].whole /\ index[t].of = Outcome(x, end).of
  <2>1. Outcome(x, end) = Verdict(x, end)
    BY <1>12 DEF Outcome
  <2>2. Verdict(x, end).state \in {"ready", "error", "source_changed"}
    BY DEF Verdict, Ready, Plain
  <2>3. Verdict(x, end).state = "ready" =>
          end # None /\ end = run[x].start /\ Verdict(x, end).of = end
    BY DEF Verdict, Ready, Plain
  <2>4. end # None => end = source
    BY DEF Captures
  <2>5. Verdict(x, end).state = "ready" /\ index[t].of # None =>
          index[t].whole /\ index[t].of = end
    BY <2>3, <2>4, <1>1, <1>2, <1>4, <1>t, <1>12 DEF RunTrue, Since
  <2> QED BY <2>1, <2>2, <2>3, <2>5
<1>13. ASSUME run[x].out = "skipped"
       PROVE  /\ ~crashed => Outcome(x, end).state \notin {"indexing", "pending"}
              /\ Outcome(x, end).state = "ready" /\ index[t].of # None =>
                   index[t].whole /\ index[t].of = Outcome(x, end).of
  <2>1. Outcome(x, end) = run[x].before
    BY <1>13 DEF Outcome
  <2>2. MayPutBack(x)
    BY <1>2, <1>13 DEF MayPutBack
  <2> QED BY <2>1, <2>2, <1>4, <1>t DEF RunTrue, Exact
<1>14. ASSUME run[x].out \in {"failed", "cancelled"}
       PROVE  Outcome(x, end).state \notin {"indexing", "pending", "ready"}
  BY <1>14 DEF Outcome, Plain
<1>15. ReadyIsExact'
  <2>1. \A u \in Targets : u # t => identity'[u] = identity[u] /\ index'[u] = index[u]
    BY <1>9, <1>10
  <2>2. identity'[t].state = "ready" /\ index'[t].of # None =>
          index'[t].whole /\ index'[t].of = identity'[t].of
    BY <1>9, <1>10, <1>11, <1>12, <1>13, <1>14
  <2> QED BY <2>1, <2>2 DEF TruthInv, ReadyIsExact
<1>16. NothingDangles'
  <2>1. ~crashed => ~Transient(t)'
    BY <1>9, <1>11, <1>12, <1>13, <1>14 DEF Transient
  <2>2. ASSUME NEW u \in Targets, u # t, ~crashed PROVE ~Transient(u)'
    BY <2>2, <1>3, <1>t, <1>9 DEF Transient, TruthInv, NothingDangles
  <2>3. ~crashed' => \A u \in Targets : ~Transient(u)'
    BY <2>1, <2>2, <1>10
  <2> QED BY <2>3 DEF NothingDangles
<1> QED BY <1>3, <1>6, <1>8, <1>15, <1>16, TruthOne

\* Tool calls of a sequential server leave the identities true.
LEMMA TruthCall ==
  ASSUME TypeOK, ShapeInv, SlotInv, FlagsTrue, Sequential, AloneInv, TruthInv,
         NEW c \in Calls, CallStep(c)
  PROVE  TruthInv'
<1>1. run \in [Runners -> RunType] /\ call \in [Calls -> CallType]
      /\ identity \in [Targets -> Identities]
      /\ index \in [Targets -> [of : Versions, whole : BOOLEAN]]
  BY TypeParts
<1>2. ASSUME UNCHANGED <<run, identity, index, source, crashed>>
      PROVE  TruthInv'
  BY <1>2
     DEF TruthInv, RunTrue, Begun, MayPutBack, Exact, Since, Transient, Indexing,
         ReadyIsExact, NothingDangles
<1>3. ASSUME NEW t \in Targets, SearchBlocking(c, t) PROVE TruthInv'
  <2> DEFINE r == [NoRun EXCEPT !.at = "enter", !.target = t]
  <2>1. r.at = "enter"
    BY DEF NoRun
  <2>2. run' = [run EXCEPT ![c] = r]
        /\ UNCHANGED <<identity, index, crashed, source>>
    BY <1>3 DEF SearchBlocking
  <2> HIDE DEF r
  <2>3. \A y \in Runners : run[y].at = "off"
    BY <1>3, Sets
       DEF SearchBlocking, MayCall, Sequential, FlagsTrue, OneJob, AloneInv, Indexing
  <2>4. ~crashed => \A u \in Targets : ~Transient(u)
    BY <2>3, Quiet DEF Begun, TruthInv
  <2>5. RunTrue(c)'
    BY <2>1, <2>2, <1>1, Sets DEF RunTrue, Begun, MayPutBack
  <2>6. ReadyIsExact' /\ NothingDangles'
    BY <2>2, <2>4 DEF TruthInv, ReadyIsExact, NothingDangles, Transient
  <2> QED BY <2>2, <2>3, <2>5, <2>6, Sets, TruthOne
<1>4. ASSUME NEW t \in Targets, Clear(c, t) PROVE TruthInv'
  <2>1. /\ index'[t].of = None
        /\ \A u \in Targets : u # t => index'[u] = index[u]
        /\ UNCHANGED <<run, identity, source, crashed>>
    BY <1>1, <1>4 DEF Clear
  <2>2. ReadyIsExact'
    BY <2>1 DEF TruthInv, ReadyIsExact
  <2>3. NothingDangles'
    BY <2>1 DEF TruthInv, NothingDangles, Transient
  <2>4. ASSUME NEW x \in Runners PROVE RunTrue(x)'
    <3>1. RunTrue(x)
      BY DEF TruthInv
    <3>2. Indexing(x) => run[x].target \in Targets
      BY DEF ShapeInv
    <3>3. CASE run[x].target = t
      BY <3>1, <3>3, <2>1
         DEF RunTrue, Begun, MayPutBack, Exact, Since, Transient
    <3>4. CASE run[x].target # t
      BY <3>1, <3>2, <3>4, <2>1
         DEF RunTrue, Begun, MayPutBack, Exact, Since, Transient, Indexing
    <3> QED BY <3>3, <3>4
  <2> QED BY <2>2, <2>3, <2>4 DEF TruthInv
<1>5. CASE Launch(c)
  <2>1. PICK start \in Captures :
          run' = [run EXCEPT ![job.id] =
             [NoRun EXCEPT !.at = "index", !.target = call[c].target, !.start = start]]
    BY <1>5 DEF Launch
  <2>2. PICK t \in Targets, x \in Jobs : t = call[c].target /\ x = job.id
    BY <1>5 DEF Launch, FlagsTrue, OneJob, SlotInv, ShapeInv
  <2> DEFINE r == [NoRun EXCEPT !.at = "index", !.target = t, !.start = start]
  <2>3. r.at = "index" /\ r.target = t /\ r.start = start
        /\ r.before.state = "none"
    BY DEF NoRun, Plain
  <2>4. run' = [run EXCEPT ![x] = r] /\ UNCHANGED <<index, crashed, source>>
    BY <2>1, <2>2, <1>5 DEF Launch
  <2> HIDE DEF r
  <2>5. \A y \in Runners : run[y].at = "off"
    BY <1>5, Sets DEF Launch, FlagsTrue, OneJob, AloneInv, Indexing
  <2>6. ~crashed => \A u \in Targets : ~Transient(u)
    BY <2>5, Quiet DEF Begun, TruthInv
  <2>7. identity'[t].state = "indexing"
        /\ \A u \in Targets : u # t => identity'[u] = identity[u]
    BY <1>1, <1>5, <2>2 DEF Launch, Persist, Plain
  <2>8. run'[x] = r
    BY <2>4, <1>1, Sets
  <2>9. start # None => start \in 0..source
    BY TypeParts, Sets DEF Captures
  <2>10. RunTrue(x)'
    BY <2>3, <2>4, <2>7, <2>8, <2>9
       DEF RunTrue, Begun, MayPutBack, Exact, Transient
  <2>11. ReadyIsExact'
    BY <2>4, <2>7 DEF TruthInv, ReadyIsExact
  <2>12. NothingDangles'
    <3>1. ASSUME NEW u \in Targets, ~crashed', Transient(u)' PROVE u = t
      BY <3>1, <2>4, <2>6, <2>7 DEF Transient
    <3> QED BY <3>1, <2>3, <2>8, Sets DEF NothingDangles
  <2> QED BY <2>4, <2>5, <2>10, <2>11, <2>12, Sets, TruthOne
<1>6. ASSUME NEW t \in Targets, NEW b \in Bgs, Dispatch(c, b, t) PROVE FALSE
  BY <1>6 DEF Dispatch, Sequential
<1> QED
  BY <1>2, <1>3, <1>4, <1>5, <1>6
     DEF CallStep, Ask, Register, TurnAway, LaunchRaises, Cancel

\* Nor does any other step make them false.
LEMMA TruthNext ==
  ASSUME TypeOK, ShapeInv, SlotInv, FlagsTrue, Sequential, AloneInv, TruthInv,
         Next
  PROVE  TruthInv'
<1> USE Sets
<1>1. ASSUME NEW c \in Calls, CallStep(c) PROVE TruthInv'
  BY <1>1, TruthCall
<1>2. ASSUME NEW x \in Runners, Searches(x) PROVE TruthInv'
  BY <1>2, TruthSearches, TruthIndexes, TruthSettle DEF Searches, Indexes
<1>3. ASSUME NEW x \in Runners, run[x].at = "leave", run' = [run EXCEPT ![x] = NoRun],
             UNCHANGED <<identity, index, source, crashed>>
      PROVE  TruthInv'
  <2>1. \A y \in Runners : y # x => run[y].at = "off"
    BY <1>3, OthersOff DEF Indexing
  <2>2. ~crashed => \A t \in Targets : ~Transient(t)
    BY <2>1, <1>3, Quiet DEF Begun, TruthInv
  <2>3. run'[x].at = "off"
    BY <1>3, TypeParts DEF NoRun
  <2>4. RunTrue(x)'
    BY <2>3 DEF RunTrue, Begun, MayPutBack
  <2>5. ReadyIsExact' /\ NothingDangles'
    BY <2>2, <1>3 DEF TruthInv, ReadyIsExact, NothingDangles, Transient
  <2> QED BY <2>1, <2>4, <2>5, <1>3, TruthOne
<1>4. ASSUME NEW x \in Runners, Answer(x) \/ Report(x) \/ Release(x)
      PROVE  TruthInv'
  BY <1>3, <1>4 DEF Answer, Report, Release
<1>5. CASE Overdue
  BY <1>5
     DEF Overdue, TruthInv, RunTrue, Begun, MayPutBack, Exact, Since, Transient,
         Indexing, ReadyIsExact, NothingDangles
<1>6. CASE Edit
  <2>1. source \in Nat /\ source' = source + 1
        /\ UNCHANGED <<run, identity, index, crashed>>
    BY <1>6, TypeParts DEF Edit
  <2>2. \A v : v \in 0..source => v \in 0..source'
    BY <2>1
  <2>3. \A x \in Runners : RunTrue(x)'
    BY <2>1, <2>2
       DEF TruthInv, RunTrue, Begun, MayPutBack, Exact, Since, Transient
  <2> QED BY <2>1, <2>3 DEF TruthInv, ReadyIsExact, NothingDangles, Transient
<1>7. CASE Restart
  <2>1. \A x \in Runners : run'[x].at = "off"
    BY <1>7 DEF Restart, NoRun
  <2>2. \A x \in Runners : RunTrue(x)'
    BY <2>1 DEF RunTrue, Begun, MayPutBack
  <2> QED BY <2>2, <1>7 DEF Restart, TruthInv, ReadyIsExact, NothingDangles
<1> QED
  BY <1>1, <1>2, <1>4, <1>5, <1>6, <1>7 DEF Next, Searches

-----------------------------------------------------------------------------
(* The theorems.                                                           *)

\* The invariant holds in every state, for any targets, calls, background
\* threads and deployments.
THEOREM JobsInvariantHolds == Spec => []IInv
<1>1. Init => IInv
  <2>1. Init => SlotInv
    BY DEF Init, NoJob, SlotInv, Active
  <2> QED
    BY <2>1, TypeInit, ShapeInit, FlagsInit, AloneInit, TruthInit DEF IInv
<1>2. IInv /\ [Next]_vars => IInv'
  <2>1. ASSUME IInv, Next PROVE IInv'
    <3>1. TypeOK' /\ ShapeInv' /\ SlotInv' /\ FlagsTrue'
      BY <2>1, TypeNext, ShapeNext, SlotNext, FlagsNext DEF IInv
    <3>2. Sequential' => Sequential
      BY <2>1, ModeKept DEF IInv, Sequential
    <3>3. Sequential => AloneInv' /\ TruthInv'
      BY <2>1, AloneNext, TruthNext DEF IInv
    <3> QED BY <3>1, <3>2, <3>3 DEF IInv
  <2>2. ASSUME IInv, UNCHANGED vars PROVE IInv'
    BY <2>2
       DEF vars, IInv, TypeOK, ShapeInv, SlotInv, FlagsTrue, OneJob, OneBackground,
           Sequential, AloneInv, TruthInv, RunTrue, Begun, MayPutBack, Exact, Since,
           Transient, Indexing, Active, Busy, ReadyIsExact, NothingDangles
  <2> QED BY <2>1, <2>2
<1> QED BY <1>1, <1>2, PTL DEF Spec

\* Every variable keeps its type.
THEOREM JobsTypeCorrect == Spec => []TypeOK
<1>1. IInv => TypeOK
  BY DEF IInv
<1> QED BY <1>1, JobsInvariantHolds, PTL

\* The job in the slot and the flag of the background reindex are true of the
\* threads, however many calls race for them and however they are deployed
\* (index_directory 1853-1916, BackgroundReindexGuard).
THEOREM FlagsTrueHolds == Spec => []FlagsTrue
<1>1. IInv => FlagsTrue
  BY DEF IInv
<1> QED BY <1>1, JobsInvariantHolds, PTL

\* One run of the indexer at a time, in a sequential server (search_code
\* 1370-1385).
THEOREM OneIndexerHolds == Spec => []OneIndexer
<1>1. IInv => OneIndexer
  BY Single DEF IInv, OneIndexer
<1> QED BY <1>1, JobsInvariantHolds, PTL

\* What project_info.json says of an index is true, in a sequential server
\* (identity_checks.py 1-11).
THEOREM IdentityTrueHolds == Spec => []IdentityTrue
<1>1. IInv => IdentityTrue
  BY DEF IInv, IdentityTrue, TruthInv
<1> QED BY <1>1, JobsInvariantHolds, PTL
=============================================================================
