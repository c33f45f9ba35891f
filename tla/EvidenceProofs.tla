--------------------------- MODULE EvidenceProofs ---------------------------
(***************************************************************************)
(* Proofs about Evidence: the types, and that an identity that is recorded *)
(* and is that of the checkout belongs to an index of exactly its texts,   *)
(* if no file may become again what it was and the hash of a file covers   *)
(* all of it.  In the second part, that what a search offers as evidence   *)
(* is what the identity it is labelled with says, if the server also       *)
(* indexes itself.                                                         *)
(***************************************************************************)
EXTENDS Evidence, TLAPS

-----------------------------------------------------------------------------
(* Types.                                                                  *)

Statuses == {"legacy_missing", "indexing", "pending", "ready", "error",
             "source_changed_during_index"}

InfoType == {i \in [status : Statuses, identity : Identities \cup {None}] :
               i.status = "ready" <=> i.identity # None}

CheckoutType ==
    /\ commits \in Seq(Tree)
    /\ head = Len(commits) /\ head \in 0 .. MaxCommits
    /\ stage \in Tree /\ work \in Tree
    /\ origin \in Origins
    /\ edits \in 0 .. MaxEdits

CaptureType ==
    [at : {"out", "head", "status", "diff", "cached", "others", "done", "failed"},
     repo : Origins \cup {None}, rev : 0 .. MaxCommits,
     codes : [Files -> Codes] \cup {None}, work : Tree \cup {None},
     stage : Tree \cup {None}, others : Tree \cup {None}]

(* A capture has what the commands so far have said.                       *)
Filled(c) ==
    /\ c.at \in {"status", "diff", "cached", "others", "done"} => c.repo \in Origins
    /\ c.at \in {"diff", "cached", "others", "done"} => c.codes \in [Files -> Codes]
    /\ c.at \in {"cached", "others"} => c.work \in Tree
    /\ c.at = "others" => c.stage \in Tree
    /\ c.at = "done" /\ ~(\A f \in Files : c.codes[f] = Clean) =>
         c.work \in Tree /\ c.stage \in Tree /\ c.others \in Tree

RunType ==
    /\ run \in [at : {"idle", "first", "scan", "publish", "second"},
                kind : Kinds \cup {None}, former : InfoType \cup {None},
                start : Identities \cup {None}, made : Tree \cup {None},
                left : SUBSET Files]
    /\ run.at # "idle" => run.former \in InfoType
    /\ run.at \in {"scan", "publish", "second"} => run.made \in Tree
    /\ run.at \in {"publish", "second"} => run.left = {}

QueryType ==
    query \in [at : {"idle", "compare", "search", "chunks", "again", "compare_again",
                     "answered"},
               asked : Identities \cup {None}, hits : SUBSET Files,
               chunks : SUBSET (Files \X Text), answer : Identities \cup {None}]

Types ==
    /\ CheckoutType
    /\ info \in InfoType
    /\ index \in Tree \cup {None} /\ view \in Tree \cup {None}
    /\ taken \in [Actors -> CaptureType]
    /\ \A a \in Actors : Filled(taken[a])
    /\ RunType
    /\ QueryType

-----------------------------------------------------------------------------
(* The inductive invariant.  While a commit is checked out, a file goes    *)
(* from one text to later ones and never back: an old one in the end is    *)
(* not there, a new one was not there in the beginning.                    *)

Later(f, x, y) ==
    \/ x = y
    \/ x # Void /\ y # Void /\ x.body < y.body
    \/ x # Void /\ y = Void /\ Old(f)
    \/ x = Void /\ y # Void /\ ~Old(f)

(* What a code says of a file: that it is not there, or that its text is   *)
(* that of the diff.                                                       *)
Gone(code) == code.edited = "deleted" \/ (code.edited = "same" /\ code.staged = "deleted")
Shown(code) == code # Clean /\ ~Gone(code) /\ code.edited # "untracked"

(* What a capture has read was in the checkout, and is so no later than    *)
(* what is there now.                                                      *)
CaptureInv(c) ==
    c.at \in {"diff", "cached", "others", "done"} /\ c.rev = head =>
      \A f \in Files :
        /\ c.codes[f] = Clean => Later(f, Base(head)[f], work[f])
        /\ Gone(c.codes[f]) => Later(f, Void, work[f])
        /\ c.codes[f].edited = "untracked" /\ c.at = "done"
             => Later(f, c.others[f], work[f])
        /\ Shown(c.codes[f]) /\ c.at # "diff" /\ c.work[f] # Void
             => Later(f, c.work[f], work[f])

(* What an identity says of a file.                                        *)
CodeOf(i, f) == IF i.dirty = None THEN Clean ELSE i.dirty.codes[f]

Said(i, f) ==
    IF CodeOf(i, f) = Clean THEN Base(i.rev)[f]
    ELSE IF Gone(CodeOf(i, f)) THEN Void
    ELSE IF CodeOf(i, f).edited = "untracked" THEN i.dirty.others[f]
    ELSE i.dirty.work[f]

(* A diff that says nothing of a file that is there is of another moment.  *)
Certain(i, f) == Shown(CodeOf(i, f)) => Said(i, f) # Void

Since(i, f, text) == Certain(i, f) => Later(f, Said(i, f), text)

(* What a run has read came after its first identity.                      *)
StartInv ==
    run.at \in {"scan", "publish", "second"} /\ run.start # None /\ run.start.rev = head =>
      \A f \in Files :
        /\ Since(run.start, f, work[f])
        /\ f \notin run.left => /\ Since(run.start, f, run.made[f])
                                /\ Later(f, run.made[f], work[f])

(* And so did an index with that identity.                                 *)
ReadyInv(i) ==
    i # None /\ index # None /\ i.rev = head =>
      \A f \in Files : Since(i, f, index[f]) /\ Later(f, index[f], work[f])

(* No identity is recorded while a run indexes.                            *)
UnreadyInv ==
    /\ run.at \in {"scan", "publish", "second"} => info.identity = None
    /\ run.at = "second" => index = run.made

(* No identity is of a later commit.                                       *)
RevsInv ==
    /\ \A a \in Actors : taken[a].rev <= head
    /\ run.start # None => run.start.rev <= head
    /\ info.identity # None => info.identity.rev <= head
    /\ run.at \in {"first", "scan"} /\ run.former.identity # None =>
         run.former.identity.rev <= head

(* A text is known by its body, which no later edit writes.                *)
Flat == [body : 0 .. MaxEdits, front : {0}]

TextsInv ==
    /\ work \in [Files -> Flat] /\ \A f \in Files : work[f].body <= edits
    /\ index # None => index \in [Files -> Flat]
    /\ run.at \in {"scan", "publish", "second"} => run.made \in [Files -> Flat]

IInv ==
    /\ Types
    /\ TextsInv
    /\ RevsInv
    /\ \A a \in Actors : CaptureInv(taken[a])
    /\ StartInv
    /\ UnreadyInv
    /\ ReadyInv(info.identity)
    /\ run.at \in {"first", "scan"} => ReadyInv(run.former.identity)

-----------------------------------------------------------------------------
(* The types hold.                                                         *)

LEMMA Constants ==
    /\ Fronted \subseteq Files /\ MaxEdits \in Nat /\ MaxEdits > 0
    /\ MaxCommits \in Nat /\ MaxCommits > 0
    /\ None \notin Dirt /\ None \notin Identities
BY ConstantsAssumption, NoneAssumption DEF ConstantsAssumption, NoneAssumption

LEMMA Values ==
    /\ Void \in Text /\ Empty \in Tree /\ First \in Tree
    /\ \A f \in Files : Empty[f] = Void
BY Constants DEF Void, Text, Empty, Tree, First

(* What a commit holds, and what the status says.                          *)
LEMMA CheckoutTypes ==
    ASSUME CheckoutType
    PROVE  /\ \A r \in 0 .. head : Base(r) \in Tree
           /\ [f \in Files |-> Code(f)] \in [Files -> Codes]
           /\ \A f \in Files : edits < MaxEdits => Writings(f) \subseteq Text
<1>1. \A r \in 0 .. head : Base(r) \in Tree
    BY Values DEF CheckoutType, Base
<1>2. \A f \in Files : Code(f) \in Codes
    BY DEF Code, Codes
<1>3. ASSUME NEW f \in Files, edits < MaxEdits
      PROVE  Writings(f) \subseteq Text
  <2>1. edits + 1 \in 0 .. MaxEdits /\ work[f] \in Text
    BY <1>3, Constants DEF CheckoutType, Tree
  <2>2. [work[f] EXCEPT !.front = edits + 1] \in Text
    BY <2>1 DEF Text
  <2>3. /\ [body |-> edits + 1, front |-> 0] \in Text
        /\ [body |-> edits + 1, front |-> edits + 1] \in Text
    BY <2>1, Constants DEF Text
  <2> QED BY <2>2, <2>3 DEF Writings
<1> QED BY <1>1, <1>2, <1>3

(* A capture that has ended gives an identity or, if it failed, none.      *)
LEMMA IdentityType ==
    ASSUME NEW a \in Actors, taken[a] \in CaptureType, Filled(taken[a])
    PROVE  /\ taken[a].at = "failed" => Identity(a) = None
           /\ taken[a].at = "done" => /\ Identity(a) \in Identities
                                      /\ Identity(a) # None
                                      /\ Identity(a).rev = taken[a].rev
<1> DEFINE c == taken[a]
           clean == c.at = "done" /\ \A f \in Files : c.codes[f] = Clean
           d == IF clean THEN None
                ELSE [codes |-> c.codes, work |-> c.work,
                      stage |-> c.stage, others |-> c.others]
<1>1. c.at = "failed" => Identity(a) = None
    BY DEF Identity
<1>2. c.at = "done" => Identity(a) = [repo |-> c.repo, rev |-> c.rev, dirty |-> d]
    BY DEF Identity
<1>3. c.at = "done" => d \in Dirt \cup {None}
    BY DEF Filled, Dirt
<1>4. c.rev \in 0 .. MaxCommits /\ (c.at = "done" => c.repo \in Origins)
    BY DEF CaptureType, Filled
<1> HIDE DEF c, d
<1>5. c.at = "done" => /\ Identity(a) \in Identities
                       /\ Identity(a).rev = c.rev
    BY <1>2, <1>3, <1>4 DEF Identities
<1> QED BY <1>1, <1>5, Constants DEF c

(* What may have been indexed before has the texts of the first commit.    *)
LEMMA FirstIndex ==
    ASSUME Init
    PROVE  index # None => index = First /\ commits = <<First>>
<1>1. CASE commits = <<>>
    BY <1>1 DEF Init
<1>2. CASE commits = <<First>>
  <2>1. DOMAIN commits = {1} /\ commits[1] = First
    BY <1>2
  <2> QED BY <1>2, <2>1 DEF Init
<1> QED BY <1>1, <1>2 DEF Init

LEMMA TypesInit == Init => Types
<1> SUFFICES ASSUME Init PROVE Types
    OBVIOUS
<1>1. CheckoutType
  <2>1. CASE commits = <<>>
    BY <2>1, Values, Constants DEF Init, CheckoutType, Base
  <2>2. CASE commits = <<First>>
    <3>1. Len(commits) = 1 /\ commits[1] = First /\ commits \in Seq(Tree)
      BY <2>2, Values
    <3> QED BY <3>1, Values, Constants DEF Init, CheckoutType, Base
  <2> QED BY <2>1, <2>2 DEF Init
<1>2. info \in InfoType
    BY Constants DEF Init, InfoType, Statuses
<1>3. NoCapture \in CaptureType /\ Filled(NoCapture)
    BY Constants DEF NoCapture, CaptureType, Filled
<1>4. taken \in [Actors -> CaptureType] /\ \A a \in Actors : Filled(taken[a])
    BY <1>3 DEF Init
<1>5. RunType /\ QueryType
    BY DEF Init, RunType, QueryType, NoRun, NoQuery
<1>6. index \in Tree \cup {None} /\ view \in Tree \cup {None}
    BY FirstIndex, Values DEF Init
<1> QED BY <1>1, <1>2, <1>4, <1>5, <1>6 DEF Types

(* A step of a capture.                                                    *)
LEMMA MovesTypes ==
    ASSUME Types, NEW a \in Actors, NEW from, NEW c \in CaptureType, Filled(c),
           Moves(a, from, c)
    PROVE  Types'
<1>1. /\ taken' = [taken EXCEPT ![a] = c]
      /\ UNCHANGED <<checkout, info, index, view, run, query>>
    BY DEF Moves
<1>2. taken' \in [Actors -> CaptureType] /\ \A b \in Actors : Filled(taken'[b])
    BY <1>1 DEF Types
<1> QED BY <1>1, <1>2 DEF Types, CheckoutType, RunType, QueryType, checkout

LEMMA CapturesTypes ==
    ASSUME Types, NEW a \in Actors, Captures(a)
    PROVE  Types'
<1> DEFINE c == taken[a]
           codes == [f \in Files |-> Code(f)]
<1>1. c \in CaptureType /\ Filled(c) /\ CheckoutType
    BY DEF Types
<1>2. codes \in [Files -> Codes] /\ head \in 0 .. MaxCommits /\ origin \in Origins
      /\ work \in Tree /\ stage \in Tree /\ Void \in Text
    BY <1>1, CheckoutTypes, Values DEF CheckoutType
<1> HIDE DEF c, codes
<1>3. CASE ReadHead(a)
  <2> DEFINE d == [c EXCEPT !.at = "status", !.repo = origin, !.rev = head]
  <2>1. d \in CaptureType /\ Filled(d)
    BY <1>1, <1>2 DEF CaptureType, Filled
  <2>2. Moves(a, "head", d)
    BY <1>3 DEF ReadHead, c
  <2> HIDE DEF d
  <2> QED BY <2>1, <2>2, MovesTypes
<1>4. CASE ReadStatus(a)
  <2> DEFINE clean == \A f \in Files : codes[f] = Clean
             d == [c EXCEPT !.codes = codes, !.at = IF clean THEN "done" ELSE "diff"]
  <2>1. c.at = "status" /\ Moves(a, "status", d)
    BY <1>4 DEF ReadStatus, Moves, c, codes
  <2>2. d \in CaptureType /\ d.codes = codes /\ d.repo = c.repo
        /\ d.at = IF clean THEN "done" ELSE "diff"
    BY <1>1, <1>2 DEF CaptureType
  <2> HIDE DEF d
  <2>3. Filled(d)
    BY <1>1, <1>2, <2>1, <2>2 DEF Filled
  <2> QED BY <2>1, <2>2, <2>3, MovesTypes
<1>5. CASE DiffWork(a)
  <2> DEFINE w == [f \in Files |-> IF stage[f] # Void THEN work[f] ELSE Void]
             d == [c EXCEPT !.at = "cached", !.work = w]
  <2>1. c.at = "diff" /\ Moves(a, "diff", d)
    BY <1>5 DEF DiffWork, Moves, c
  <2>2. w \in Tree
    BY <1>2 DEF Tree
  <2> HIDE DEF w
  <2>3. d \in CaptureType /\ Filled(d)
    BY <1>1, <2>1, <2>2 DEF CaptureType, Filled
  <2> HIDE DEF d
  <2> QED BY <2>1, <2>3, MovesTypes
<1>6. CASE DiffStage(a)
  <2> DEFINE d == [c EXCEPT !.at = "others", !.stage = stage]
  <2>1. c.at = "cached" /\ Moves(a, "cached", d)
    BY <1>6 DEF DiffStage, Moves, c
  <2>2. d \in CaptureType /\ Filled(d)
    BY <1>1, <1>2, <2>1 DEF CaptureType, Filled
  <2> HIDE DEF d
  <2> QED BY <2>1, <2>2, MovesTypes
<1>7. CASE ReadOthers(a)
  <2> DEFINE o == Others(c.codes)
             d == [c EXCEPT !.at = "done", !.others = o]
  <2>1. c.at = "others" /\ Moves(a, "others", d)
    BY <1>7 DEF ReadOthers, Moves, c
  <2>2. o \in Tree
    BY <1>2 DEF Others, Tree
  <2> HIDE DEF o
  <2>3. d \in CaptureType /\ Filled(d)
    BY <1>1, <2>1, <2>2 DEF CaptureType, Filled
  <2> HIDE DEF d
  <2> QED BY <2>1, <2>3, MovesTypes
<1>8. CASE CaptureFails(a)
  <2> DEFINE d == [NoCapture EXCEPT !.at = "failed"]
  <2>1. Moves(a, c.at, d)
    BY <1>8 DEF CaptureFails, c
  <2>2. d \in CaptureType /\ Filled(d)
    BY Constants DEF CaptureType, Filled, NoCapture
  <2> HIDE DEF d
  <2> QED BY <2>1, <2>2, MovesTypes
<1> QED BY <1>3, <1>4, <1>5, <1>6, <1>7, <1>8 DEF Captures

(* What people do.                                                         *)
LEMMA PeopleTypes ==
    ASSUME Types, People
    PROVE  Types'
<1>1. UNCHANGED <<info, index, view, taken, run, query>>
    BY DEF People
<1>2. CheckoutType /\ Void \in Text
    BY Values DEF Types
<1>3. CheckoutType'
  <2> USE <1>2, Constants DEF CheckoutType
  <2>1. ASSUME NEW f \in Files, Edit(f) PROVE CheckoutType'
    <3>1. PICK text \in Writings(f) : work' = [work EXCEPT ![f] = text]
      BY <2>1 DEF Edit
    <3>2. text \in Text
      BY <2>1, CheckoutTypes DEF Edit
    <3> QED BY <2>1, <3>1, <3>2 DEF Edit, Tree
  <2>2. ASSUME NEW f \in Files, Drop(f) PROVE CheckoutType'
    BY <2>2 DEF Drop, Tree
  <2>3. ASSUME NEW f \in Files, Add(f) PROVE CheckoutType'
    BY <2>3 DEF Add, Tree
  <2>4. ASSUME NEW f \in Files, Pull(f) PROVE CheckoutType'
    <3>1. PICK text \in Writings(f) : work' = [work EXCEPT ![f] = text]
      BY <2>4 DEF Pull
    <3>2. text \in Text
      BY <2>4, CheckoutTypes DEF Pull
    <3>3. work' \in Tree
      BY <3>1, <3>2 DEF Tree
    <3>4. /\ commits' = Append(commits, work') /\ head' = head + 1 /\ stage' = work'
          /\ origin' = origin /\ edits' = edits + 1 /\ edits < MaxEdits
          /\ Len(commits) < MaxCommits
      BY <2>4 DEF Pull
    <3>5. commits' \in Seq(Tree) /\ Len(commits') = Len(commits) + 1
      BY <3>3, <3>4
    <3> QED BY <3>3, <3>4, <3>5
  <2>5. ASSUME Commit PROVE CheckoutType'
    <3>1. /\ commits' = Append(commits, stage) /\ head' = head + 1
          /\ Len(commits) < MaxCommits
          /\ UNCHANGED <<stage, work, origin, edits>>
      BY <2>5 DEF Commit
    <3>2. commits' \in Seq(Tree) /\ Len(commits') = Len(commits) + 1
      BY <3>1
    <3> QED BY <3>1, <3>2
  <2> QED BY <2>1, <2>2, <2>3, <2>4, <2>5 DEF People
<1> QED BY <1>1, <1>3 DEF Types, RunType, QueryType

(* An actor begins a capture or forgets it.                                *)
LEMMA TakenTypes ==
    ASSUME Types, NEW a \in Actors, Begin(a) \/ Forget(a) \/ UNCHANGED taken
    PROVE  taken' \in [Actors -> CaptureType] /\ \A b \in Actors : Filled(taken'[b])
<1> DEFINE c == [NoCapture EXCEPT !.at = "head"]
<1>1. /\ NoCapture \in CaptureType /\ Filled(NoCapture)
      /\ c \in CaptureType /\ Filled(c)
    BY Constants DEF NoCapture, CaptureType, Filled
<1> HIDE DEF c
<1>2. \/ taken' = [taken EXCEPT ![a] = c]
      \/ taken' = [taken EXCEPT ![a] = NoCapture]
      \/ taken' = taken
    BY DEF Begin, Forget, c
<1> QED BY <1>1, <1>2 DEF Types

(* The steps of a run.                                                     *)
LEMMA RunsTypes ==
    ASSUME Types,
           \/ \E kind \in Kinds : Start(kind)
           \/ Pend \/ Skip \/ (\E f \in Files : Scan(f)) \/ Publish \/ Fail \/ Finalize
           \/ Clear
    PROVE  Types'
<1>1. /\ info \in InfoType /\ index \in Tree \cup {None} /\ view \in Tree \cup {None}
      /\ RunType /\ taken["run"] \in CaptureType /\ Filled(taken["run"])
      /\ work \in Tree /\ "run" \in Actors
    BY DEF Types, CheckoutType, Actors
<1>2. \A s \in Statuses \ {"ready"} : [status |-> s, identity |-> None] \in InfoType
    BY DEF InfoType
<1>3. \A i \in Identities : [status |-> "ready", identity |-> i] \in InfoType
    BY Constants DEF InfoType, Statuses
<1>4. /\ Identity("run") \in Identities \cup {None} \/ ~Captured("run")
    BY <1>1, IdentityType DEF Captured
<1>5. ASSUME NEW kind \in Kinds, Start(kind) PROVE Types'
  <2>1. taken' \in [Actors -> CaptureType] /\ \A b \in Actors : Filled(taken'[b])
    BY <1>1, <1>5, TakenTypes DEF Start
  <2>2. RunType'
    BY <1>1, <1>5 DEF Start, RunType, NoRun
  <2> QED BY <1>5, <2>1, <2>2 DEF Start, Types, CheckoutType, checkout, QueryType
<1>6. CASE Pend
  <2>1. taken' \in [Actors -> CaptureType] /\ \A b \in Actors : Filled(taken'[b])
    BY <1>1, <1>6, TakenTypes DEF Pend
  <2>2. /\ run.at = "first" /\ Captured("run")
        /\ run' = [run EXCEPT !.at = "scan", !.start = Identity("run"),
                              !.made = Empty, !.left = Files]
    BY <1>6 DEF Pend
  <2>3. RunType'
    BY <1>1, <1>4, <2>2, Values DEF RunType
  <2>4. info' \in InfoType
    BY <1>2, <1>6 DEF Pend, Statuses
  <2> QED BY <1>6, <2>1, <2>3, <2>4 DEF Pend, Types, CheckoutType, checkout, QueryType
<1>7. CASE Skip
  <2>1. info' \in InfoType
    BY <1>1, <1>7 DEF Skip, RunType
  <2>2. RunType'
    BY <1>7 DEF Skip, RunType, NoRun
  <2> QED BY <1>7, <2>1, <2>2 DEF Skip, Types, CheckoutType, checkout, QueryType
<1>8. ASSUME NEW f \in Files, Scan(f) PROVE Types'
  <2> DEFINE text == Chunked(f)
             at == IF run.left = {f} THEN "publish" ELSE "scan"
             made == [run.made EXCEPT ![f] = text]
  <2>1. text \in Text
    BY <1>1 DEF Chunked, Tree
  <2>2. /\ run.at = "scan" /\ f \in run.left
        /\ run' = [run EXCEPT !.made[f] = text, !.left = run.left \ {f}, !.at = at]
        /\ UNCHANGED <<checkout, info, index, view, taken, query>>
    BY <1>8 DEF Scan
  <2> HIDE DEF text, at
  <2>3. made \in Tree
    BY <1>1, <2>1, <2>2 DEF RunType, Tree
  <2>4. run' = [run EXCEPT !.made = made, !.left = run.left \ {f}, !.at = at]
    BY <1>1, <2>2 DEF RunType
  <2> HIDE DEF made
  <2>5. at \in {"scan", "publish"} /\ (at = "publish" => run.left \ {f} = {})
    BY DEF at
  <2>6. RunType'
    BY <1>1, <2>2, <2>3, <2>4, <2>5 DEF RunType
  <2> QED BY <2>2, <2>6 DEF Types, CheckoutType, checkout, QueryType
<1>9. CASE Publish
  <2>1. taken' \in [Actors -> CaptureType] /\ \A b \in Actors : Filled(taken'[b])
    BY <1>1, <1>9, TakenTypes DEF Publish
  <2>2. RunType' /\ index' \in Tree /\ view' \in Tree \cup {None}
    BY <1>1, <1>9 DEF Publish, RunType
  <2> QED BY <1>9, <2>1, <2>2 DEF Publish, Types, CheckoutType, checkout, QueryType
<1>10. CASE Fail
  <2>1. info' \in InfoType /\ RunType'
    BY <1>2, <1>10 DEF Fail, RunType, NoRun, Statuses
  <2> QED BY <1>10, <2>1 DEF Fail, Types, CheckoutType, checkout, QueryType
<1>11. CASE Finalize
  <2>1. taken' \in [Actors -> CaptureType] /\ \A b \in Actors : Filled(taken'[b])
    BY <1>1, <1>11, TakenTypes DEF Finalize
  <2> DEFINE end == Identity("run")
  <2>2. end \in Identities \cup {None}
    BY <1>4, <1>11 DEF Finalize
  <2>3. /\ info' = IF run.start = None \/ end = None
                   THEN [status |-> "error", identity |-> None]
                   ELSE IF run.start # end
                   THEN [status |-> "source_changed_during_index", identity |-> None]
                   ELSE [status |-> "ready", identity |-> end]
        /\ run' = NoRun
        /\ UNCHANGED <<checkout, index, view, query>>
    BY <1>11 DEF Finalize
  <2> HIDE DEF end
  <2>4. info' \in InfoType
    BY <1>2, <1>3, <2>2, <2>3 DEF Statuses
  <2>5. RunType'
    BY <2>3 DEF RunType, NoRun
  <2> QED BY <2>1, <2>3, <2>4, <2>5 DEF Types, CheckoutType, checkout, QueryType
<1>12. CASE Clear
    BY <1>1, <1>12 DEF Clear, Types, CheckoutType, checkout, RunType, QueryType
<1> QED BY <1>5, <1>6, <1>7, <1>8, <1>9, <1>10, <1>11, <1>12

(* The steps of a search for evidence.                                     *)
LEMMA QueriesTypes ==
    ASSUME Types, ReadInfo \/ Opened \/ Load \/ Search \/ ReadChunks \/ Attach
    PROVE  Types'
<1>1. /\ info \in InfoType /\ index \in Tree \cup {None} /\ view \in Tree \cup {None}
      /\ QueryType /\ "query" \in Actors
    BY DEF Types, Actors
<1>2. Loaded \in Tree \cup {None}
    BY <1>1 DEF Loaded
<1>3. CASE ReadInfo
  <2>1. Asks(info.identity = query.asked)
        /\ UNCHANGED <<checkout, info, index, view, run>>
    BY <1>3 DEF ReadInfo
  <2>2. Begin("query") \/ UNCHANGED taken
    BY <2>1 DEF Asks
  <2>3. info.identity \in Identities \cup {None}
    BY <1>1 DEF InfoType
  <2>4. \/ query' = [query EXCEPT !.asked = info.identity,
                                 !.at = IF query.at = "idle" THEN "compare"
                                        ELSE "compare_again"]
        \/ query' = [query EXCEPT !.at = "answered", !.asked = None]
    BY <2>1 DEF Asks
  <2>5. QueryType'
    BY <1>1, <2>3, <2>4 DEF QueryType
  <2>6. taken' \in [Actors -> CaptureType] /\ \A b \in Actors : Filled(taken'[b])
    BY <1>1, <2>2, TakenTypes
  <2> QED BY <2>1, <2>5, <2>6 DEF Types, CheckoutType, checkout, RunType
<1>4. CASE Opened
  <2>1. taken' \in [Actors -> CaptureType] /\ \A b \in Actors : Filled(taken'[b])
    BY <1>1, <1>4, TakenTypes DEF Opened
  <2>2. QueryType'
    BY <1>1, <1>4 DEF Opened, QueryType
  <2> QED BY <1>4, <2>1, <2>2 DEF Opened, Types, CheckoutType, checkout, RunType
<1>5. CASE Load
    BY <1>2, <1>5 DEF Load, Types, CheckoutType, checkout, RunType, QueryType
<1>6. CASE Search
  <2>1. QueryType'
    BY <1>1, <1>6 DEF Search, QueryType
  <2> QED BY <1>2, <1>6, <2>1 DEF Search, Types, CheckoutType, checkout, RunType
<1>7. CASE ReadChunks
  <2> DEFINE c == {<<f, Loaded[f]>> : f \in {g \in query.hits :
                                               Loaded # None /\ Loaded[g] # Void}}
  <2>1. c \in SUBSET (Files \X Text)
    BY <1>1, <1>2 DEF QueryType, Tree
  <2>2. query' = [query EXCEPT !.at = "again", !.hits = {}, !.chunks = c]
    BY <1>7 DEF ReadChunks
  <2> HIDE DEF c
  <2>3. QueryType'
    BY <1>1, <2>1, <2>2 DEF QueryType
  <2> QED BY <1>2, <1>7, <2>3 DEF ReadChunks, Types, CheckoutType, checkout, RunType
<1>8. CASE Attach
  <2>1. taken' \in [Actors -> CaptureType] /\ \A b \in Actors : Filled(taken'[b])
    BY <1>1, <1>8, TakenTypes DEF Attach
  <2>2. QueryType'
    BY <1>1, <1>8 DEF Attach, QueryType
  <2> QED BY <1>8, <2>1, <2>2 DEF Attach, Types, CheckoutType, checkout, RunType
<1> QED BY <1>3, <1>4, <1>5, <1>6, <1>7, <1>8

LEMMA TypesStep == Types /\ [Next]_vars => Types'
<1> SUFFICES ASSUME Types, [Next]_vars PROVE Types'
    OBVIOUS
<1>1. CASE UNCHANGED vars
    BY <1>1 DEF vars, checkout, Types, CheckoutType, RunType, QueryType
<1>2. CASE Next
    BY <1>2, PeopleTypes, CapturesTypes, RunsTypes, QueriesTypes DEF Next
<1> QED BY <1>1, <1>2

(* Every variable keeps its type, whoever edits, commits and fails.        *)
THEOREM EvidenceTypeCorrect == Spec => []TypeOK
<1>1. Types => TypeOK
    BY DEF Types, TypeOK, CheckoutType, InfoType, Statuses, RunType, QueryType, CaptureType
<1> QED BY <1>1, TypesInit, TypesStep, PTL DEF Spec

-----------------------------------------------------------------------------
(* Time goes one way.                                                      *)

(* Later is transitive, and of two texts only one is the later.            *)
LEMMA LaterOrder ==
    ASSUME NEW f \in Files, NEW x \in Text, NEW y \in Text
    PROVE  /\ Later(f, x, x)
           /\ Later(f, x, y) /\ Later(f, y, x) => x = y
           /\ \A z \in Text : Later(f, x, y) /\ Later(f, y, z) => Later(f, x, z)
<1>1. \A t \in Text : t.body \in Nat
    BY Constants DEF Text
<1> QED BY <1>1 DEF Later

(* What people do to the files while a commit is checked out.              *)
LEMMA PeopleOnward ==
    ASSUME Types, TextsInv, ~Rewinds, Fronted = {}, People
    PROVE  /\ TextsInv'
           /\ \/ head' = head + 1
              \/ /\ head' = head /\ commits' = commits
                 /\ \A f \in Files : Later(f, work[f], work'[f])
<1> USE Constants
<1>1. /\ UNCHANGED <<info, index, view, taken, run, query>>
      /\ work \in [Files -> Flat] /\ work \in Tree /\ \A f \in Files : work[f].body <= edits
      /\ edits \in 0 .. MaxEdits /\ head \in Nat
    BY DEF People, TextsInv, Types, CheckoutType
<1>2. Void \in Flat /\ Void.body = 0 /\ Flat \subseteq Text
    BY DEF Void, Flat, Text
<1>3. ASSUME NEW f \in Files, edits < MaxEdits, NEW text \in Writings(f)
      PROVE  text \in Flat /\ text.body = edits + 1 /\ text # Void
  <2>1. text = [body |-> edits + 1, front |-> 0]
    BY <1>3 DEF Writings
  <2> QED BY <1>1, <1>2, <1>3, <2>1 DEF Flat
<1>4. TextsInv' \/ work' # work
  <2>1. \/ UNCHANGED <<index, run>> /\ edits' >= edits /\ edits' \in Nat
        \/ work' # work
    BY <1>1 DEF People, Edit, Drop, Add, Commit, Pull
  <2>2. \A f \in Files : work[f].body \in Nat
    BY <1>1 DEF Flat
  <2>3. work' = work => \A f \in Files : work'[f].body <= edits'
    BY <1>1, <2>1, <2>2
  <2> QED BY <1>1, <2>1, <2>3 DEF TextsInv
<1>5. ASSUME work' \in [Files -> Flat], \A g \in Files : work'[g].body <= edits'
      PROVE  TextsInv'
  BY <1>1, <1>5 DEF TextsInv
<1>6. ASSUME NEW f \in Files, Edit(f)
      PROVE  TextsInv' /\ head' = head /\ commits' = commits
             /\ \A g \in Files : Later(g, work[g], work'[g])
  <2>1. PICK text \in Writings(f) : work' = [work EXCEPT ![f] = text]
    BY <1>6 DEF Edit
  <2>2. /\ edits < MaxEdits /\ edits' = edits + 1 /\ (work[f] # Void \/ ~Old(f))
        /\ head' = head /\ commits' = commits
    BY <1>6 DEF Edit
  <2>3. text \in Flat /\ text.body = edits + 1 /\ text # Void
    BY <1>3, <2>1, <2>2
  <2>4. work' \in [Files -> Flat] /\ \A g \in Files : work'[g].body <= edits'
    BY <1>1, <2>1, <2>2, <2>3 DEF Flat
  <2>5. Later(f, work[f], text)
    <3>1. work[f].body < text.body
      BY <1>1, <2>3 DEF Flat
    <3> QED BY <2>2, <2>3, <3>1 DEF Later
  <2>6. \A g \in Files : Later(g, work[g], work'[g])
    BY <1>1, <2>1, <2>5 DEF Later
  <2> QED BY <1>5, <2>2, <2>4, <2>6
<1>7. ASSUME NEW f \in Files, Drop(f)
      PROVE  TextsInv' /\ head' = head /\ commits' = commits
             /\ \A g \in Files : Later(g, work[g], work'[g])
  <2>1. /\ work[f] # Void /\ Old(f) /\ work' = [work EXCEPT ![f] = Void]
        /\ UNCHANGED <<head, commits, edits>>
    BY <1>7 DEF Drop
  <2>2. work' \in [Files -> Flat] /\ \A g \in Files : work'[g].body <= edits'
    BY <1>1, <1>2, <2>1 DEF Flat
  <2>3. Later(f, work[f], Void)
    BY <2>1 DEF Later
  <2>4. \A g \in Files : Later(g, work[g], work'[g])
    BY <1>1, <2>1, <2>3 DEF Later
  <2> QED BY <1>5, <2>1, <2>2, <2>4
<1>8. ASSUME NEW f \in Files, Add(f)
      PROVE  TextsInv' /\ head' = head /\ commits' = commits
             /\ \A g \in Files : Later(g, work[g], work'[g])
    BY <1>4, <1>8 DEF Add, Later
<1>9. CASE Commit
    BY <1>4, <1>9 DEF Commit
<1>10. ASSUME NEW f \in Files, Pull(f)
       PROVE  TextsInv' /\ head' = head + 1
  <2>1. PICK text \in Writings(f) : work' = [work EXCEPT ![f] = text]
    BY <1>10 DEF Pull
  <2>2. edits < MaxEdits /\ edits' = edits + 1 /\ head' = head + 1
    BY <1>10 DEF Pull
  <2>3. text \in Flat /\ text.body = edits + 1
    BY <1>3, <2>1, <2>2
  <2>4. work' \in [Files -> Flat] /\ \A g \in Files : work'[g].body <= edits'
    BY <1>1, <2>1, <2>2, <2>3 DEF Flat
  <2> QED BY <1>5, <2>2, <2>4
<1> QED BY <1>6, <1>7, <1>8, <1>9, <1>10 DEF People

(* What was so remains so while the commit stays.                          *)
LEMMA Onward ==
    ASSUME Types, Types', head' = head, commits' = commits,
           NEW f \in Files, Later(f, work[f], work'[f])
    PROVE  /\ \A x \in Text : Later(f, x, work[f]) => Later(f, x, work[f])'
           /\ \A x, y \in Text : Later(f, x, y) <=> Later(f, x, y)'
           /\ Base(head)' = Base(head)
<1>1. work[f] \in Text /\ work'[f] \in Text
    BY DEF Types, CheckoutType, Tree
<1>2. \A x, y \in Text : Later(f, x, y) <=> Later(f, x, y)'
    BY DEF Later, Old
<1>3. \A x \in Text : Later(f, x, work[f]) => Later(f, x, work'[f])
    BY <1>1, LaterOrder
<1>4. \A x \in Text : Later(f, x, work'[f]) => Later(f, x, work[f])'
    BY DEF Later, Old
<1> QED BY <1>2, <1>3, <1>4 DEF Base

(* A capture that goes on, or is left alone, while the files do.           *)
LEMMA CaptureOnward ==
    ASSUME Types, Types', head' = head, commits' = commits,
           \A f \in Files : Later(f, work[f], work'[f]),
           NEW c \in CaptureType, Filled(c), CaptureInv(c)
    PROVE  CaptureInv(c)'
<1> SUFFICES ASSUME c.at \in {"diff", "cached", "others", "done"}, c.rev = head,
                    NEW f \in Files
             PROVE  /\ c.codes[f] = Clean => Later(f, Base(head)[f], work[f])'
                    /\ Gone(c.codes[f]) => Later(f, Void, work[f])'
                    /\ c.codes[f].edited = "untracked" /\ c.at = "done"
                         => Later(f, c.others[f], work[f])'
                    /\ Shown(c.codes[f]) /\ c.at # "diff" /\ c.work[f] # Void
                         => Later(f, c.work[f], work[f])'
    BY DEF CaptureInv
<1>1. /\ c.codes[f] = Clean => Later(f, Base(head)[f], work[f])
      /\ Gone(c.codes[f]) => Later(f, Void, work[f])
      /\ c.codes[f].edited = "untracked" /\ c.at = "done"
           => Later(f, c.others[f], work[f])
      /\ Shown(c.codes[f]) /\ c.at # "diff" /\ c.work[f] # Void
           => Later(f, c.work[f], work[f])
    BY DEF CaptureInv
<1>2. Base(head)[f] \in Text /\ Void \in Text
    BY CheckoutTypes, Values DEF Types, CheckoutType, Tree
<1>3. /\ c.codes[f].edited = "untracked" /\ c.at = "done" => c.others[f] \in Text
      /\ Shown(c.codes[f]) /\ c.at # "diff" => c.work[f] \in Text
    BY DEF Filled, Clean, Shown, Tree
<1>4. /\ \A x \in Text : Later(f, x, work[f]) => Later(f, x, work[f])'
      /\ Base(head)' = Base(head)
    BY Onward
<1> QED BY <1>1, <1>2, <1>3, <1>4

(* What an identity says of a file is a text.                              *)
LEMMA SaidText ==
    ASSUME Types, NEW i \in Identities, i.rev <= head, NEW f \in Files
    PROVE  Said(i, f) \in Text
<1>1. i.rev \in 0 .. head /\ i.dirty \in Dirt \cup {None}
    BY Constants DEF Identities, Types, CheckoutType
<1>2. Base(i.rev)[f] \in Text /\ Void \in Text
    BY <1>1, CheckoutTypes, Values DEF Types, Tree
<1>3. i.dirty # None => i.dirty.others[f] \in Text /\ i.dirty.work[f] \in Text
    BY <1>1 DEF Dirt, Tree
<1> QED BY <1>2, <1>3 DEF Said, CodeOf

(* While the commit stays, what an identity says does too.                 *)
LEMMA SinceOnward ==
    ASSUME Types, Types', head' = head, commits' = commits,
           NEW i \in Identities, i.rev <= head, NEW f \in Files, NEW text \in Text
    PROVE  Since(i, f, text) <=> Since(i, f, text)'
<1>1. Said(i, f) \in Text
    BY SaidText
<1>2. (Said(i, f))' = Said(i, f)
    BY DEF Said, Base, CodeOf, Gone
<1>3. (Certain(i, f))' <=> Certain(i, f)
    BY <1>2 DEF Certain, Shown, CodeOf, Gone
<1>4. \A x, y \in Text : Later(f, x, y) <=> Later(f, x, y)'
    BY DEF Later, Old
<1> QED BY <1>1, <1>2, <1>3, <1>4 DEF Since

(* A text that is later than one that came after an identity did too.      *)
LEMMA SinceLater ==
    ASSUME Types, NEW i \in Identities, i.rev <= head, NEW f \in Files,
           NEW x \in Text, NEW y \in Text, Since(i, f, x), Later(f, x, y)
    PROVE  Since(i, f, y)
BY SaidText, LaterOrder DEF Since

LEMMA ReadyOnward ==
    ASSUME Types, Types', head' = head, commits' = commits,
           \A f \in Files : Later(f, work[f], work'[f]), index' = index,
           NEW i \in Identities \cup {None}, ReadyInv(i)
    PROVE  ReadyInv(i)'
<1> SUFFICES ASSUME i # None, index # None, i.rev = head, NEW f \in Files
             PROVE  Since(i, f, index[f])' /\ Later(f, index[f], work[f])'
    BY DEF ReadyInv
<1>1. Since(i, f, index[f]) /\ Later(f, index[f], work[f])
    BY DEF ReadyInv
<1>2. index[f] \in Text /\ i \in Identities /\ i.rev <= head
    BY DEF Types, Tree, CheckoutType
<1>3. PICK text \in Text : text = index[f]
    BY <1>2
<1>4. Since(i, f, text)'
    BY <1>1, <1>2, <1>3, SinceOnward
<1>5. Later(f, text, work[f])'
    BY <1>1, <1>3, Onward
<1>6. Since(i, f, index[f])'
  <2>1. index'[f] = text
    BY <1>3
  <2> QED BY <1>4, <2>1
<1> QED BY <1>3, <1>5, <1>6

LEMMA StartOnward ==
    ASSUME Types, Types', head' = head, commits' = commits,
           \A f \in Files : Later(f, work[f], work'[f]), run' = run,
           StartInv
    PROVE  StartInv'
<1> SUFFICES ASSUME run.at \in {"scan", "publish", "second"}, run.start # None,
                    run.start.rev = head, NEW f \in Files
             PROVE  /\ Since(run.start, f, work[f])'
                    /\ f \notin run.left => /\ Since(run.start, f, run.made[f])'
                                            /\ Later(f, run.made[f], work[f])'
    BY DEF StartInv
<1>1. PICK i : i = run.start
    OBVIOUS
<1>2. i \in Identities /\ i.rev <= head
    BY <1>1 DEF Types, RunType, CheckoutType
<1>3. /\ Since(i, f, work[f])
      /\ f \notin run.left => Since(i, f, run.made[f]) /\ Later(f, run.made[f], work[f])
    BY <1>1 DEF StartInv
<1>4. work[f] \in Text /\ work'[f] \in Text /\ run.made[f] \in Text
    BY DEF Types, CheckoutType, Tree, RunType
<1>5. PICK w : w = work'[f]
    OBVIOUS
<1>6. w \in Text /\ Since(i, f, w)
    BY <1>2, <1>3, <1>4, <1>5, SinceLater
<1>7. Since(i, f, w)'
    BY <1>2, <1>6, SinceOnward
<1>8. PICK m \in Text : m = run.made[f]
    BY <1>4
<1>9. Since(i, f, m) => Since(i, f, m)'
    BY <1>2, SinceOnward
<1>10. Later(f, m, work[f]) => Later(f, m, work[f])'
    BY Onward
<1>11. run'.start = i /\ run'.made[f] = m /\ run'.left = run.left /\ work'[f] = w
    BY <1>1, <1>5, <1>8
<1> QED BY <1>3, <1>7, <1>8, <1>9, <1>10, <1>11

LEMMA PeopleStep ==
    ASSUME IInv, ~Rewinds, Fronted = {}, People
    PROVE  IInv'
<1>1. Types /\ Types' /\ TextsInv
    BY PeopleTypes DEF IInv
<1>2. UNCHANGED <<info, index, view, taken, run, query>>
    BY DEF People
<1>3. /\ TextsInv'
      /\ \/ head' = head + 1
         \/ /\ head' = head /\ commits' = commits
            /\ \A f \in Files : Later(f, work[f], work'[f])
    BY <1>1, PeopleOnward
<1>4. head \in Nat /\ head' \in Nat /\ head' >= head
    BY <1>1, <1>3, Constants DEF Types, CheckoutType
<1>5. UnreadyInv'
    BY <1>2 DEF IInv, UnreadyInv
<1>6. /\ \A a \in Actors : taken[a].rev \in Nat
      /\ info.identity # None => info.identity \in Identities /\ info.identity.rev \in Nat
      /\ run.start # None => run.start \in Identities /\ run.start.rev \in Nat
      /\ run.at \in {"first", "scan"} /\ run.former.identity # None
           => run.former.identity \in Identities /\ run.former.identity.rev \in Nat
    BY <1>1, Constants DEF Types, CaptureType, InfoType, RunType, Identities
<1>7. RevsInv'
    BY <1>2, <1>4, <1>6 DEF IInv, RevsInv
<1>8. CASE head' = head + 1
  <2>1. \A a \in Actors : taken'[a].rev # head'
    BY <1>2, <1>4, <1>6, <1>8 DEF IInv, RevsInv
  <2>2. /\ info'.identity # None => info'.identity.rev # head'
        /\ run'.start # None => run'.start.rev # head'
        /\ run'.at \in {"first", "scan"} /\ run'.former.identity # None
             => run'.former.identity.rev # head'
    BY <1>2, <1>4, <1>6, <1>8 DEF IInv, RevsInv
  <2>3. StartInv' /\ ReadyInv(info.identity)'
        /\ (run'.at \in {"first", "scan"} => ReadyInv(run.former.identity)')
    BY <2>2 DEF StartInv, ReadyInv
  <2>4. \A a \in Actors : CaptureInv(taken[a])'
    BY <2>1 DEF CaptureInv
  <2> QED BY <1>1, <1>3, <1>5, <1>7, <2>3, <2>4 DEF IInv
<1>9. CASE /\ head' = head /\ commits' = commits
           /\ \A f \in Files : Later(f, work[f], work'[f])
  <2>1. ASSUME NEW a \in Actors PROVE CaptureInv(taken[a])'
    <3>1. PICK c : c = taken[a]
      OBVIOUS
    <3>2. c \in CaptureType /\ Filled(c) /\ CaptureInv(c)
      BY <1>1, <3>1 DEF IInv, Types
    <3>3. CaptureInv(c)'
      BY <1>1, <1>9, <3>2, CaptureOnward
    <3>4. c = taken'[a]
      BY <1>2, <3>1
    <3> QED BY <3>3, <3>4
  <2>2. StartInv'
    BY <1>1, <1>2, <1>9, StartOnward DEF IInv
  <2>3. ReadyInv(info.identity)'
    <3>1. PICK i : i = info.identity
      OBVIOUS
    <3>2. i \in Identities \cup {None} /\ ReadyInv(i)
      BY <1>6, <3>1 DEF IInv
    <3>3. ReadyInv(i)'
      BY <1>1, <1>2, <1>9, <3>2, ReadyOnward
    <3>4. i = info'.identity
      BY <1>2, <3>1
    <3> QED BY <3>3, <3>4
  <2>4. run'.at \in {"first", "scan"} => ReadyInv(run.former.identity)'
    <3>1. PICK i : i = run.former.identity
      OBVIOUS
    <3> SUFFICES ASSUME run'.at \in {"first", "scan"}
                 PROVE  ReadyInv(run.former.identity)'
      OBVIOUS
    <3>2. i \in Identities \cup {None} /\ ReadyInv(i)
      BY <1>2, <1>6, <3>1 DEF IInv
    <3>3. ReadyInv(i)'
      BY <1>1, <1>2, <1>9, <3>2, ReadyOnward
    <3>4. i = run'.former.identity
      BY <1>2, <3>1
    <3> QED BY <3>3, <3>4
  <2> QED BY <1>1, <1>3, <1>5, <1>7, <2>1, <2>2, <2>3, <2>4 DEF IInv
<1> QED BY <1>3, <1>8, <1>9

-----------------------------------------------------------------------------
(* The captures.                                                           *)

(* While nobody touches the checkout, what was so is so.                   *)
LEMMA StillCheckout ==
    ASSUME Types, Types', UNCHANGED <<checkout, index>>
    PROVE  /\ \A c \in CaptureType : Filled(c) /\ CaptureInv(c) => CaptureInv(c)'
           /\ \A i \in Identities \cup {None} : ReadyInv(i) => ReadyInv(i)'
<1>1. /\ head' = head /\ commits' = commits /\ index' = index
      /\ \A f \in Files : Later(f, work[f], work'[f])
    BY DEF checkout, Later
<1> QED BY <1>1, CaptureOnward, ReadyOnward

LEMMA MovesStep ==
    ASSUME IInv, Types', NEW a \in Actors, NEW from, NEW c \in CaptureType, Filled(c),
           CaptureInv(c), c.rev <= head, Moves(a, from, c)
    PROVE  IInv'
<1>1. /\ taken' = [taken EXCEPT ![a] = c]
      /\ UNCHANGED <<checkout, info, index, view, run, query>>
      /\ UNCHANGED <<commits, head, work, edits>>
    BY DEF Moves, checkout
<1>2. Types
    BY DEF IInv
<1>3. TextsInv' /\ UnreadyInv'
    BY <1>1 DEF IInv, TextsInv, UnreadyInv
<1>4. RevsInv'
    BY <1>1, <1>2 DEF IInv, RevsInv, Types
<1>5. ASSUME NEW b \in Actors PROVE CaptureInv(taken[b])'
  <2>1. PICK d : d = taken'[b]
    OBVIOUS
  <2>2. d = c \/ d = taken[b]
    BY <1>1, <1>2, <2>1 DEF Types
  <2>3. d \in CaptureType /\ Filled(d) /\ CaptureInv(d)
    BY <1>2, <2>2 DEF IInv, Types
  <2>4. CaptureInv(d)'
    BY <1>1, <1>2, <2>3, StillCheckout
  <2> QED BY <2>1, <2>4
<1>6. StartInv'
  <2>1. \A f \in Files : Later(f, work[f], work'[f])
    BY <1>1 DEF Later
  <2> QED BY <1>1, <1>2, <2>1, StartOnward DEF IInv
<1>7. ReadyInv(info.identity)'
  <2>1. PICK i : i = info.identity
    OBVIOUS
  <2>2. i \in Identities \cup {None} /\ ReadyInv(i)
    BY <1>2, <2>1 DEF IInv, Types, InfoType
  <2>3. ReadyInv(i)'
    BY <1>1, <1>2, <2>2, StillCheckout
  <2>4. i = info'.identity
    BY <1>1, <2>1
  <2> QED BY <2>3, <2>4
<1>8. ASSUME run'.at \in {"first", "scan"} PROVE ReadyInv(run.former.identity)'
  <2>1. PICK i : i = run.former.identity
    OBVIOUS
  <2>2. i \in Identities \cup {None} /\ ReadyInv(i)
    BY <1>1, <1>2, <1>8, <2>1 DEF IInv, Types, RunType, InfoType
  <2>3. ReadyInv(i)'
    BY <1>1, <1>2, <2>2, StillCheckout
  <2>4. i = run'.former.identity
    BY <1>1, <2>1
  <2> QED BY <2>3, <2>4
<1> QED BY <1>3, <1>4, <1>5, <1>6, <1>7, <1>8 DEF IInv

LEMMA CapturesStep ==
    ASSUME IInv, NEW a \in Actors, Captures(a)
    PROVE  IInv'
<1> DEFINE c == taken[a]
           codes == [f \in Files |-> Code(f)]
<1>1. Types /\ Types'
    BY CapturesTypes DEF IInv
<1>2. /\ c \in CaptureType /\ Filled(c) /\ CaptureInv(c) /\ c.rev <= head
      /\ codes \in [Files -> Codes] /\ head \in 0 .. MaxCommits /\ origin \in Origins
      /\ work \in Tree /\ stage \in Tree /\ Void \in Text
    BY <1>1, CheckoutTypes, Values DEF IInv, Types, CheckoutType, RevsInv
<1>3. ASSUME NEW f \in Files
      PROVE  /\ codes[f] = Clean => work[f] = Base(head)[f]
             /\ Gone(codes[f]) => work[f] = Void
    BY <1>3 DEF Code, Clean, Gone
<1>4. \A f \in Files : Later(f, work[f], work[f])
    BY DEF Later
<1> HIDE DEF c, codes
<1>5. CASE ReadHead(a)
  <2> DEFINE d == [c EXCEPT !.at = "status", !.repo = origin, !.rev = head]
  <2>1. d \in CaptureType /\ Filled(d) /\ d.at = "status" /\ d.rev = head
    BY <1>2 DEF CaptureType, Filled
  <2>2. Moves(a, "head", d)
    BY <1>5 DEF ReadHead, c
  <2> HIDE DEF d
  <2>3. CaptureInv(d) /\ d.rev <= head
    BY <1>2, <2>1 DEF CaptureInv
  <2> QED BY <1>1, <2>1, <2>2, <2>3, MovesStep
<1>6. CASE ReadStatus(a)
  <2> DEFINE clean == \A f \in Files : codes[f] = Clean
             d == [c EXCEPT !.codes = codes, !.at = IF clean THEN "done" ELSE "diff"]
  <2>1. c.at = "status" /\ Moves(a, "status", d)
    BY <1>6 DEF ReadStatus, Moves, c, codes
  <2>2. d \in CaptureType /\ d.codes = codes /\ d.repo = c.repo /\ d.rev = c.rev
        /\ d.at = IF clean THEN "done" ELSE "diff"
    BY <1>2 DEF CaptureType
  <2> HIDE DEF d
  <2>3. Filled(d)
    BY <1>2, <2>1, <2>2 DEF Filled
  <2>4. CaptureInv(d)
    <3> SUFFICES ASSUME d.rev = head, NEW f \in Files
                 PROVE  /\ codes[f] = Clean => Later(f, Base(head)[f], work[f])
                        /\ Gone(codes[f]) => Later(f, Void, work[f])
                        /\ ~(codes[f].edited = "untracked" /\ d.at = "done")
                        /\ ~(Shown(codes[f]) /\ d.at # "diff")
      BY <2>2 DEF CaptureInv
    <3>1. d.at # "diff" => codes[f] = Clean
      BY <2>2
    <3> QED BY <1>3, <1>4, <2>2, <3>1 DEF Shown, Clean
  <2> QED BY <1>1, <1>2, <2>1, <2>2, <2>3, <2>4, MovesStep
<1>7. CASE DiffWork(a)
  <2> DEFINE w == [f \in Files |-> IF stage[f] # Void THEN work[f] ELSE Void]
             d == [c EXCEPT !.at = "cached", !.work = w]
  <2>1. c.at = "diff" /\ Moves(a, "diff", d)
    BY <1>7 DEF DiffWork, Moves, c
  <2>2. w \in Tree /\ \A f \in Files : w[f] # Void => w[f] = work[f]
    BY <1>2 DEF Tree
  <2> HIDE DEF w
  <2>3. d \in CaptureType /\ Filled(d) /\ d.at = "cached" /\ d.work = w
        /\ d.codes = c.codes /\ d.rev = c.rev
    BY <1>2, <2>1, <2>2 DEF CaptureType, Filled
  <2> HIDE DEF d
  <2>4. CaptureInv(d)
    BY <1>2, <1>4, <2>1, <2>2, <2>3 DEF CaptureInv
  <2> QED BY <1>1, <1>2, <2>1, <2>3, <2>4, MovesStep
<1>8. CASE DiffStage(a)
  <2> DEFINE d == [c EXCEPT !.at = "others", !.stage = stage]
  <2>1. c.at = "cached" /\ Moves(a, "cached", d)
    BY <1>8 DEF DiffStage, Moves, c
  <2>2. d \in CaptureType /\ Filled(d) /\ d.at = "others" /\ d.work = c.work
        /\ d.codes = c.codes /\ d.rev = c.rev
    BY <1>2, <2>1 DEF CaptureType, Filled
  <2> HIDE DEF d
  <2>3. CaptureInv(d)
    BY <1>2, <2>1, <2>2 DEF CaptureInv
  <2> QED BY <1>1, <1>2, <2>1, <2>2, <2>3, MovesStep
<1>9. CASE ReadOthers(a)
  <2> DEFINE o == Others(c.codes)
             d == [c EXCEPT !.at = "done", !.others = o]
  <2>1. c.at = "others" /\ Moves(a, "others", d)
    BY <1>9 DEF ReadOthers, Moves, c
  <2>2. o \in Tree /\ \A f \in Files : c.codes[f].edited = "untracked" => o[f] = work[f]
    BY <1>2 DEF Others, Tree
  <2> HIDE DEF o
  <2>3. d \in CaptureType /\ Filled(d) /\ d.at = "done" /\ d.work = c.work
        /\ d.codes = c.codes /\ d.rev = c.rev /\ d.others = o
    BY <1>2, <2>1, <2>2 DEF CaptureType, Filled
  <2> HIDE DEF d
  <2>4. CaptureInv(d)
    BY <1>2, <1>4, <2>1, <2>2, <2>3 DEF CaptureInv
  <2> QED BY <1>1, <1>2, <2>1, <2>3, <2>4, MovesStep
<1>10. CASE CaptureFails(a)
  <2> DEFINE d == [NoCapture EXCEPT !.at = "failed"]
  <2>1. Moves(a, c.at, d)
    BY <1>10 DEF CaptureFails, c
  <2>2. d \in CaptureType /\ Filled(d) /\ d.at = "failed" /\ d.rev = 0
    BY Constants DEF CaptureType, Filled, NoCapture
  <2> HIDE DEF d
  <2>3. CaptureInv(d) /\ d.rev <= head
    BY <1>2, <2>2 DEF CaptureInv
  <2> QED BY <1>1, <2>1, <2>2, <2>3, MovesStep
<1> QED BY <1>5, <1>6, <1>7, <1>8, <1>9, <1>10 DEF Captures

-----------------------------------------------------------------------------
(* The runs and the searches.                                              *)

(* A capture that has not begun has read nothing.                          *)
LEMMA TakenStep ==
    ASSUME IInv, Types', UNCHANGED checkout, NEW a \in Actors,
           Begin(a) \/ Forget(a) \/ UNCHANGED taken
    PROVE  \A b \in Actors : CaptureInv(taken[b])' /\ taken'[b].rev <= head'
<1> SUFFICES ASSUME NEW b \in Actors
             PROVE  CaptureInv(taken[b])' /\ taken'[b].rev <= head'
    OBVIOUS
<1>1. /\ Types /\ head' = head /\ commits' = commits /\ head \in Nat /\ 0 <= head
      /\ \A f \in Files : Later(f, work[f], work'[f])
    BY Constants DEF IInv, Types, CheckoutType, checkout, Later
<1>2. PICK d : d = taken'[b]
    OBVIOUS
<1>3. \/ d = [NoCapture EXCEPT !.at = "head"]
      \/ d = NoCapture
      \/ d = taken[b]
    BY <1>1, <1>2 DEF Begin, Forget, Types
<1>4. /\ NoCapture.at = "out" /\ NoCapture.rev = 0
      /\ [NoCapture EXCEPT !.at = "head"].at = "head"
      /\ [NoCapture EXCEPT !.at = "head"].rev = 0
    BY DEF NoCapture
<1>5. CaptureInv(d) /\ d.rev <= head
    BY <1>1, <1>3, <1>4 DEF IInv, CaptureInv, RevsInv
<1>6. d \in CaptureType /\ Filled(d)
    BY <1>2 DEF Types
<1>7. CaptureInv(d)'
    BY <1>1, <1>5, <1>6, CaptureOnward
<1> QED BY <1>1, <1>2, <1>5, <1>7

(* What a capture gives came before what is there now.                     *)
LEMMA FromCapture ==
    ASSUME IInv, NEW a \in Actors, taken[a].at = "done", taken[a].rev = head,
           NEW f \in Files
    PROVE  Since(Identity(a), f, work[f])
<1> DEFINE c == taken[a]
           clean == \A g \in Files : c.codes[g] = Clean
           d == IF clean THEN None
                ELSE [codes |-> c.codes, work |-> c.work,
                      stage |-> c.stage, others |-> c.others]
           i == Identity(a)
<1>1. Filled(c) /\ c.at = "done" /\ c.rev = head
    BY DEF IInv, Types
<1>2. i = [repo |-> c.repo, rev |-> c.rev, dirty |-> d]
    BY DEF Identity
<1>3. i.rev = head /\ i.dirty = d
    BY <1>1, <1>2
<1>4. /\ c.codes[f] = Clean => Later(f, Base(head)[f], work[f])
      /\ Gone(c.codes[f]) => Later(f, Void, work[f])
      /\ c.codes[f].edited = "untracked" => Later(f, c.others[f], work[f])
      /\ Shown(c.codes[f]) /\ c.work[f] # Void => Later(f, c.work[f], work[f])
    BY <1>1 DEF IInv, CaptureInv
<1> HIDE DEF i, c
<1>5. CASE clean
  <2>1. CodeOf(i, f) = Clean
    BY <1>3, <1>5 DEF CodeOf
  <2> QED BY <1>3, <1>4, <1>5, <2>1 DEF Since, Said, i
<1>6. CASE ~clean
  <2>1. d \in Dirt
    BY <1>1, <1>6 DEF Filled, Dirt
  <2>2. /\ i.dirty # None /\ i.dirty.codes = c.codes /\ i.dirty.work = c.work
        /\ i.dirty.others = c.others
    BY <1>3, <1>6, <2>1, Constants
  <2>3. CodeOf(i, f) = c.codes[f]
    BY <2>2 DEF CodeOf
  <2>4. c.codes[f] # Clean /\ ~Gone(c.codes[f]) /\ c.codes[f].edited # "untracked"
          => Shown(c.codes[f])
    BY DEF Shown
  <2> QED BY <1>3, <1>4, <2>2, <2>3, <2>4 DEF Since, Said, Certain, i
<1> QED BY <1>5, <1>6

(* The identity of a checkout that nobody disturbs says what its files are.*)
LEMMA PresentSays ==
    ASSUME Types
    PROVE  /\ Present \in Identities /\ Present # None /\ Present.rev = head
           /\ \A f \in Files : Certain(Present, f) /\ Said(Present, f) = work[f]
<1> DEFINE codes == [f \in Files |-> Code(f)]
           w == [f \in Files |-> IF stage[f] # Void THEN work[f] ELSE Void]
           o == Others(codes)
           clean == \A f \in Files : codes[f] = Clean
           d == IF clean THEN None
                ELSE [codes |-> codes, work |-> w, stage |-> stage, others |-> o]
<1>1. /\ codes \in [Files -> Codes] /\ stage \in Tree /\ work \in Tree /\ Void \in Text
      /\ origin \in Origins /\ head \in 0 .. MaxCommits
    BY CheckoutTypes, Values DEF Types, CheckoutType
<1>2. w \in Tree /\ o \in Tree
    BY <1>1 DEF Tree, Others
<1>3. Present = [repo |-> origin, rev |-> head, dirty |-> d]
    BY DEF Present
<1>4. \A f \in Files :
        /\ codes[f] = Clean => work[f] = Base(head)[f]
        /\ Gone(codes[f]) => work[f] = Void
        /\ codes[f].edited = "untracked" => o[f] = work[f]
        /\ Shown(codes[f]) => w[f] = work[f] /\ work[f] # Void
    BY DEF Code, Clean, Gone, Shown, Others
<1> HIDE DEF codes, w, o
<1>5. d \in Dirt \cup {None} /\ (~clean => d \in Dirt /\ d # None)
    BY <1>1, <1>2, Constants DEF Dirt
<1>6. Present.rev = head /\ Present.dirty = d /\ Present \in Identities
    BY <1>1, <1>3, <1>5 DEF Identities
<1>7. ASSUME NEW f \in Files
      PROVE  Certain(Present, f) /\ Said(Present, f) = work[f]
  <2>1. CASE clean
    <3>1. CodeOf(Present, f) = Clean
      BY <1>6, <2>1 DEF CodeOf
    <3> QED BY <1>4, <1>6, <2>1, <3>1 DEF Said, Certain, Shown
  <2>2. CASE ~clean
    <3>1. /\ Present.dirty # None /\ Present.dirty.codes = codes
          /\ Present.dirty.work = w /\ Present.dirty.others = o
      BY <1>5, <1>6, <2>2
    <3>2. CodeOf(Present, f) = codes[f]
      BY <3>1 DEF CodeOf
    <3> QED BY <1>4, <1>6, <3>1, <3>2 DEF Said, Certain, Shown
  <2> QED BY <2>1, <2>2
<1> QED BY <1>6, <1>7, Constants

(* What a file is given in a run is what it holds when the run reads it.   *)
LEMMA ChunkedIsWork ==
    ASSUME TextsInv, NEW f \in Files
    PROVE  Chunked(f) = work[f]
<1>1. ASSUME index # None, index[f].body = work[f].body
      PROVE  index[f] = work[f]
  <2>1. index[f] \in Flat /\ work[f] \in Flat
    BY <1>1 DEF TextsInv
  <2> QED BY <1>1, <2>1 DEF Flat
<1> QED BY <1>1 DEF Chunked

(* What a step that leaves the checkout alone has to show.                 *)
LEMMA StillStep ==
    ASSUME IInv, Types', UNCHANGED checkout,
           \A a \in Actors : CaptureInv(taken[a])' /\ taken'[a].rev <= head',
           \/ run' = run
           \/ run'.at \in {"idle", "first"} /\ run'.start = None
           \/ StartInv' /\ (run'.start # None => run'.start.rev <= head),
           run'.at \in {"scan", "publish", "second"} => run'.made \in [Files -> Flat],
           index' # None => index' \in [Files -> Flat],
           UnreadyInv',
           info'.identity # None => info'.identity.rev <= head /\ ReadyInv(info.identity)',
           run'.at \in {"first", "scan"} /\ run'.former.identity # None =>
             run'.former.identity.rev <= head /\ ReadyInv(run.former.identity)'
    PROVE  IInv'
<1>1. /\ Types /\ head' = head /\ commits' = commits /\ work' = work /\ edits' = edits
      /\ \A f \in Files : Later(f, work[f], work'[f])
    BY DEF IInv, checkout, Later
<1>2. TextsInv'
    BY <1>1 DEF IInv, TextsInv
<1>3. StartInv' /\ (run'.start # None => run'.start.rev <= head)
  <2>1. CASE run' = run
    BY <1>1, <2>1, StartOnward DEF IInv, RevsInv
  <2>2. CASE run'.at \in {"idle", "first"} /\ run'.start = None
    BY <2>2 DEF StartInv
  <2> QED BY <2>1, <2>2
<1>4. RevsInv'
    BY <1>1, <1>3 DEF RevsInv
<1>5. ReadyInv(info.identity)' /\ (run'.at \in {"first", "scan"} => ReadyInv(run.former.identity)')
    BY DEF ReadyInv
<1> QED BY <1>2, <1>3, <1>4, <1>5 DEF IInv

(* The identity that is recorded, and the one a run puts back, as before.  *)
LEMMA ReadyStill ==
    ASSUME IInv, Types', UNCHANGED <<checkout, index>>
    PROVE  /\ info' = info => ReadyInv(info.identity)'
           /\ info'.identity # None /\ info' = run.former /\ run.at \in {"first", "scan"}
                => ReadyInv(info.identity)'
           /\ run.at \in {"first", "scan"} /\ run'.former = run.former
                => ReadyInv(run.former.identity)'
           /\ run'.former = info => ReadyInv(run.former.identity)'
<1>1. Types
    BY DEF IInv
<1>2. PICK i, j : i = info.identity /\ j = run.former.identity
    OBVIOUS
<1>3. i \in Identities \cup {None} /\ ReadyInv(i) /\ ReadyInv(i)'
  <2>1. i \in Identities \cup {None} /\ ReadyInv(i)
    BY <1>1, <1>2 DEF IInv, Types, InfoType
  <2> QED BY <1>1, <2>1, StillCheckout
<1>4. ASSUME run.at \in {"first", "scan"} PROVE ReadyInv(j)'
  <2>1. j \in Identities \cup {None} /\ ReadyInv(j)
    BY <1>1, <1>2, <1>4 DEF IInv, Types, InfoType, RunType
  <2> QED BY <1>1, <2>1, StillCheckout
<1>5. info' = info => ReadyInv(info.identity)'
  <2>1. info' = info => info'.identity = i
    BY <1>2
  <2> QED BY <1>3, <2>1
<1>6. info' = run.former /\ run.at \in {"first", "scan"} => ReadyInv(info.identity)'
  <2>1. info' = run.former => info'.identity = j
    BY <1>2
  <2> QED BY <1>4, <2>1
<1>7. run.at \in {"first", "scan"} /\ run'.former = run.former => ReadyInv(run.former.identity)'
  <2>1. run'.former = run.former => run'.former.identity = j
    BY <1>2
  <2> QED BY <1>4, <2>1
<1>8. run'.former = info => ReadyInv(run.former.identity)'
  <2>1. run'.former = info => run'.former.identity = i
    BY <1>2
  <2> QED BY <1>3, <2>1
<1> QED BY <1>5, <1>6, <1>7, <1>8

LEMMA PendStep ==
    ASSUME IInv, Types', Pend
    PROVE  IInv'
<1>1. /\ run.at = "first" /\ Captured("run") /\ Forget("run") /\ "run" \in Actors
      /\ run' = [run EXCEPT !.at = "scan", !.start = Identity("run"),
                            !.made = Empty, !.left = Files]
      /\ UNCHANGED <<checkout, index, view, query>>
    BY DEF Pend, Actors
<1>2. info'.identity = None
    BY DEF Pend
<1>3. Types /\ taken["run"] \in CaptureType /\ Filled(taken["run"]) /\ taken["run"].rev <= head
    BY <1>1 DEF IInv, Types, RevsInv
<1>4. PICK i : i = Identity("run")
    OBVIOUS
<1>5. i # None => /\ i \in Identities /\ taken["run"].at = "done"
                  /\ i.rev = taken["run"].rev
    BY <1>1, <1>3, <1>4, IdentityType DEF Captured
<1>6. /\ run'.at = "scan" /\ run'.start = i /\ run'.made = Empty /\ run'.left = Files
      /\ run'.former = run.former
    BY <1>1, <1>3, <1>4 DEF Types, RunType
<1>7. StartInv'
  <2> SUFFICES ASSUME i # None, i.rev = head', NEW f \in Files
               PROVE  Since(run.start, f, work[f])'
    BY <1>6 DEF StartInv
  <2>1. head' = head /\ commits' = commits /\ work' = work
    BY <1>1 DEF checkout
  <2>2. PICK w \in Text : w = work[f]
    BY <1>3 DEF Types, CheckoutType, Tree
  <2>3. Since(i, f, w)
    BY <1>1, <1>4, <1>5, <2>1, <2>2, FromCapture
  <2>4. i.rev <= head
    BY <1>3, <1>5
  <2>5. Since(i, f, w)'
    BY <1>3, <1>5, <2>1, <2>3, <2>4, SinceOnward
  <2>6. run'.start = i /\ work'[f] = w
    BY <1>6, <2>1, <2>2
  <2> QED BY <2>5, <2>6
<1>8. UnreadyInv'
    BY <1>2, <1>6 DEF UnreadyInv
<1>9. run'.made \in [Files -> Flat]
    BY <1>6, Values, Constants DEF Empty, Void, Flat
<1>10. index' # None => index' \in [Files -> Flat]
    BY <1>1 DEF IInv, TextsInv
<1>11. \A a \in Actors : CaptureInv(taken[a])' /\ taken'[a].rev <= head'
    BY <1>1, TakenStep
<1>12. run'.former.identity # None => run'.former.identity.rev <= head
    BY <1>1, <1>6 DEF IInv, RevsInv
<1>13. ReadyInv(run.former.identity)'
    BY <1>1, <1>6, ReadyStill
<1>14. i # None => i.rev <= head
    BY <1>3, <1>5
<1> QED BY <1>1, <1>2, <1>6, <1>7, <1>8, <1>9, <1>10, <1>11, <1>12, <1>13, <1>14, StillStep

LEMMA ScanStep ==
    ASSUME IInv, Types', NEW f \in Files, Scan(f)
    PROVE  IInv'
<1> DEFINE at == IF run.left = {f} THEN "publish" ELSE "scan"
           made == [run.made EXCEPT ![f] = work[f]]
<1>1. /\ run.at = "scan" /\ f \in run.left
      /\ run' = [run EXCEPT !.made[f] = work[f], !.left = run.left \ {f}, !.at = at]
      /\ UNCHANGED <<checkout, info, index, view, taken, query>>
    BY ChunkedIsWork DEF Scan, IInv
<1>2. Types /\ head' = head /\ commits' = commits /\ work' = work /\ index' = index
      /\ info' = info /\ taken' = taken
    BY <1>1 DEF IInv, checkout
<1>3. at \in {"publish", "scan"} /\ made \in Tree /\ made \in [Files -> Flat]
    BY <1>1, <1>2 DEF IInv, Types, RunType, CheckoutType, TextsInv, Tree
<1>4. run' = [run EXCEPT !.made = made, !.left = run.left \ {f}, !.at = at]
    BY <1>1, <1>2 DEF Types, RunType
<1>5. \A g \in Files : made[g] = IF g = f THEN work[f] ELSE run.made[g]
    BY <1>1, <1>2 DEF Types, RunType, Tree
<1> HIDE DEF made, at
<1>6. /\ run'.at = at /\ run'.made = made /\ run'.left = run.left \ {f}
      /\ run'.start = run.start /\ run'.former = run.former
    BY <1>2, <1>3, <1>4 DEF Types, RunType
<1>7. StartInv'
  <2> SUFFICES ASSUME run.start # None, run.start.rev = head', NEW g \in Files
               PROVE  /\ Since(run.start, g, work[g])'
                      /\ g \notin run.left \ {f} => /\ Since(run.start, g, run.made[g])'
                                                    /\ Later(g, run.made[g], work[g])'
    BY <1>6 DEF StartInv
  <2>1. PICK i : i = run.start
    OBVIOUS
  <2>2. i \in Identities /\ i.rev <= head
    BY <1>2, <2>1 DEF IInv, RevsInv, Types, RunType
  <2>3. PICK w \in Text, m \in Text : w = work[g] /\ m = made[g]
    BY <1>2, <1>3 DEF Types, CheckoutType, Tree
  <2>4. Since(i, g, w) /\ (g \notin run.left => Since(i, g, run.made[g])
                                                /\ Later(g, run.made[g], w))
    BY <1>1, <1>2, <2>1, <2>3 DEF IInv, StartInv
  <2>5. g \notin run.left \ {f} => Since(i, g, m) /\ Later(g, m, w)
    <3>1. CASE g = f
      <4>1. m = w
        BY <1>5, <2>3, <3>1
      <4> QED BY <2>4, <4>1 DEF Later
    <3>2. CASE g # f
      BY <1>5, <2>3, <2>4, <3>2
    <3> QED BY <3>1, <3>2
  <2>6. /\ Since(i, g, w)' /\ (Since(i, g, m) => Since(i, g, m)')
    BY <1>2, <2>2, <2>4, SinceOnward
  <2>7. Later(g, m, w) => Later(g, m, w)'
    BY <1>2 DEF Later, Old
  <2>8. run'.start = i /\ work'[g] = w /\ run'.made[g] = m
    BY <1>2, <1>6, <2>1, <2>3
  <2> QED BY <2>5, <2>6, <2>7, <2>8
<1>8. UnreadyInv' /\ info'.identity = None
    BY <1>1, <1>2, <1>3, <1>6 DEF IInv, UnreadyInv
<1>9. run'.made \in [Files -> Flat] /\ (index' # None => index' \in [Files -> Flat])
    BY <1>2, <1>3, <1>6 DEF IInv, TextsInv
<1>10. \A a \in Actors : CaptureInv(taken[a])' /\ taken'[a].rev <= head'
    BY <1>1, TakenStep DEF Actors
<1>11. run'.former.identity # None => run'.former.identity.rev <= head
    BY <1>1, <1>6 DEF IInv, RevsInv
<1>12. ReadyInv(run.former.identity)'
    BY <1>1, <1>6, ReadyStill
<1>13. run'.start # None => run'.start.rev <= head
    BY <1>6 DEF IInv, RevsInv
<1> QED BY <1>1, <1>7, <1>8, <1>9, <1>10, <1>11, <1>12, <1>13, StillStep

LEMMA StartStep ==
    ASSUME IInv, Types', NEW kind \in Kinds, Start(kind)
    PROVE  IInv'
<1>1. /\ run' = [NoRun EXCEPT !.at = "first", !.kind = kind, !.former = info]
      /\ Begin("run") /\ "run" \in Actors /\ run.at = "idle"
      /\ UNCHANGED <<checkout, info, index, view, query>>
    BY DEF Start, Actors
<1>2. run'.at = "first" /\ run'.start = None /\ run'.former = info
    BY <1>1 DEF NoRun
<1>3. UnreadyInv'
    BY <1>2 DEF UnreadyInv
<1>4. \A a \in Actors : CaptureInv(taken[a])' /\ taken'[a].rev <= head'
    BY <1>1, TakenStep
<1>5. index' # None => index' \in [Files -> Flat]
    BY <1>1 DEF IInv, TextsInv
<1>6. ReadyInv(info.identity)' /\ ReadyInv(run.former.identity)'
    BY <1>1, <1>2, ReadyStill
<1>7. info'.identity # None => info'.identity.rev <= head
    BY <1>1 DEF IInv, RevsInv
<1>8. run'.former.identity # None => run'.former.identity.rev <= head
    BY <1>1, <1>2 DEF IInv, RevsInv
<1> QED BY <1>1, <1>2, <1>3, <1>4, <1>5, <1>6, <1>7, <1>8, StillStep

LEMMA SkipStep ==
    ASSUME IInv, Types', Skip
    PROVE  IInv'
<1>1. /\ run.at = "scan" /\ run' = NoRun /\ info' = run.former
      /\ UNCHANGED <<checkout, index, view, taken, query>> /\ "run" \in Actors
    BY DEF Skip, Actors
<1>2. run'.at = "idle" /\ run'.start = None
    BY <1>1 DEF NoRun
<1>3. UnreadyInv'
    BY <1>2 DEF UnreadyInv
<1>4. \A a \in Actors : CaptureInv(taken[a])' /\ taken'[a].rev <= head'
    BY <1>1, TakenStep
<1>5. index' # None => index' \in [Files -> Flat]
    BY <1>1 DEF IInv, TextsInv
<1>6. info'.identity # None => ReadyInv(info.identity)'
    BY <1>1, ReadyStill
<1>7. info'.identity # None => info'.identity.rev <= head
    BY <1>1 DEF IInv, RevsInv
<1> QED BY <1>1, <1>2, <1>3, <1>4, <1>5, <1>6, <1>7, StillStep

LEMMA PublishStep ==
    ASSUME IInv, Types', Publish
    PROVE  IInv'
<1>1. /\ run.at = "publish" /\ index' = run.made /\ run' = [run EXCEPT !.at = "second"]
      /\ Begin("run") /\ "run" \in Actors
      /\ UNCHANGED <<checkout, info, query>>
    BY DEF Publish, Actors
<1>2. Types /\ head' = head /\ commits' = commits /\ work' = work /\ info' = info
    BY <1>1 DEF IInv, checkout
<1>3. /\ run'.at = "second" /\ run'.made = run.made /\ run'.left = run.left
      /\ run'.start = run.start
    BY <1>1, <1>2 DEF Types, RunType
<1>4. info'.identity = None /\ UnreadyInv'
    BY <1>1, <1>2, <1>3 DEF IInv, UnreadyInv
<1>5. \A a \in Actors : CaptureInv(taken[a])' /\ taken'[a].rev <= head'
    BY <1>1, TakenStep
<1>6. run'.made \in [Files -> Flat] /\ index' \in [Files -> Flat]
    BY <1>1, <1>3 DEF IInv, TextsInv
<1>7. StartInv'
  <2> SUFFICES ASSUME run.start # None, run.start.rev = head', NEW f \in Files
               PROVE  /\ Since(run.start, f, work[f])'
                      /\ f \notin run.left => /\ Since(run.start, f, run.made[f])'
                                              /\ Later(f, run.made[f], work[f])'
    BY <1>3 DEF StartInv
  <2>1. PICK i : i = run.start
    OBVIOUS
  <2>2. i \in Identities /\ i.rev <= head
    BY <1>2, <2>1 DEF IInv, RevsInv, Types, RunType
  <2>3. PICK w \in Text, m \in Text : w = work[f] /\ m = run.made[f]
    BY <1>1, <1>2 DEF Types, CheckoutType, RunType, Tree
  <2>4. Since(i, f, w) /\ (f \notin run.left => Since(i, f, m) /\ Later(f, m, w))
    BY <1>1, <1>2, <2>1, <2>3 DEF IInv, StartInv
  <2>5. Since(i, f, w)' /\ (Since(i, f, m) => Since(i, f, m)')
    BY <1>2, <2>2, <2>4, SinceOnward
  <2>6. Later(f, m, w) => Later(f, m, w)'
    BY <1>2 DEF Later, Old
  <2>7. run'.start = i /\ work'[f] = w /\ run'.made[f] = m
    BY <1>2, <1>3, <2>1, <2>3
  <2> QED BY <2>4, <2>5, <2>6, <2>7
<1>8. run'.start # None => run'.start.rev <= head
    BY <1>3 DEF IInv, RevsInv
<1> QED BY <1>1, <1>3, <1>4, <1>5, <1>6, <1>7, <1>8, StillStep

LEMMA FailStep ==
    ASSUME IInv, Types', Fail
    PROVE  IInv'
<1>1. /\ run' = NoRun /\ "run" \in Actors
      /\ UNCHANGED <<checkout, index, view, taken, query>>
    BY DEF Fail, Actors
<1>2. run'.at = "idle" /\ run'.start = None /\ info'.identity = None
    BY <1>1 DEF NoRun, Fail
<1>3. UnreadyInv'
    BY <1>2 DEF UnreadyInv
<1>4. \A a \in Actors : CaptureInv(taken[a])' /\ taken'[a].rev <= head'
    BY <1>1, TakenStep
<1>5. index' # None => index' \in [Files -> Flat]
    BY <1>1 DEF IInv, TextsInv
<1> QED BY <1>1, <1>2, <1>3, <1>4, <1>5, StillStep

LEMMA FinalizeStep ==
    ASSUME IInv, Types', Finalize
    PROVE  IInv'
<1>1. /\ run.at = "second" /\ Captured("run") /\ run' = NoRun /\ Forget("run")
      /\ "run" \in Actors
      /\ UNCHANGED <<checkout, index, view, query>>
    BY DEF Finalize, Actors
<1>2. Types /\ head' = head /\ commits' = commits /\ work' = work /\ index' = index
    BY <1>1 DEF IInv, checkout
<1>3. run'.at = "idle" /\ run'.start = None
    BY <1>1 DEF NoRun
<1>4. UnreadyInv'
    BY <1>3 DEF UnreadyInv
<1>5. \A a \in Actors : CaptureInv(taken[a])' /\ taken'[a].rev <= head'
    BY <1>1, TakenStep
<1>6. index' # None => index' \in [Files -> Flat]
    BY <1>1 DEF IInv, TextsInv
<1>7. PICK i : i = run.start
    OBVIOUS
<1>8. i \in Identities \cup {None} /\ (i # None => i.rev <= head)
    BY <1>2, <1>7 DEF IInv, RevsInv, Types, RunType
<1>9. info'.identity = None \/ (i # None /\ info'.identity = i)
    BY <1>7 DEF Finalize
<1>10. ASSUME i # None PROVE ReadyInv(i)'
  <2> SUFFICES ASSUME i.rev = head', NEW f \in Files
               PROVE  Since(i, f, index[f])' /\ Later(f, index[f], work[f])'
    BY <1>10 DEF ReadyInv
  <2>1. run.left = {} /\ index = run.made
    BY <1>1, <1>2 DEF IInv, Types, RunType, UnreadyInv
  <2>2. PICK w \in Text, m \in Text : w = work[f] /\ m = index[f]
    BY <1>1, <1>2, <2>1 DEF Types, CheckoutType, RunType, Tree
  <2>3. Since(i, f, m) /\ Later(f, m, w)
    BY <1>1, <1>2, <1>7, <1>10, <2>1, <2>2 DEF IInv, StartInv
  <2>4. Since(i, f, m)'
    BY <1>2, <1>8, <1>10, <2>3, SinceOnward
  <2>5. Later(f, m, w)'
    BY <1>2, <2>3 DEF Later, Old
  <2>6. index'[f] = m /\ work'[f] = w
    BY <1>2, <2>2
  <2> QED BY <2>4, <2>5, <2>6
<1>11. ASSUME info'.identity # None
       PROVE  info'.identity.rev <= head /\ ReadyInv(info.identity)'
  <2>1. i # None /\ info'.identity = i
    BY <1>9, <1>11
  <2> QED BY <1>8, <1>10, <2>1
<1> QED BY <1>1, <1>3, <1>4, <1>5, <1>6, <1>11, StillStep

LEMMA ClearStep ==
    ASSUME IInv, Types', Clear
    PROVE  IInv'
<1>1. /\ run.at = "idle" /\ index' = None /\ "run" \in Actors
      /\ UNCHANGED <<checkout, info, taken, run, query>>
    BY DEF Clear, Actors
<1>2. \A a \in Actors : CaptureInv(taken[a])' /\ taken'[a].rev <= head'
    BY <1>1, TakenStep
<1>3. UnreadyInv'
    BY <1>1 DEF UnreadyInv
<1>4. ReadyInv(info.identity)'
    BY <1>1 DEF ReadyInv
<1>5. info'.identity # None => info'.identity.rev <= head
    BY <1>1 DEF IInv, RevsInv
<1> QED BY <1>1, <1>2, <1>3, <1>4, <1>5, StillStep

(* A step that leaves the checkout, the run and what is recorded alone.    *)
LEMMA RestStep ==
    ASSUME IInv, Types', UNCHANGED <<checkout, info, index, run>>,
           NEW a \in Actors, Begin(a) \/ Forget(a) \/ UNCHANGED taken
    PROVE  IInv'
<1>1. \A b \in Actors : CaptureInv(taken[b])' /\ taken'[b].rev <= head'
    BY TakenStep
<1>2. UnreadyInv'
    BY DEF IInv, UnreadyInv
<1>3. /\ index' # None => index' \in [Files -> Flat]
      /\ run'.at \in {"scan", "publish", "second"} => run'.made \in [Files -> Flat]
    BY DEF IInv, TextsInv
<1>4. /\ ReadyInv(info.identity)'
      /\ run'.at \in {"first", "scan"} => ReadyInv(run.former.identity)'
    BY ReadyStill
<1>5. /\ info'.identity # None => info'.identity.rev <= head
      /\ run'.at \in {"first", "scan"} /\ run'.former.identity # None
           => run'.former.identity.rev <= head
    BY DEF IInv, RevsInv
<1> QED BY <1>1, <1>2, <1>3, <1>4, <1>5, StillStep

LEMMA QueriesStep ==
    ASSUME IInv, Types', ReadInfo \/ Opened \/ Load \/ Search \/ ReadChunks \/ Attach
    PROVE  IInv'
<1>1. UNCHANGED <<checkout, info, index, run>> /\ "query" \in Actors
    BY DEF ReadInfo, Opened, Load, Search, ReadChunks, Attach, Actors
<1>2. Begin("query") \/ Forget("query") \/ UNCHANGED taken
    BY DEF ReadInfo, Asks, Opened, Load, Search, ReadChunks, Attach
<1> QED BY <1>1, <1>2, RestStep

-----------------------------------------------------------------------------
(* The invariant, and what it is for.                                      *)

LEMMA InvInit ==
    ASSUME Init, Fronted = {}
    PROVE  IInv
<1>1. Types
    BY TypesInit
<1>2. /\ info.identity = None /\ run = NoRun
      /\ \A a \in Actors : taken[a] = NoCapture
    BY DEF Init
<1>3. /\ run.at = "idle" /\ run.start = None
      /\ NoCapture.at = "out" /\ NoCapture.rev = 0
    BY <1>2 DEF NoRun, NoCapture
<1>4. work \in [Files -> Flat] /\ \A f \in Files : work[f].body <= edits
  <2>1. CASE commits = <<>>
    BY <2>1, Constants DEF Init, Base, Empty, Void, Flat
  <2>2. CASE commits = <<First>>
    <3>1. Len(commits) = 1 /\ commits[1] = First
      BY <2>2
    <3>2. First \in [Files -> Flat] /\ \A f \in Files : First[f].body = 1
      BY Constants DEF First, Flat
    <3>3. work = First /\ edits = 1
      BY <3>1 DEF Init, Base
    <3> QED BY <3>2, <3>3
  <2> QED BY <2>1, <2>2 DEF Init
<1>5. TextsInv
  <2>1. index # None => index \in [Files -> Flat]
    BY FirstIndex, Constants DEF First, Flat
  <2> QED BY <1>3, <1>4, <2>1 DEF TextsInv
<1>6. RevsInv
    BY <1>1, <1>2, <1>3, Constants DEF RevsInv, Types, CheckoutType
<1>7. \A a \in Actors : CaptureInv(taken[a])
    BY <1>2, <1>3 DEF CaptureInv
<1>8. StartInv /\ UnreadyInv /\ ReadyInv(info.identity)
      /\ (run.at \in {"first", "scan"} => ReadyInv(run.former.identity))
    BY <1>2, <1>3 DEF StartInv, UnreadyInv, ReadyInv
<1> QED BY <1>1, <1>5, <1>6, <1>7, <1>8 DEF IInv

LEMMA InvStep ==
    ASSUME IInv, ~Rewinds, Fronted = {}, [Next]_vars
    PROVE  IInv'
<1>1. Types'
    BY TypesStep DEF IInv
<1>2. CASE UNCHANGED vars
  <2>1. UNCHANGED <<checkout, info, index, run>> /\ UNCHANGED taken /\ "run" \in Actors
    BY <1>2 DEF vars, Actors
  <2> QED BY <1>1, <2>1, RestStep
<1>3. CASE Next
  <2>1. CASE People
    BY <2>1, PeopleStep
  <2>2. ASSUME NEW a \in Actors, Captures(a) PROVE IInv'
    BY <2>2, CapturesStep
  <2>3. ASSUME NEW kind \in Kinds, Start(kind) PROVE IInv'
    BY <1>1, <2>3, StartStep
  <2>4. ASSUME NEW f \in Files, Scan(f) PROVE IInv'
    BY <1>1, <2>4, ScanStep
  <2>5. CASE Pend \/ Skip \/ Publish \/ Fail \/ Finalize \/ Clear
    BY <1>1, <2>5, PendStep, SkipStep, PublishStep, FailStep, FinalizeStep, ClearStep
  <2>6. CASE ReadInfo \/ Opened \/ Load \/ Search \/ ReadChunks \/ Attach
    BY <1>1, <2>6, QueriesStep
  <2> QED BY <1>3, <2>1, <2>2, <2>3, <2>4, <2>5, <2>6 DEF Next
<1> QED BY <1>2, <1>3

(* The invariant, if a file does not become again what it was and its hash *)
(* covers all of it: what a capture, a run or an index has of a file came  *)
(* after the identity it goes with and before what is there now.           *)
THEOREM EvidenceInvariantHolds ==
    ASSUME ~Rewinds, Fronted = {}
    PROVE  Spec => []IInv
<1>1. Init => IInv
    BY InvInit
<1>2. IInv /\ [Next]_vars => IInv'
    BY InvStep
<1> QED BY <1>1, <1>2, PTL DEF Spec

(* An identity that is recorded and is the one the checkout would give now *)
(* belongs to an index of exactly the texts of the checkout, for any files,*)
(* edits, stagings, commits and runs.                                      *)
THEOREM ReadyIndexExactHolds ==
    ASSUME ~Rewinds, Fronted = {}
    PROVE  Spec => []ReadyIndexExact
<1>1. IInv => ReadyIndexExact
  <2> SUFFICES ASSUME IInv, info.identity = Present, index # None
               PROVE  index = work
    BY DEF ReadyIndexExact
  <2>1. Types /\ index \in Tree /\ work \in Tree
    BY DEF IInv, Types, CheckoutType
  <2>2. /\ Present # None /\ Present.rev = head
        /\ \A f \in Files : Certain(Present, f) /\ Said(Present, f) = work[f]
    BY <2>1, PresentSays
  <2>3. ReadyInv(Present)
    BY DEF IInv
  <2>4. ASSUME NEW f \in Files PROVE index[f] = work[f]
    <3>1. Later(f, work[f], index[f]) /\ Later(f, index[f], work[f])
      BY <2>2, <2>3 DEF ReadyInv, Since
    <3>2. index[f] \in Text /\ work[f] \in Text
      BY <2>1 DEF Tree
    <3> QED BY <3>1, <3>2, LaterOrder
  <2> QED BY <2>1, <2>4 DEF Tree
<1> QED BY <1>1, EvidenceInvariantHolds, PTL

-----------------------------------------------------------------------------
(* A second invariant, for what a search offers as evidence.               *)

(* An old file that is there is tracked; one that is not old is never      *)
(* removed, so it is staged before it is committed and stays so.           *)
Tracked ==
    \A f \in Files :
      /\ Old(f) /\ work[f] # Void => stage[f] # Void
      /\ ~Old(f) => /\ work[f] = Void => stage[f] = Void
                    /\ stage[f] = Void => Base(head)[f] = Void

(* The file has left what the code says of it, for as long as the commit   *)
(* stays.                                                                  *)
Past(code, f) ==
    \/ /\ code = Clean
       /\ Later(f, Base(head)[f], work[f]) /\ work[f] # Base(head)[f]
    \/ Shown(code) /\ work[f] = Void /\ Old(f)

(* What a capture reads of a file after its code fits it, or the file has  *)
(* left what the code says.                                                *)
Fits(c, f) ==
    \/ Past(c.codes[f], f)
    \/ /\ c.codes[f] = Clean => c.work[f] = Base(head)[f]
       /\ Gone(c.codes[f]) => c.work[f] = Void
       /\ Shown(c.codes[f]) => c.work[f] # Void

Coded == {"diff", "cached", "others", "done"}

SteadyInv(c) ==
    c.at \in Coded /\ c.rev = head =>
      \A f \in Files :
        /\ Gone(c.codes[f]) => Old(f) /\ work[f] = Void
        /\ c.codes[f].edited = "untracked" => ~Old(f) /\ work[f] # Void
        /\ c.at = "diff" /\ Shown(c.codes[f]) => stage[f] # Void \/ Past(c.codes[f], f)
        /\ c.at # "diff" /\ (\E g \in Files : c.codes[g] # Clean) =>
             /\ Fits(c, f)
             /\ c.at = "done" => c.others[f] # Void <=> c.codes[f].edited = "untracked"

(* Nothing happened to the file while it was captured: what the identity   *)
(* denotes is what its code says.                                          *)
Steady(i, f) == Certain(i, f) /\ Denotes(i)[f] = Said(i, f)

(* A text that was in the checkout before the capture said what it says of *)
(* the file.                                                               *)
Before(c, f, text) ==
    IF c.at \notin Coded THEN Later(f, text, work[f])
    ELSE /\ c.codes[f] = Clean => Later(f, text, Base(head)[f])
         /\ Gone(c.codes[f]) => Later(f, text, Void)
         /\ c.codes[f].edited = "untracked" =>
              Later(f, text, IF c.at = "done" THEN c.others[f] ELSE work[f])
         /\ Shown(c.codes[f]) =>
              IF c.at = "diff" THEN Later(f, text, work[f])
              ELSE c.work[f] # Void => Later(f, text, c.work[f])

(* The capture may still give an identity with the commit that is there.   *)
Unmoved(c) == c.at # "failed" /\ (c.at \in Coded \cup {"status"} => c.rev = head)

(* The identity from before a run, and the one being captured after it.    *)
FirstInv ==
    run.at \in {"scan", "publish", "second"} /\ run.start # None /\ run.start.rev = head =>
      \A f \in Files : Steady(run.start, f) \/ Past(CodeOf(run.start, f), f)

SecondInv ==
    LET c == taken["run"]
    IN  run.at = "second" /\ run.start # None /\ run.start.rev = head /\ Unmoved(c) =>
          \A f \in Files :
            /\ Before(c, f, run.made[f])
            /\ c.at \in Coded => \/ Steady(run.start, f)
                                 \/ c.codes[f] # CodeOf(run.start, f)

(* A recorded identity denotes what is indexed.                            *)
ExactInv(i) ==
    i # None /\ i.rev = head =>
      \A f \in Files :
        /\ Steady(i, f)
        /\ Later(f, Said(i, f), work[f])
        /\ index # None => index[f] = Said(i, f)

(* The server has loaded what is published.                                *)
ViewInv == view \in {None, index}

(* What has been indexed since a search asked for the identity.            *)
Between(i, f, text) == Later(f, Said(i, f), text) /\ Later(f, text, work[f])

AskedInv ==
    query.at \in {"compare", "search", "chunks", "again"} /\ query.asked.rev = head =>
      \A f \in Files :
        /\ Steady(query.asked, f)
        /\ Later(f, Said(query.asked, f), work[f])
        /\ index # None => Between(query.asked, f, index[f])
        /\ run.at \in {"scan", "publish", "second"} /\ f \notin run.left =>
             Between(query.asked, f, run.made[f])

(* What the search has read is what the identity denotes, if that is, or   *)
(* comes to be, recorded again.                                            *)
ChunksInv ==
    query.at = "again" /\ query.asked.rev = head =>
      \A c \in query.chunks :
        /\ Between(query.asked, c[1], c[2])
        /\ info.identity = query.asked => c[2] = Said(query.asked, c[1])
        /\ run.at \in {"first", "scan"} /\ run.former.identity = query.asked =>
             c[2] = Said(query.asked, c[1])
        /\ run.at = "second" /\ run.start = query.asked /\ Unmoved(taken["run"]) =>
             Before(taken["run"], c[1], c[2])

True(i) == \A c \in query.chunks : c[2] = Denotes(i)[c[1]]

AnswerInv ==
    /\ query.at \notin {"idle", "answered"} =>
         query.asked # None /\ query.asked.rev <= head /\ query.answer = None
    /\ query.at = "idle" => query.answer = None
    /\ query.answer # None => query.answer.rev <= head /\ True(query.answer)
    /\ query.at = "compare_again"
         /\ (query.asked.rev = head
               \/ /\ taken["query"].at \in Coded \cup {"status"}
                  /\ taken["query"].rev = query.asked.rev)
         => True(query.asked)

EInv ==
    /\ IInv
    /\ Tracked
    /\ \A a \in Actors : SteadyInv(taken[a])
    /\ FirstInv
    /\ SecondInv
    /\ ExactInv(info.identity)
    /\ run.at \in {"first", "scan"} => ExactInv(run.former.identity)
    /\ ViewInv
    /\ AskedInv
    /\ ChunksInv
    /\ AnswerInv

-----------------------------------------------------------------------------
(* The checkout.                                                           *)

(* A commit becomes the base, and the first one says which files are old.  *)
LEMMA Committed ==
    ASSUME CheckoutType, NEW s \in Tree, commits' = Append(commits, s), head' = head + 1
    PROVE  /\ (Base(head))' = s
           /\ \A f \in Files :
                IF head = 0 THEN (Old(f)' <=> s[f] # Void) /\ ~Old(f) /\ Base(head)[f] = Void
                ELSE Old(f)' <=> Old(f)
<1>1. /\ commits \in Seq(Tree) /\ head = Len(commits) /\ head \in Nat
      /\ commits' \in Seq(Tree) /\ Len(commits') = head + 1 /\ head' = head + 1
      /\ commits'[head + 1] = s
      /\ \A r \in 1 .. head : commits'[r] = commits[r]
    BY Constants DEF CheckoutType
<1>2. (Base(head))' = s
    BY <1>1 DEF Base
<1>3. commits' # <<>>
    BY <1>1
<1>4. ASSUME head = 0, NEW f \in Files
      PROVE  (Old(f)' <=> s[f] # Void) /\ ~Old(f) /\ Base(head)[f] = Void
    BY <1>1, <1>3, <1>4, Values DEF Old, Base
<1>5. ASSUME head # 0, NEW f \in Files
      PROVE  Old(f)' <=> Old(f)
  <2>1. commits # <<>> /\ commits'[1] = commits[1]
    BY <1>1, <1>5
  <2> QED BY <1>3, <2>1 DEF Old
<1> QED BY <1>2, <1>4, <1>5

(* What is there is tracked, and a staged file is unstaged only when it is *)
(* removed.                                                                *)
LEMMA PeopleTracked ==
    ASSUME Types, Tracked, ~Rewinds, Fronted = {}, People
    PROVE  /\ Tracked'
           /\ head' = head =>
                \A f \in Files : stage[f] # Void =>
                  stage'[f] # Void \/ (work'[f] = Void /\ Old(f))
<1>1. CheckoutType /\ head \in Nat /\ stage \in Tree /\ work \in Tree
    BY Constants DEF Types, CheckoutType
<1>2. ASSUME NEW f \in Files, edits < MaxEdits, NEW text \in Writings(f)
      PROVE  text \in Text /\ text # Void
  <2>1. text = [body |-> edits + 1, front |-> 0]
    BY <1>2 DEF Writings
  <2>2. edits + 1 # 0
    BY <1>1 DEF CheckoutType
  <2>3. text \in Text
    BY <1>1, <1>2, CheckoutTypes
  <2> QED BY <2>1, <2>2, <2>3 DEF Void
<1>3. ASSUME NEW f \in Files, Edit(f)
      PROVE  Tracked' /\ stage' = stage
  <2>1. PICK text \in Writings(f) : work' = [work EXCEPT ![f] = text]
    BY <1>3 DEF Edit
  <2>2. /\ edits < MaxEdits /\ (work[f] # Void \/ ~Old(f))
        /\ head' = head /\ commits' = commits /\ stage' = stage
    BY <1>3 DEF Edit
  <2>3. text # Void
    BY <1>2, <2>1, <2>2
  <2>4. \A g \in Files : work'[g] = IF g = f THEN text ELSE work[g]
    BY <1>1, <2>1 DEF Tree
  <2> QED BY <2>2, <2>3, <2>4 DEF Tracked, Old, Base
<1>4. ASSUME NEW f \in Files, Drop(f)
      PROVE  Tracked' /\ stage' = stage
  <2>1. /\ Old(f) /\ UNCHANGED <<head, commits, stage>>
        /\ \A g \in Files : work'[g] = IF g = f THEN Void ELSE work[g]
    BY <1>1, <1>4 DEF Drop, Tree
  <2> QED BY <2>1 DEF Tracked, Old, Base
<1>5. ASSUME NEW f \in Files, Add(f)
      PROVE  /\ Tracked'
             /\ \A g \in Files : stage[g] # Void =>
                  stage'[g] # Void \/ (work'[g] = Void /\ Old(g))
  <2>1. /\ UNCHANGED <<head, commits, work>>
        /\ \A g \in Files : stage'[g] = IF g = f THEN work[f] ELSE stage[g]
    BY <1>1, <1>5 DEF Add, Tree
  <2> QED BY <2>1 DEF Tracked, Old, Base
<1>6. ASSUME Commit PROVE Tracked' /\ head' # head
  <2>1. /\ commits' = Append(commits, stage) /\ head' = head + 1
        /\ UNCHANGED <<stage, work>>
    BY <1>6 DEF Commit
  <2>2. /\ (Base(head))' = stage
        /\ \A f \in Files :
             IF head = 0 THEN (Old(f)' <=> stage[f] # Void) /\ ~Old(f)
             ELSE Old(f)' <=> Old(f)
    BY <1>1, <2>1, Committed
  <2> QED BY <1>1, <2>1, <2>2 DEF Tracked
<1>7. ASSUME NEW f \in Files, Pull(f)
      PROVE  Tracked' /\ head' # head
  <2>1. PICK text \in Writings(f) : work' = [work EXCEPT ![f] = text]
    BY <1>7 DEF Pull
  <2>2. /\ edits < MaxEdits /\ commits' = Append(commits, work') /\ head' = head + 1
        /\ stage' = work' /\ \A g \in Files : Code(g) = Clean
    BY <1>7 DEF Pull
  <2>3. text \in Text /\ text # Void
    BY <1>2, <2>1, <2>2
  <2>4. work' \in Tree /\ \A g \in Files : work'[g] = IF g = f THEN text ELSE work[g]
    BY <1>1, <2>1, <2>3 DEF Tree
  <2>5. PICK w \in Tree : w = work'
    BY <2>4
  <2>6. (Base(head))' = w /\ \A g \in Files : head = 0 => (Old(g)' <=> w[g] # Void)
    BY <1>1, <2>2, <2>5, Committed
  <2> QED BY <1>1, <2>2, <2>5, <2>6 DEF Tracked
<1> QED BY <1>3, <1>4, <1>5, <1>6, <1>7 DEF People

LEMMA TrackedInit == Init => Tracked
<1> SUFFICES ASSUME Init PROVE Tracked
    OBVIOUS
<1>1. work = stage /\ stage = Base(head)
    BY DEF Init
<1> QED BY <1>1 DEF Tracked

-----------------------------------------------------------------------------
(* What stays so.                                                          *)

(* While nobody touches the checkout, all that is said of it stays so.     *)
LEMMA Untouched ==
    ASSUME UNCHANGED checkout, NEW f, NEW i, NEW c, NEW x
    PROVE  /\ Later(f, x, work[f])' <=> Later(f, x, work[f])
           /\ Steady(i, f)' <=> Steady(i, f)
           /\ (Said(i, f))' = Said(i, f)
           /\ (Denotes(i))' = Denotes(i)
           /\ Later(f, Said(i, f), work[f])' <=> Later(f, Said(i, f), work[f])
           /\ Between(i, f, x)' <=> Between(i, f, x)
           /\ Past(x, f)' <=> Past(x, f)
           /\ SteadyInv(c)' <=> SteadyInv(c)
           /\ Before(c, f, x)' <=> Before(c, f, x)
           /\ Unmoved(c)' <=> Unmoved(c)
<1>1. /\ head' = head /\ commits' = commits /\ stage' = stage /\ work' = work
    BY DEF checkout
<1>2. (Base(head))' = Base(head) /\ \A r : (Base(r))' = Base(r)
    BY <1>1 DEF Base
<1>3. \A g, y, z : Later(g, y, z)' <=> Later(g, y, z)
    BY <1>1 DEF Later, Old
<1>4. (Said(i, f))' = Said(i, f) /\ (Denotes(i))' = Denotes(i)
    BY <1>1 DEF Said, Denotes, Base, CodeOf, Gone
<1>5. Certain(i, f)' <=> Certain(i, f)
    BY <1>4 DEF Certain, Shown, CodeOf, Gone
<1>6. Past(x, f)' <=> Past(x, f)
    BY <1>1 DEF Past, Base, Later, Old, Shown, Gone
<1>7. SteadyInv(c)' <=> SteadyInv(c)
    BY <1>1 DEF SteadyInv, Fits, Past, Base, Later, Old, Shown, Gone
<1>8. Before(c, f, x)' <=> Before(c, f, x)
    BY <1>1 DEF Before, Base, Later, Old, Shown, Gone
<1>9. Unmoved(c)' <=> Unmoved(c)
    BY <1>1 DEF Unmoved
<1>10. /\ Later(f, x, work[f])' <=> Later(f, x, work[f])
       /\ Later(f, Said(i, f), work[f])' <=> Later(f, Said(i, f), work[f])
       /\ Later(f, Said(i, f), x)' <=> Later(f, Said(i, f), x)
    BY <1>1, <1>4 DEF Later, Old
<1> QED BY <1>4, <1>5, <1>6, <1>7, <1>8, <1>9, <1>10 DEF Steady, Between

(* A commit that is there stays as it is.                                  *)
LEMMA BaseStays ==
    ASSUME Types, [Next]_vars
    PROVE  /\ head \in Nat /\ head' \in Nat /\ head' >= head
           /\ \A r \in 0 .. head : (Base(r))' = Base(r)
           /\ head' = head => commits' = commits
<1>1. /\ commits \in Seq(Tree) /\ head = Len(commits) /\ head \in Nat
      /\ stage \in Tree /\ work \in Tree
    BY Constants DEF Types, CheckoutType
<1>2. CASE head' = head /\ commits' = commits
    BY <1>1, <1>2 DEF Base
<1>3. ASSUME NEW s, commits' = Append(commits, s), head' = head + 1
      PROVE  \A r \in 0 .. head : (Base(r))' = Base(r)
  <2>1. \A r \in 1 .. head : commits'[r] = commits[r]
    BY <1>1, <1>3
  <2> QED BY <1>1, <2>1 DEF Base
<1>4. \/ head' = head /\ commits' = commits
      \/ head' = head + 1 /\ \E s : commits' = Append(commits, s)
  <2>1. CASE People
    BY <2>1 DEF People, Edit, Drop, Add, Commit, Pull
  <2>2. CASE UNCHANGED vars
    BY <2>2 DEF vars, checkout
  <2>3. CASE Next /\ ~People
    <3>1. UNCHANGED checkout
      BY <2>3 DEF Next, Captures, ReadHead, ReadStatus, DiffWork, DiffStage, ReadOthers,
           CaptureFails, Moves, Start, Pend, Skip, Scan, Publish, Fail, Finalize, Clear,
           ReadInfo, Opened, Load, Search, ReadChunks, Attach
    <3> QED BY <3>1 DEF checkout
  <2> QED BY <2>1, <2>2, <2>3
<1> QED BY <1>1, <1>2, <1>3, <1>4

(* So what an identity denotes does not change.                            *)
LEMMA DenotesStays ==
    ASSUME Types, [Next]_vars, NEW i \in Identities, i.rev <= head
    PROVE  (Denotes(i))' = Denotes(i)
<1>1. i.rev \in 0 .. head
    BY BaseStays DEF Identities
<1>2. (Base(i.rev))' = Base(i.rev)
    BY <1>1, BaseStays
<1> QED BY <1>2 DEF Denotes

(* While the commit stays and files go onward, what was so remains so.     *)
LEMMA WhileCommitStays ==
    ASSUME Types, Types', head' = head, commits' = commits, NEW f \in Files,
           Later(f, work[f], work'[f])
    PROVE  /\ \A x \in Text : Later(f, x, work[f]) => Later(f, x, work[f])'
           /\ \A code : Past(code, f) => Past(code, f)'
           /\ \A i : Steady(i, f) <=> Steady(i, f)'
           /\ \A i : (Said(i, f))' = Said(i, f)
           /\ \A i, x : Later(f, Said(i, f), x)' <=> Later(f, Said(i, f), x)
<1>1. /\ work[f] \in Text /\ work'[f] \in Text /\ Base(head)[f] \in Text
      /\ (Base(head))' = Base(head) /\ (Old(f)' <=> Old(f))
    BY CheckoutTypes DEF Types, CheckoutType, Tree, Base, Old
<1>2. \A x, y : Later(f, x, y)' <=> Later(f, x, y)
    BY DEF Later, Old
<1>3. \A x \in Text : Later(f, x, work[f]) => Later(f, x, work'[f])
    BY <1>1, LaterOrder
<1>4. \A x : Later(f, x, work[f])' <=> Later(f, x, work'[f])
    BY DEF Later, Old
<1>5. ASSUME NEW code, Past(code, f) PROVE Past(code, f)'
  <2>1. CASE /\ code = Clean
             /\ Later(f, Base(head)[f], work[f]) /\ work[f] # Base(head)[f]
    <3>1. Later(f, Base(head)[f], work'[f])
      BY <1>1, <1>3, <2>1
    <3>2. work'[f] # Base(head)[f]
      BY <1>1, <2>1, LaterOrder
    <3>3. Later(f, Base(head)[f], work[f])'
      BY <1>1, <3>1 DEF Later
    <3> QED BY <1>1, <2>1, <3>2, <3>3 DEF Past
  <2>2. CASE Shown(code) /\ work[f] = Void /\ Old(f)
    <3>1. work'[f] = Void
      BY <2>2 DEF Later
    <3> QED BY <1>1, <2>2, <3>1 DEF Past, Shown, Gone
  <2> QED BY <1>5, <2>1, <2>2 DEF Past
<1>6. \A i : (Said(i, f))' = Said(i, f) /\ (Denotes(i))' = Denotes(i)
    BY DEF Said, Denotes, Base, CodeOf, Gone
<1>7. \A i : Steady(i, f) <=> Steady(i, f)'
    BY <1>6 DEF Steady, Certain, Shown, CodeOf, Gone
<1>8. \A i, x : Later(f, Said(i, f), x)' <=> Later(f, Said(i, f), x)
    BY <1>6 DEF Later, Old
<1> QED BY <1>3, <1>4, <1>5, <1>6, <1>7, <1>8

LEMMA SteadyOnward ==
    ASSUME Types, Types', head' = head, commits' = commits,
           \A f \in Files : Later(f, work[f], work'[f]),
           \A f \in Files : stage[f] # Void => stage'[f] # Void \/ (work'[f] = Void /\ Old(f)),
           NEW c, SteadyInv(c)
    PROVE  SteadyInv(c)'
<1> SUFFICES ASSUME c.at \in Coded, c.rev = head, NEW f \in Files
             PROVE  /\ Gone(c.codes[f]) => Old(f)' /\ work'[f] = Void
                    /\ c.codes[f].edited = "untracked" => ~Old(f)' /\ work'[f] # Void
                    /\ c.at = "diff" /\ Shown(c.codes[f]) =>
                         stage'[f] # Void \/ Past(c.codes[f], f)'
                    /\ c.at # "diff" /\ (\E g \in Files : c.codes[g] # Clean) =>
                         /\ Fits(c, f)'
                         /\ c.at = "done" =>
                              c.others[f] # Void <=> c.codes[f].edited = "untracked"
    BY DEF SteadyInv, Shown, Gone
<1>1. /\ Gone(c.codes[f]) => Old(f) /\ work[f] = Void
      /\ c.codes[f].edited = "untracked" => ~Old(f) /\ work[f] # Void
      /\ c.at = "diff" /\ Shown(c.codes[f]) => stage[f] # Void \/ Past(c.codes[f], f)
      /\ c.at # "diff" /\ (\E g \in Files : c.codes[g] # Clean) =>
           /\ Fits(c, f)
           /\ c.at = "done" => c.others[f] # Void <=> c.codes[f].edited = "untracked"
    BY DEF SteadyInv
<1>2. PICK code : code = c.codes[f]
    OBVIOUS
<1>3. Past(code, f) => Past(code, f)'
    BY WhileCommitStays
<1>4. (Old(f)' <=> Old(f)) /\ (Base(head))' = Base(head)
    BY DEF Old, Base
<1>5. /\ Old(f) /\ work[f] = Void => work'[f] = Void
      /\ ~Old(f) /\ work[f] # Void => work'[f] # Void
    BY DEF Later
<1>6. Shown(code) /\ stage[f] # Void => stage'[f] # Void \/ Past(code, f)'
    BY <1>4 DEF Past, Shown, Gone
<1>7. Fits(c, f) => Fits(c, f)'
    BY <1>2, <1>3, <1>4 DEF Fits, Shown, Gone
<1> QED BY <1>1, <1>2, <1>3, <1>4, <1>5, <1>6, <1>7

LEMMA BeforeOnward ==
    ASSUME Types, Types', head' = head, commits' = commits, NEW f \in Files,
           Later(f, work[f], work'[f]), NEW c, NEW x \in Text, Before(c, f, x)
    PROVE  Before(c, f, x)'
<1>1. Later(f, x, work[f]) => Later(f, x, work[f])'
    BY WhileCommitStays
<1>2. (Base(head))' = Base(head) /\ \A y : Later(f, x, y)' <=> Later(f, x, y)
    BY DEF Base, Later, Old
<1>3. PICK b, w : b = Base(head)[f] /\ w = work'[f]
    OBVIOUS
<1>4. /\ Later(f, x, work[f])' <=> Later(f, x, w)
      /\ Later(f, x, Base(head)[f])' <=> Later(f, x, b)
    BY <1>2, <1>3 DEF Later, Old
<1>5. \A code : (Shown(code)' <=> Shown(code)) /\ (Gone(code)' <=> Gone(code))
    BY DEF Shown, Gone
<1>6. Later(f, x, work[f]) => Later(f, x, w)
    BY <1>1, <1>4
<1>7. CASE c.at \notin Coded
    BY <1>1, <1>7 DEF Before
<1>8. CASE c.at \in Coded
  <2>1. /\ c.codes[f] = Clean => Later(f, x, b)
        /\ Gone(c.codes[f]) => Later(f, x, Void)
        /\ c.codes[f].edited = "untracked" =>
             Later(f, x, IF c.at = "done" THEN c.others[f] ELSE work[f])
        /\ Shown(c.codes[f]) =>
             IF c.at = "diff" THEN Later(f, x, work[f])
             ELSE c.work[f] # Void => Later(f, x, c.work[f])
    BY <1>3, <1>8, BaseStays DEF Before
  <2>2. (Later(f, x, Base(head)[f]))' <=> Later(f, x, b)
    BY <1>4
  <2>3. /\ c.codes[f] = Clean => Later(f, x, Base(head)[f])'
        /\ Gone(c.codes[f]) => Later(f, x, Void)'
    BY <1>2, <2>1, <2>2
  <2>4. c.codes[f].edited = "untracked" =>
          (IF c.at = "done" THEN Later(f, x, c.others[f]) ELSE Later(f, x, w))
    BY <1>6, <2>1
  <2>5. Shown(c.codes[f]) =>
          IF c.at = "diff" THEN Later(f, x, w)
          ELSE c.work[f] # Void => Later(f, x, c.work[f])
    BY <1>6, <2>1
  <2> QED BY <1>2, <1>3, <1>4, <1>5, <1>8, <2>3, <2>4, <2>5 DEF Before
<1> QED BY <1>7, <1>8

-----------------------------------------------------------------------------
(* People.                                                                 *)

(* The types that the invariant needs.                                     *)
LEMMA Typed ==
    ASSUME IInv, AnswerInv
    PROVE  /\ Types /\ CheckoutType /\ head \in Nat /\ work \in Tree /\ stage \in Tree
           /\ "run" \in Actors /\ "query" \in Actors
           /\ \A a \in Actors : taken[a] \in CaptureType /\ Filled(taken[a])
                                /\ taken[a].rev \in Nat /\ taken[a].rev <= head
           /\ info.identity # None => info.identity \in Identities
                /\ info.identity.rev \in Nat /\ info.identity.rev <= head
           /\ run.start # None => run.start \in Identities
                /\ run.start.rev \in Nat /\ run.start.rev <= head
           /\ run.at \in {"first", "scan"} /\ run.former.identity # None =>
                run.former.identity \in Identities
                /\ run.former.identity.rev \in Nat /\ run.former.identity.rev <= head
           /\ run.at \in {"scan", "publish", "second"} => run.made \in Tree
           /\ index # None => index \in Tree
           /\ query.at \notin {"idle", "answered"} => query.asked \in Identities
                /\ query.asked.rev \in Nat /\ query.asked.rev <= head
           /\ query.answer # None => query.answer \in Identities
                /\ query.answer.rev \in Nat /\ query.answer.rev <= head
           /\ \A k \in query.chunks : k[1] \in Files /\ k[2] \in Text
<1>1. Types /\ RevsInv
    BY DEF IInv
<1>2. \A i \in Identities : i.rev \in Nat
    BY Constants DEF Identities
<1>3. /\ CheckoutType /\ head \in Nat /\ work \in Tree /\ stage \in Tree
      /\ info.identity # None => info.identity \in Identities
      /\ run.start # None => run.start \in Identities
      /\ run.at \in {"first", "scan"} /\ run.former.identity # None =>
           run.former.identity \in Identities
      /\ run.at \in {"scan", "publish", "second"} => run.made \in Tree
      /\ index # None => index \in Tree
      /\ query.asked # None => query.asked \in Identities
      /\ query.answer # None => query.answer \in Identities
      /\ query.chunks \in SUBSET (Files \X Text)
    BY <1>1, Constants DEF Types, CheckoutType, InfoType, RunType, QueryType
<1>4. \A a \in Actors : taken[a] \in CaptureType /\ Filled(taken[a]) /\ taken[a].rev \in Nat
    BY <1>1, Constants DEF Types, CaptureType
<1> QED BY <1>1, <1>2, <1>3, <1>4 DEF RevsInv, AnswerInv, Actors

(* Once another commit is checked out, only what was captured counts.      *)
LEMMA PeopleCommit ==
    ASSUME EInv, IInv', Tracked', People, head' = head + 1
    PROVE  EInv'
<1>1. UNCHANGED <<info, index, view, taken, run, query>> /\ [Next]_vars
    BY DEF People, Next
<1>2. IInv /\ AnswerInv
    BY DEF EInv
<1>3. head \in Nat /\ Types
    BY <1>2, Typed
<1>4. \A a \in Actors : taken'[a].rev # head'
    BY <1>1, <1>2, Typed
<1>5. /\ info'.identity # None => info'.identity.rev # head'
      /\ run'.start # None => run'.start.rev # head'
      /\ run'.at \in {"first", "scan"} /\ run'.former.identity # None =>
           run'.former.identity.rev # head'
      /\ query'.at \notin {"idle", "answered"} => query'.asked.rev # head'
    BY <1>1, <1>2, Typed
<1>6. \A a \in Actors : SteadyInv(taken[a])'
    BY <1>4 DEF SteadyInv
<1>7. /\ FirstInv' /\ SecondInv' /\ ExactInv(info.identity)'
      /\ (run'.at \in {"first", "scan"} => ExactInv(run.former.identity)')
    BY <1>5 DEF FirstInv, SecondInv, ExactInv
<1>8. AskedInv' /\ ChunksInv' /\ ViewInv'
    BY <1>1, <1>5 DEF AskedInv, ChunksInv, ViewInv, EInv
<1>9. AnswerInv'
  <2>1. ASSUME NEW i \in Identities, i.rev <= head, True(i) PROVE True(i)'
    <3>1. (Denotes(i))' = Denotes(i)
      BY <1>1, <1>3, <2>1, DenotesStays
    <3> QED BY <1>1, <2>1, <3>1 DEF True
  <2>2. PICK i, j : i = query.asked /\ j = query.answer
    OBVIOUS
  <2>3. /\ query.at \notin {"idle", "answered"} => i \in Identities /\ i.rev <= head
        /\ j # None => j \in Identities /\ j.rev <= head /\ j.rev \in Nat
    BY <1>2, <2>2, Typed
  <2>4. query'.at \notin {"idle", "answered"} =>
          query'.asked # None /\ query'.asked.rev <= head' /\ query'.answer = None
    BY <1>1, <1>2, <1>3, Typed DEF AnswerInv
  <2>5. query'.answer # None => query'.answer.rev <= head' /\ True(query.answer)'
    <3>1. j # None => True(j)'
      BY <1>2, <2>1, <2>2, <2>3 DEF AnswerInv
    <3>2. j = query'.answer
      BY <1>1, <2>2
    <3> QED BY <1>3, <2>3, <3>1, <3>2
  <2>6. ASSUME query'.at = "compare_again",
               \/ query'.asked.rev = head'
               \/ /\ taken'["query"].at \in Coded \cup {"status"}
                  /\ taken'["query"].rev = query'.asked.rev
        PROVE  True(query.asked)'
    <3>1. True(i)
      BY <1>1, <1>2, <1>5, <2>2, <2>6 DEF AnswerInv
    <3>2. True(i)'
      BY <1>1, <2>1, <2>3, <2>6, <3>1
    <3>3. i = query'.asked
      BY <1>1, <2>2
    <3> QED BY <3>2, <3>3
  <2>7. query'.at = "idle" => query'.answer = None
    BY <1>1, <1>2 DEF AnswerInv
  <2> QED BY <2>4, <2>5, <2>6, <2>7 DEF AnswerInv
<1> QED BY <1>6, <1>7, <1>8, <1>9 DEF EInv

LEMMA ExactOnward ==
    ASSUME Types, Types', head' = head, commits' = commits,
           \A f \in Files : Later(f, work[f], work'[f]), index' = index,
           NEW i \in Identities \cup {None}, i # None => i.rev <= head, ExactInv(i)
    PROVE  ExactInv(i)'
<1> SUFFICES ASSUME i # None, i.rev = head, NEW f \in Files
             PROVE  /\ Steady(i, f)' /\ Later(f, Said(i, f), work[f])'
                    /\ index' # None => index'[f] = (Said(i, f))'
    BY DEF ExactInv
<1>1. /\ Steady(i, f) /\ Later(f, Said(i, f), work[f])
      /\ index # None => index[f] = Said(i, f)
    BY DEF ExactInv
<1>2. PICK x : x = Said(i, f)
    OBVIOUS
<1>3. x \in Text
    BY <1>2, SaidText
<1>4. Later(f, x, work[f])' /\ (Said(i, f))' = x /\ Steady(i, f)'
    BY <1>1, <1>2, <1>3, WhileCommitStays
<1>5. Later(f, Said(i, f), work[f])'
    BY <1>4 DEF Later, Old
<1> QED BY <1>1, <1>2, <1>4, <1>5

LEMMA BetweenOnward ==
    ASSUME Types, Types', head' = head, commits' = commits, NEW f \in Files,
           Later(f, work[f], work'[f]), NEW i, NEW x \in Text, Between(i, f, x)
    PROVE  Between(i, f, x)'
<1>1. Later(f, x, work[f])'
    BY WhileCommitStays DEF Between
<1>2. Later(f, Said(i, f), x)'
    BY WhileCommitStays DEF Between
<1> QED BY <1>1, <1>2 DEF Between

LEMMA PeopleStay ==
    ASSUME EInv, IInv', Tracked', People, head' = head, commits' = commits,
           \A f \in Files : Later(f, work[f], work'[f]),
           \A f \in Files : stage[f] # Void => stage'[f] # Void \/ (work'[f] = Void /\ Old(f))
    PROVE  EInv'
<1>1. UNCHANGED <<info, index, view, taken, run, query>> /\ [Next]_vars
    BY DEF People, Next
<1>2. IInv /\ AnswerInv /\ Types /\ Types'
    BY DEF EInv, IInv
<1>3. PICK c, s, i, j, a, b, m, n :
        /\ c = taken["run"] /\ s = run.start /\ i = info.identity
        /\ j = run.former.identity /\ a = query.asked /\ b = query.answer
        /\ m = run.made /\ n = index
    OBVIOUS
<1>4. /\ c = taken'["run"] /\ s = run'.start /\ i = info'.identity
      /\ j = run'.former.identity /\ a = query'.asked /\ b = query'.answer
      /\ m = run'.made /\ n = index'
    BY <1>1, <1>3
<1>5. ASSUME NEW p \in Actors PROVE SteadyInv(taken[p])'
  <2>1. PICK d : d = taken[p]
    OBVIOUS
  <2>2. SteadyInv(d)'
    BY <1>2, <2>1, SteadyOnward DEF EInv
  <2>3. d = taken'[p]
    BY <1>1, <2>1
  <2> QED BY <2>2, <2>3
<1>6. FirstInv'
  <2> SUFFICES ASSUME run.at \in {"scan", "publish", "second"}, s # None, s.rev = head,
                      NEW f \in Files
               PROVE  Steady(s, f)' \/ Past(CodeOf(s, f), f)'
    BY <1>1, <1>4 DEF FirstInv
  <2>1. Steady(s, f) \/ Past(CodeOf(s, f), f)
    BY <1>3 DEF EInv, FirstInv
  <2>2. PICK code : code = CodeOf(s, f)
    OBVIOUS
  <2>3. Steady(s, f)' \/ Past(code, f)'
    BY <1>2, <2>1, <2>2, WhileCommitStays
  <2>4. Past(code, f)' => Past(CodeOf(s, f), f)'
    BY <2>2 DEF CodeOf
  <2> QED BY <2>3, <2>4
<1>7. SecondInv'
  <2> SUFFICES ASSUME run.at = "second", s # None, s.rev = head, Unmoved(c), NEW f \in Files
               PROVE  /\ Before(c, f, m[f])'
                      /\ c.at \in Coded => Steady(s, f)' \/ c.codes[f] # CodeOf(s, f)
    BY <1>1, <1>4 DEF SecondInv, Unmoved, CodeOf
  <2>1. PICK x \in Text : x = m[f]
    BY <1>2, <1>3, Typed DEF Tree
  <2>2. /\ Before(c, f, x)
        /\ c.at \in Coded => Steady(s, f) \/ c.codes[f] # CodeOf(s, f)
    BY <1>3, <2>1 DEF EInv, SecondInv
  <2>3. Before(c, f, x)' /\ (Steady(s, f) => Steady(s, f)')
    BY <1>2, <2>2, BeforeOnward, WhileCommitStays
  <2> QED BY <2>1, <2>2, <2>3
<1>8. ExactInv(info.identity)'
  <2>1. i \in Identities \cup {None} /\ (i # None => i.rev <= head) /\ ExactInv(i)
    BY <1>2, <1>3, Typed DEF EInv
  <2>2. ExactInv(i)'
    BY <1>1, <1>2, <2>1, ExactOnward
  <2> QED BY <1>4, <2>2
<1>9. ASSUME run'.at \in {"first", "scan"} PROVE ExactInv(run.former.identity)'
  <2>1. j \in Identities \cup {None} /\ (j # None => j.rev <= head) /\ ExactInv(j)
    BY <1>1, <1>2, <1>3, <1>9, Typed DEF EInv
  <2>2. ExactInv(j)'
    BY <1>1, <1>2, <2>1, ExactOnward
  <2> QED BY <1>4, <2>2
<1>10. ViewInv'
    BY <1>1 DEF EInv, ViewInv
<1>11. AskedInv'
  <2> SUFFICES ASSUME query.at \in {"compare", "search", "chunks", "again"}, a.rev = head,
                      NEW f \in Files
               PROVE  /\ Steady(a, f)' /\ Later(f, Said(a, f), work[f])'
                      /\ n # None => Between(a, f, n[f])'
                      /\ run.at \in {"scan", "publish", "second"} /\ f \notin run.left =>
                           Between(a, f, m[f])'
    BY <1>1, <1>4 DEF AskedInv
  <2>1. /\ Steady(a, f) /\ Later(f, Said(a, f), work[f])
        /\ n # None => Between(a, f, n[f])
        /\ run.at \in {"scan", "publish", "second"} /\ f \notin run.left =>
             Between(a, f, m[f])
    BY <1>3 DEF EInv, AskedInv
  <2>2. PICK x : x = Said(a, f)
    OBVIOUS
  <2>3. /\ x \in Text
        /\ n # None => n[f] \in Text
        /\ run.at \in {"scan", "publish", "second"} => m[f] \in Text
    BY <1>2, <1>3, <2>2, Typed, SaidText DEF Tree
  <2>4. Later(f, x, work[f])' /\ (Said(a, f))' = x /\ Steady(a, f)'
    BY <1>2, <2>1, <2>2, <2>3, WhileCommitStays
  <2>5. n # None => Between(a, f, n[f])'
    BY <1>2, <2>1, <2>3, BetweenOnward
  <2>6. run.at \in {"scan", "publish", "second"} /\ f \notin run.left => Between(a, f, m[f])'
    BY <1>2, <2>1, <2>3, BetweenOnward
  <2>7. Later(f, Said(a, f), work[f])'
    BY <2>4 DEF Later, Old
  <2> QED BY <2>4, <2>5, <2>6, <2>7
<1>12. ChunksInv'
  <2> SUFFICES ASSUME query.at = "again", a.rev = head, NEW k \in query.chunks
               PROVE  /\ Between(a, k[1], k[2])'
                      /\ i = a => k[2] = (Said(a, k[1]))'
                      /\ run.at \in {"first", "scan"} /\ j = a => k[2] = (Said(a, k[1]))'
                      /\ run.at = "second" /\ s = a /\ Unmoved(c) => Before(c, k[1], k[2])'
    BY <1>1, <1>4 DEF ChunksInv, Unmoved
  <2>1. PICK f \in Files, x \in Text : f = k[1] /\ x = k[2]
    BY <1>2, Typed
  <2>2. /\ Between(a, f, x)
        /\ i = a => x = Said(a, f)
        /\ run.at \in {"first", "scan"} /\ j = a => x = Said(a, f)
        /\ run.at = "second" /\ s = a /\ Unmoved(c) => Before(c, f, x)
    BY <1>3, <2>1 DEF EInv, ChunksInv
  <2>3. Between(a, f, x)' /\ (Said(a, f))' = Said(a, f)
    BY <1>2, <2>2, BetweenOnward, WhileCommitStays
  <2>4. Before(c, f, x) => Before(c, f, x)'
    BY <1>2, BeforeOnward
  <2> QED BY <2>1, <2>2, <2>3, <2>4
<1>13. AnswerInv'
  <2>1. \A d : (Denotes(d))' = Denotes(d)
    BY DEF Denotes, Base
  <2>2. \A d : True(d)' <=> True(d)
    BY <1>1, <2>1 DEF True
  <2>3. head' = head /\ taken' = taken /\ query' = query
    BY <1>1
  <2>4. True(query.answer)' <=> True(query.answer)
    BY <1>3, <1>4, <2>2
  <2>5. True(query.asked)' <=> True(query.asked)
    BY <1>3, <1>4, <2>2
  <2> QED BY <1>2, <2>3, <2>4, <2>5 DEF AnswerInv
<1> QED BY <1>5, <1>6, <1>7, <1>8, <1>9, <1>10, <1>11, <1>12, <1>13 DEF EInv

LEMMA PeopleKeep ==
    ASSUME EInv, ~Rewinds, Fronted = {}, People
    PROVE  EInv'
<1>1. IInv /\ Types /\ TextsInv /\ Tracked
    BY DEF EInv, IInv
<1>2. IInv'
    BY <1>1, PeopleStep
<1>3. \/ head' = head + 1
      \/ /\ head' = head /\ commits' = commits
         /\ \A f \in Files : Later(f, work[f], work'[f])
    BY <1>1, PeopleOnward
<1>4. /\ Tracked'
      /\ head' = head =>
           \A f \in Files : stage[f] # Void =>
             stage'[f] # Void \/ (work'[f] = Void /\ Old(f))
    BY <1>1, PeopleTracked
<1> QED BY <1>2, <1>3, <1>4, PeopleCommit, PeopleStay

-----------------------------------------------------------------------------
(* The captures.                                                           *)

(* A file that has left what a code says of it does not get that code.     *)
LEMMA PastCode ==
    ASSUME NEW f \in Files, NEW code, Past(code, f)
    PROVE  Code(f) # code
<1>1. CASE code = Clean /\ work[f] # Base(head)[f]
    BY <1>1 DEF Code, Clean
<1>2. CASE Shown(code) /\ work[f] = Void
    BY <1>2 DEF Code, Clean, Shown, Gone
<1> QED BY <1>1, <1>2 DEF Past

(* What the code that status gives says of the file.                       *)
LEMMA StatusSays ==
    ASSUME Tracked, NEW f \in Files
    PROVE  /\ Code(f) = Clean => work[f] = Base(head)[f]
           /\ Gone(Code(f)) => Old(f) /\ work[f] = Void
           /\ Code(f).edited = "untracked" => ~Old(f) /\ work[f] # Void
           /\ Shown(Code(f)) => stage[f] # Void
BY DEF Tracked, Code, Clean, Gone, Shown

(* What follows from a capture that goes on.                               *)
LEMMA MovesKeep ==
    ASSUME EInv, IInv', NEW a \in Actors, NEW from, NEW c, NEW d,
           c = taken[a], Moves(a, from, d), SteadyInv(d),
           Unmoved(d) => /\ Unmoved(c)
                         /\ \A f \in Files : \A x \in Text : Before(c, f, x) => Before(d, f, x),
           d.at \in Coded => \/ c.at \in Coded /\ d.codes = c.codes
                             \/ \A f \in Files : d.codes[f] = Code(f),
           d.at \in Coded \cup {"status"} =>
             d.rev = head \/ (c.at \in Coded \cup {"status"} /\ d.rev = c.rev)
    PROVE  EInv'
<1>1. /\ taken' = [taken EXCEPT ![a] = d]
      /\ UNCHANGED <<checkout, info, index, view, run, query>>
      /\ UNCHANGED checkout /\ head' = head
    BY DEF Moves, checkout
<1>2. IInv /\ AnswerInv /\ Types
    BY DEF EInv, IInv
<1>3. \A b \in Actors : taken'[b] = IF b = a THEN d ELSE taken[b]
    BY <1>1, <1>2 DEF Types
<1>4. PICK s, i, j, q, m, n :
        /\ s = run.start /\ i = info.identity /\ j = run.former.identity
        /\ q = query.asked /\ m = run.made /\ n = index
    OBVIOUS
<1>5. /\ s = run'.start /\ i = info'.identity /\ j = run'.former.identity
      /\ q = query'.asked /\ m = run'.made /\ n = index'
      /\ run' = run /\ query' = query /\ info' = info /\ index' = index /\ view' = view
    BY <1>1, <1>4
<1>6. Tracked'
    BY <1>1 DEF EInv, Tracked, Old, Base, checkout
<1>7. ASSUME NEW b \in Actors PROVE SteadyInv(taken[b])'
  <2>1. PICK e : e = taken'[b]
    OBVIOUS
  <2>2. SteadyInv(e)
    BY <1>3, <2>1 DEF EInv
  <2>3. SteadyInv(e)'
    BY <1>1, <2>2, Untouched
  <2> QED BY <2>1, <2>3
<1>8. FirstInv'
  <2> SUFFICES ASSUME run.at \in {"scan", "publish", "second"}, s # None, s.rev = head,
                      NEW f \in Files
               PROVE  Steady(s, f)' \/ Past(CodeOf(s, f), f)'
    BY <1>1, <1>5 DEF FirstInv
  <2>1. Steady(s, f) \/ Past(CodeOf(s, f), f)
    BY <1>4 DEF EInv, FirstInv
  <2>2. PICK code : code = CodeOf(s, f)
    OBVIOUS
  <2>3. Steady(s, f)' \/ Past(code, f)'
    BY <1>1, <2>1, <2>2, Untouched
  <2>4. Past(code, f)' => Past(CodeOf(s, f), f)'
    BY <2>2 DEF CodeOf
  <2> QED BY <2>3, <2>4
<1>9. SecondInv'
  <2>1. PICK e, g : e = taken["run"] /\ g = taken'["run"]
    OBVIOUS
  <2> SUFFICES ASSUME run.at = "second", s # None, s.rev = head, Unmoved(g), NEW f \in Files
               PROVE  /\ Before(g, f, m[f])'
                      /\ g.at \in Coded => Steady(s, f)' \/ g.codes[f] # CodeOf(s, f)
    BY <1>1, <1>5, <2>1 DEF SecondInv, Unmoved, CodeOf
  <2>2. PICK x \in Text : x = m[f]
    BY <1>2, <1>4, Typed DEF Tree
  <2>3. Unmoved(e) => /\ Before(e, f, x)
                      /\ e.at \in Coded => Steady(s, f) \/ e.codes[f] # CodeOf(s, f)
    BY <1>4, <2>1, <2>2 DEF EInv, SecondInv
  <2>4. Before(g, f, x) /\ (g.at \in Coded => Steady(s, f) \/ g.codes[f] # CodeOf(s, f))
    <3>1. CASE a # "run"
      <4>1. g = e
        BY <1>2, <1>3, <2>1, <3>1, Typed
      <4> QED BY <2>3, <4>1
    <3>2. CASE a = "run"
      <4>1. g = d /\ e = c
        BY <1>3, <2>1, <3>2
      <4>2. Before(g, f, x)
        BY <2>3, <4>1
      <4>3. CASE c.at \in Coded /\ d.codes = c.codes
        BY <2>3, <4>1, <4>2, <4>3
      <4>4. ASSUME d.codes[f] = Code(f) PROVE Steady(s, f) \/ d.codes[f] # CodeOf(s, f)
        <5>1. Steady(s, f) \/ Past(CodeOf(s, f), f)
          BY <1>4 DEF EInv, FirstInv
        <5>2. PICK code : code = CodeOf(s, f)
          OBVIOUS
        <5> QED BY <4>4, <5>1, <5>2, PastCode
      <4> QED BY <4>1, <4>2, <4>3, <4>4
    <3> QED BY <3>1, <3>2
  <2>5. Before(g, f, x)' /\ (Steady(s, f) => Steady(s, f)')
    BY <1>1, <2>4, Untouched
  <2> QED BY <2>2, <2>4, <2>5
<1>10. \A f \in Files : Later(f, work[f], work'[f])
    BY <1>1 DEF Later, checkout
<1>11. commits' = commits /\ Types'
    BY <1>1 DEF checkout, IInv
<1>12. ExactInv(info.identity)'
  <2>1. i \in Identities \cup {None} /\ (i # None => i.rev <= head) /\ ExactInv(i)
    BY <1>2, <1>4, Typed DEF EInv
  <2>2. ExactInv(i)'
    BY <1>1, <1>2, <1>10, <1>11, <2>1, ExactOnward
  <2> QED BY <1>5, <2>2
<1>13. ASSUME run'.at \in {"first", "scan"} PROVE ExactInv(run.former.identity)'
  <2>1. j \in Identities \cup {None} /\ (j # None => j.rev <= head) /\ ExactInv(j)
    BY <1>2, <1>4, <1>5, <1>13, Typed DEF EInv
  <2>2. ExactInv(j)'
    BY <1>1, <1>2, <1>10, <1>11, <2>1, ExactOnward
  <2> QED BY <1>5, <2>2
<1>14. ViewInv'
    BY <1>5 DEF EInv, ViewInv
<1>15. AskedInv'
  <2> SUFFICES ASSUME query.at \in {"compare", "search", "chunks", "again"}, q.rev = head,
                      NEW f \in Files
               PROVE  /\ Steady(q, f)' /\ Later(f, Said(q, f), work[f])'
                      /\ n # None => Between(q, f, n[f])'
                      /\ run.at \in {"scan", "publish", "second"} /\ f \notin run.left =>
                           Between(q, f, m[f])'
    BY <1>1, <1>5 DEF AskedInv
  <2>1. /\ Steady(q, f) /\ Later(f, Said(q, f), work[f])
        /\ n # None => Between(q, f, n[f])
        /\ run.at \in {"scan", "publish", "second"} /\ f \notin run.left =>
             Between(q, f, m[f])
    BY <1>4 DEF EInv, AskedInv
  <2> QED BY <1>1, <2>1, Untouched
<1>16. ChunksInv'
  <2>1. PICK e, g : e = taken["run"] /\ g = taken'["run"]
    OBVIOUS
  <2> SUFFICES ASSUME query.at = "again", q.rev = head, NEW k \in query.chunks
               PROVE  /\ Between(q, k[1], k[2])'
                      /\ i = q => k[2] = (Said(q, k[1]))'
                      /\ run.at \in {"first", "scan"} /\ j = q => k[2] = (Said(q, k[1]))'
                      /\ run.at = "second" /\ s = q /\ Unmoved(g) => Before(g, k[1], k[2])'
    BY <1>1, <1>5, <2>1 DEF ChunksInv, Unmoved
  <2>2. PICK f \in Files, x \in Text : f = k[1] /\ x = k[2]
    BY <1>2, Typed
  <2>3. /\ Between(q, f, x)
        /\ i = q => x = Said(q, f)
        /\ run.at \in {"first", "scan"} /\ j = q => x = Said(q, f)
        /\ run.at = "second" /\ s = q /\ Unmoved(e) => Before(e, f, x)
    BY <1>4, <2>1, <2>2 DEF EInv, ChunksInv
  <2>4. run.at = "second" /\ s = q /\ Unmoved(g) => Before(g, f, x)
    <3>1. CASE a # "run"
      <4>1. g = e
        BY <1>2, <1>3, <2>1, <3>1, Typed
      <4> QED BY <2>3, <4>1
    <3>2. CASE a = "run"
      <4>1. g = d /\ e = c
        BY <1>3, <2>1, <3>2
      <4> QED BY <2>3, <4>1
    <3> QED BY <3>1, <3>2
  <2>5. /\ Between(q, f, x)' /\ (Said(q, f))' = Said(q, f)
        /\ Before(g, f, x) => Before(g, f, x)'
    BY <1>1, <2>3, Untouched
  <2> QED BY <2>2, <2>3, <2>4, <2>5
<1>17. AnswerInv'
  <2>1. \A e : (Denotes(e))' = Denotes(e)
    BY <1>1 DEF Denotes, Base, checkout
  <2>2. \A e : True(e)' <=> True(e)
    BY <1>1, <2>1 DEF True
  <2>3. True(query.answer)' <=> True(query.answer)
    <3>1. PICK b : b = query.answer
      OBVIOUS
    <3>2. b = query'.answer
      BY <1>5, <3>1
    <3> QED BY <2>2, <3>1, <3>2
  <2>4. True(query.asked)' <=> True(query.asked)
    BY <1>4, <1>5, <2>2
  <2>5. \/ taken'["query"] = taken["query"]
        \/ taken'["query"] = d /\ taken["query"] = c
    BY <1>2, <1>3, Typed
  <2>7. /\ taken'["query"].at \in Coded \cup {"status"}
        => \/ taken'["query"].rev = head
           \/ /\ taken["query"].at \in Coded \cup {"status"}
              /\ taken'["query"].rev = taken["query"].rev
    BY <2>5
  <2> QED BY <1>1, <1>2, <1>5, <2>3, <2>4, <2>7 DEF AnswerInv
<1> QED BY <1>6, <1>7, <1>8, <1>9, <1>12, <1>13, <1>14, <1>15, <1>16, <1>17 DEF EInv

(* A step of a capture.                                                    *)
LEMMA CapturesKeep ==
    ASSUME EInv, NEW a \in Actors, Captures(a)
    PROVE  EInv'
<1> DEFINE codes == [f \in Files |-> Code(f)]
<1>1. IInv /\ IInv' /\ AnswerInv /\ Types /\ Tracked
    BY CapturesStep DEF EInv, IInv
<1>2. PICK c : c = taken[a]
    OBVIOUS
<1>3. /\ c \in CaptureType /\ Filled(c) /\ SteadyInv(c) /\ CaptureInv(c)
      /\ codes \in [Files -> Codes] /\ head \in 0 .. MaxCommits /\ origin \in Origins
      /\ work \in Tree /\ stage \in Tree /\ Void \in Text
    BY <1>1, <1>2, CheckoutTypes, Values DEF EInv, IInv, Types, CheckoutType
<1>4. \A f \in Files :
        /\ codes[f] = Clean => work[f] = Base(head)[f]
        /\ Gone(codes[f]) => Old(f) /\ work[f] = Void
        /\ codes[f].edited = "untracked" => ~Old(f) /\ work[f] # Void
        /\ Shown(codes[f]) => stage[f] # Void
    BY <1>1, StatusSays
<1>5. \A f \in Files : codes[f] = Code(f)
    OBVIOUS
<1> HIDE DEF codes
<1>6. CASE ReadHead(a)
  <2> DEFINE d == [c EXCEPT !.at = "status", !.repo = origin, !.rev = head]
  <2>1. d \in CaptureType /\ d.at = "status" /\ d.rev = head
    BY <1>3 DEF CaptureType
  <2>2. Moves(a, "head", d) /\ c.at = "head"
    BY <1>2, <1>6 DEF ReadHead, Moves
  <2> HIDE DEF d
  <2>3. SteadyInv(d) /\ Unmoved(c)
    BY <2>1, <2>2 DEF SteadyInv, Coded, Unmoved
  <2>4. \A f \in Files : \A x \in Text : Before(c, f, x) => Before(d, f, x)
    BY <2>1, <2>2 DEF Before, Coded
  <2>5. d.at \notin Coded
    BY <2>1 DEF Coded
  <2> QED BY <1>1, <1>2, <2>1, <2>2, <2>3, <2>4, <2>5, MovesKeep
<1>7. CASE ReadStatus(a)
  <2> DEFINE clean == \A f \in Files : codes[f] = Clean
             d == [c EXCEPT !.codes = codes, !.at = IF clean THEN "done" ELSE "diff"]
  <2>1. c.at = "status" /\ Moves(a, "status", d)
    BY <1>2, <1>7 DEF ReadStatus, Moves, codes
  <2>2. /\ d.codes = codes /\ d.rev = c.rev
        /\ d.at = IF clean THEN "done" ELSE "diff"
    BY <1>3 DEF CaptureType
  <2> HIDE DEF d
  <2>3. SteadyInv(d)
    BY <1>4, <2>2 DEF SteadyInv
  <2>4. Unmoved(d) => Unmoved(c)
    BY <2>1, <2>2 DEF Unmoved, Coded
  <2>5. ASSUME NEW f \in Files, NEW x \in Text, Before(c, f, x) PROVE Before(d, f, x)
    <3>1. Later(f, x, work[f])
      BY <2>1, <2>5 DEF Before, Coded
    <3>2. CASE clean
      <4>1. d.codes[f] = Clean
        BY <2>2, <3>2
      <4> QED BY <1>4, <2>2, <3>1, <3>2, <4>1 DEF Before, Coded, Clean, Gone, Shown
    <3>3. CASE ~clean
      BY <1>4, <2>2, <3>1, <3>3 DEF Before, Coded
    <3> QED BY <3>2, <3>3
  <2>6. c.at \in Coded \cup {"status"}
    BY <2>1
  <2> QED BY <1>1, <1>2, <1>5, <2>1, <2>2, <2>3, <2>4, <2>5, <2>6, MovesKeep
<1>8. CASE DiffWork(a)
  <2> DEFINE w == [f \in Files |-> IF stage[f] # Void THEN work[f] ELSE Void]
             d == [c EXCEPT !.at = "cached", !.work = w]
  <2>1. c.at = "diff" /\ Moves(a, "diff", d)
    BY <1>2, <1>8 DEF DiffWork, Moves
  <2>2. \A f \in Files : w[f] = IF stage[f] # Void THEN work[f] ELSE Void
    OBVIOUS
  <2> HIDE DEF w
  <2>3. d.at = "cached" /\ d.work = w /\ d.codes = c.codes /\ d.rev = c.rev
    BY <1>3 DEF CaptureType
  <2> HIDE DEF d
  <2>4. ASSUME d.rev = head, NEW f \in Files
        PROVE  /\ Gone(c.codes[f]) => Old(f) /\ work[f] = Void
               /\ c.codes[f].edited = "untracked" => ~Old(f) /\ work[f] # Void
               /\ Fits(d, f)
    <3>1. /\ Gone(c.codes[f]) => Old(f) /\ work[f] = Void
          /\ c.codes[f].edited = "untracked" => ~Old(f) /\ work[f] # Void
          /\ Shown(c.codes[f]) => stage[f] # Void \/ Past(c.codes[f], f)
      BY <1>3, <2>1, <2>3, <2>4 DEF SteadyInv, Coded
    <3>2. c.codes[f] = Clean => Later(f, Base(head)[f], work[f])
      BY <1>3, <2>1, <2>3, <2>4 DEF CaptureInv
    <3>3. c.codes[f] = Clean => Past(c.codes[f], f) \/ w[f] = Base(head)[f]
      BY <1>1, <2>2, <3>2 DEF Past, Tracked
    <3>4. Shown(c.codes[f]) => Past(c.codes[f], f) \/ w[f] # Void
      BY <1>1, <2>2, <3>1 DEF Past, Tracked
    <3>5. Gone(c.codes[f]) => w[f] = Void
      BY <2>2, <3>1
    <3> QED BY <2>3, <3>1, <3>3, <3>4, <3>5 DEF Fits
  <2>5. SteadyInv(d)
    BY <2>3, <2>4 DEF SteadyInv
  <2>6. Unmoved(d) => Unmoved(c)
    BY <2>1, <2>3 DEF Unmoved, Coded
  <2>7. ASSUME NEW f \in Files, NEW x \in Text, Before(c, f, x) PROVE Before(d, f, x)
    BY <2>1, <2>2, <2>3, <2>7 DEF Before, Coded
  <2>8. c.at \in Coded
    BY <2>1 DEF Coded
  <2> QED BY <1>1, <1>2, <2>1, <2>3, <2>5, <2>6, <2>7, <2>8, MovesKeep
<1>9. CASE DiffStage(a)
  <2> DEFINE d == [c EXCEPT !.at = "others", !.stage = stage]
  <2>1. c.at = "cached" /\ Moves(a, "cached", d)
    BY <1>2, <1>9 DEF DiffStage, Moves
  <2>2. d.at = "others" /\ d.work = c.work /\ d.codes = c.codes /\ d.rev = c.rev
    BY <1>3 DEF CaptureType
  <2> HIDE DEF d
  <2>3. SteadyInv(d)
    BY <1>3, <2>1, <2>2 DEF SteadyInv, Coded, Fits
  <2>4. Unmoved(d) => Unmoved(c)
    BY <2>1, <2>2 DEF Unmoved, Coded
  <2>5. ASSUME NEW f \in Files, NEW x \in Text, Before(c, f, x) PROVE Before(d, f, x)
    BY <2>1, <2>2, <2>5 DEF Before, Coded
  <2>6. c.at \in Coded
    BY <2>1 DEF Coded
  <2> QED BY <1>1, <1>2, <2>1, <2>2, <2>3, <2>4, <2>5, <2>6, MovesKeep
<1>10. CASE ReadOthers(a)
  <2> DEFINE o == Others(c.codes)
             d == [c EXCEPT !.at = "done", !.others = o]
  <2>1. c.at = "others" /\ Moves(a, "others", d)
    BY <1>2, <1>10 DEF ReadOthers, Moves
  <2>2. \A f \in Files : o[f] = IF c.codes[f].edited = "untracked" THEN work[f] ELSE Void
    BY DEF Others
  <2> HIDE DEF o
  <2>3. /\ d.at = "done" /\ d.work = c.work /\ d.codes = c.codes /\ d.rev = c.rev
        /\ d.others = o
    BY <1>3 DEF CaptureType
  <2> HIDE DEF d
  <2>4. SteadyInv(d)
    BY <1>3, <2>1, <2>2, <2>3 DEF SteadyInv, Coded, Fits
  <2>5. Unmoved(d) => Unmoved(c)
    BY <2>1, <2>3 DEF Unmoved, Coded
  <2>6. ASSUME NEW f \in Files, NEW x \in Text, Before(c, f, x) PROVE Before(d, f, x)
    BY <2>1, <2>2, <2>3, <2>6 DEF Before, Coded
  <2>7. c.at \in Coded
    BY <2>1 DEF Coded
  <2> QED BY <1>1, <1>2, <2>1, <2>3, <2>4, <2>5, <2>6, <2>7, MovesKeep
<1>11. CASE CaptureFails(a)
  <2> DEFINE d == [NoCapture EXCEPT !.at = "failed"]
  <2>1. Moves(a, c.at, d)
    BY <1>2, <1>11 DEF CaptureFails
  <2>2. d.at = "failed"
    BY DEF NoCapture
  <2> HIDE DEF d
  <2>3. SteadyInv(d) /\ ~Unmoved(d) /\ d.at \notin Coded \cup {"status"}
    BY <2>2 DEF SteadyInv, Unmoved, Coded
  <2> QED BY <1>1, <1>2, <2>1, <2>3, MovesKeep
<1> QED BY <1>6, <1>7, <1>8, <1>9, <1>10, <1>11 DEF Captures

-----------------------------------------------------------------------------
(* The runs.                                                               *)

(* A capture that has not begun has read nothing.                          *)
LEMMA TakenKeep ==
    ASSUME EInv, UNCHANGED checkout, NEW a \in Actors,
           Begin(a) \/ Forget(a) \/ UNCHANGED taken
    PROVE  /\ Tracked' /\ \A b \in Actors : SteadyInv(taken[b])'
           /\ \A b \in Actors \ {a} : taken'[b] = taken[b]
           /\ Begin(a) => taken'[a].at = "head"
<1>1. Types
    BY DEF EInv, IInv
<1>2. Tracked'
    BY DEF EInv, Tracked, Old, Base, checkout
<1>3. /\ NoCapture.at = "out"
      /\ [NoCapture EXCEPT !.at = "head"].at = "head"
    BY DEF NoCapture
<1>4. ASSUME NEW b \in Actors PROVE SteadyInv(taken[b])'
  <2>1. PICK e : e = taken'[b]
    OBVIOUS
  <2>2. e.at \in {"out", "head"} \/ e = taken[b]
    BY <1>1, <1>3, <2>1 DEF Begin, Forget, Types
  <2>3. SteadyInv(e)
    BY <2>2 DEF EInv, SteadyInv, Coded
  <2>4. SteadyInv(e)'
    BY <2>3, Untouched
  <2> QED BY <2>1, <2>4
<1> QED BY <1>1, <1>2, <1>3, <1>4 DEF Begin, Forget, Types

LEMMA ExactStill ==
    ASSUME UNCHANGED checkout, index' \in {index, None}, NEW i, ExactInv(i)
    PROVE  ExactInv(i)'
<1> SUFFICES ASSUME i # None, i.rev = head, NEW f \in Files
             PROVE  /\ Steady(i, f)' /\ Later(f, Said(i, f), work[f])'
                    /\ index' # None => index'[f] = (Said(i, f))'
    BY DEF ExactInv, checkout
<1>1. /\ Steady(i, f) /\ Later(f, Said(i, f), work[f])
      /\ index # None => index[f] = Said(i, f)
    BY DEF ExactInv
<1> QED BY <1>1, Untouched

(* The identity from before a run, as before.                              *)
LEMMA FirstStill ==
    ASSUME EInv, UNCHANGED checkout,
           \/ run'.at \in {"idle", "first"}
           \/ run.at \in {"scan", "publish", "second"} /\ run'.start = run.start
    PROVE  FirstInv'
<1> SUFFICES ASSUME run'.at \in {"scan", "publish", "second"}, run'.start # None,
                    run'.start.rev = head'
             PROVE  \A f \in Files : Steady(run.start, f)' \/ Past(CodeOf(run.start, f), f)'
    BY DEF FirstInv
<1>1. PICK s : s = run.start
    OBVIOUS
<1>2. s = run'.start /\ s # None /\ s.rev = head /\ run.at \in {"scan", "publish", "second"}
    BY <1>1 DEF checkout
<1> SUFFICES ASSUME NEW f \in Files PROVE Steady(s, f)' \/ Past(CodeOf(s, f), f)'
    BY <1>2 DEF CodeOf
<1>3. PICK code : code = CodeOf(s, f)
    OBVIOUS
<1>4. Steady(s, f) \/ Past(code, f)
    BY <1>1, <1>2, <1>3 DEF EInv, FirstInv
<1>5. Steady(s, f)' \/ Past(code, f)'
    BY <1>4, Untouched
<1>6. Past(code, f)' => Past(CodeOf(s, f), f)'
    BY <1>3 DEF CodeOf
<1> QED BY <1>5, <1>6

(* What a search has asked for, while runs read and publish.               *)
LEMMA AskedStill ==
    ASSUME EInv, UNCHANGED checkout, query' = query,
           NEW m, m = run'.made,
           \/ index' \in {index, None}
           \/ run.at = "publish" /\ index' = run.made,
           run'.at \in {"scan", "publish", "second"} =>
             \A f \in Files \ run'.left :
               \/ m[f] = work[f]
               \/ run.at \in {"scan", "publish", "second"} /\ f \notin run.left
                    /\ m[f] = run.made[f]
    PROVE  AskedInv'
<1>1. PICK q, n : q = query.asked /\ n = index'
    OBVIOUS
<1>2. q = query'.asked /\ head' = head
    BY <1>1 DEF checkout
<1> SUFFICES ASSUME query.at \in {"compare", "search", "chunks", "again"}, q.rev = head,
                    NEW f \in Files
             PROVE  /\ Steady(q, f)' /\ Later(f, Said(q, f), work[f])'
                    /\ n # None => Between(q, f, n[f])'
                    /\ run'.at \in {"scan", "publish", "second"} /\ f \notin run'.left =>
                         Between(q, f, m[f])'
    BY <1>1, <1>2 DEF AskedInv
<1>3. /\ Steady(q, f) /\ Later(f, Said(q, f), work[f])
      /\ index # None => Between(q, f, index[f])
      /\ run.at \in {"scan", "publish", "second"} /\ f \notin run.left =>
           Between(q, f, run.made[f])
    BY <1>1 DEF EInv, AskedInv
<1>4. n # None => Between(q, f, n[f])
  <2>1. run.at = "publish" => f \notin run.left
    BY DEF EInv, IInv, Types, RunType
  <2> QED BY <1>1, <1>3, <2>1
<1>5. run'.at \in {"scan", "publish", "second"} /\ f \notin run'.left => Between(q, f, m[f])
  <2>1. Between(q, f, work[f])
    BY <1>3 DEF Between, Later
  <2> QED BY <1>3, <2>1
<1>6. /\ Steady(q, f)' /\ Later(f, Said(q, f), work[f])'
    BY <1>3, Untouched
<1>7. n # None => Between(q, f, n[f])'
    BY <1>4, Untouched
<1>8. run'.at \in {"scan", "publish", "second"} /\ f \notin run'.left => Between(q, f, m[f])'
    BY <1>5, Untouched
<1> QED BY <1>6, <1>7, <1>8

(* What a search has read, while runs start, publish and are given up.     *)
LEMMA ChunksStill ==
    ASSUME EInv, UNCHANGED checkout, query' = query,
           \/ info'.identity \in {None, info.identity}
           \/ run.at \in {"first", "scan"} /\ info'.identity = run.former.identity,
           run'.at \in {"first", "scan"} =>
             \/ run'.former.identity = info.identity
             \/ run.at \in {"first", "scan"} /\ run'.former.identity = run.former.identity,
           run'.at = "second" => taken'["run"].at = "head"
    PROVE  ChunksInv'
<1>1. PICK q, i, j, c : /\ q = query.asked /\ i = info'.identity
                        /\ j = run'.former.identity /\ c = taken'["run"]
    OBVIOUS
<1>2. q = query'.asked /\ head' = head
    BY <1>1 DEF checkout
<1>3. IInv /\ AnswerInv
    BY DEF EInv
<1> SUFFICES ASSUME query.at = "again", q.rev = head, NEW k \in query.chunks
             PROVE  /\ Between(q, k[1], k[2])'
                    /\ i = q => k[2] = (Said(q, k[1]))'
                    /\ run'.at \in {"first", "scan"} /\ j = q => k[2] = (Said(q, k[1]))'
                    /\ run'.at = "second" => Before(c, k[1], k[2])'
    BY <1>1, <1>2 DEF ChunksInv
<1>4. PICK f \in Files, x \in Text : f = k[1] /\ x = k[2]
    BY <1>3, Typed
<1>5. q # None
    BY <1>1, <1>3 DEF AnswerInv
<1>6. /\ Between(q, f, x)
      /\ info.identity = q => x = Said(q, f)
      /\ run.at \in {"first", "scan"} /\ run.former.identity = q => x = Said(q, f)
    BY <1>1, <1>4 DEF EInv, ChunksInv
<1>7. i = q => x = Said(q, f)
    BY <1>1, <1>5, <1>6
<1>8. run'.at \in {"first", "scan"} /\ j = q => x = Said(q, f)
    BY <1>1, <1>6
<1>9. run'.at = "second" => Before(c, f, x)
    BY <1>1, <1>6 DEF Before, Between, Coded
<1>10. /\ Between(q, f, x)' /\ (Said(q, f))' = Said(q, f)
       /\ Before(c, f, x) => Before(c, f, x)'
    BY <1>6, Untouched
<1> QED BY <1>4, <1>7, <1>8, <1>9, <1>10

(* What a search has been told.                                            *)
LEMMA AnswerStill ==
    ASSUME EInv, UNCHANGED checkout, query' = query, taken'["query"] = taken["query"]
    PROVE  AnswerInv'
<1>1. PICK q, b : q = query.asked /\ b = query.answer
    OBVIOUS
<1>2. q = query'.asked /\ b = query'.answer /\ head' = head
    BY <1>1 DEF checkout
<1>3. \A e : True(e)' <=> True(e)
  <2>1. \A e : (Denotes(e))' = Denotes(e)
    BY DEF Denotes, Base, checkout
  <2> QED BY <2>1 DEF True
<1>4. True(query.answer)' <=> True(query.answer)
    BY <1>1, <1>2, <1>3
<1>5. True(query.asked)' <=> True(query.asked)
    BY <1>1, <1>2, <1>3
<1> QED BY <1>2, <1>4, <1>5 DEF EInv, AnswerInv

LEMMA StartKeep ==
    ASSUME EInv, IInv', NEW kind \in Kinds, Start(kind)
    PROVE  EInv'
<1>1. /\ run' = [NoRun EXCEPT !.at = "first", !.kind = kind, !.former = info]
      /\ Begin("run") /\ "run" \in Actors /\ "query" \in Actors \ {"run"}
      /\ UNCHANGED <<checkout, info, index, view, query>>
    BY DEF Start, Actors
<1>2. run'.at = "first" /\ run'.former = info
    BY <1>1 DEF NoRun
<1>3. /\ Tracked' /\ \A b \in Actors : SteadyInv(taken[b])'
      /\ taken'["query"] = taken["query"]
    BY <1>1, TakenKeep
<1>4. FirstInv' /\ SecondInv'
    BY <1>1, <1>2, FirstStill DEF SecondInv
<1>5. PICK i : i = info.identity
    OBVIOUS
<1>6. ExactInv(i)' /\ i = info'.identity /\ i = run'.former.identity
    BY <1>1, <1>2, <1>5, ExactStill DEF EInv
<1>7. ExactInv(info.identity)' /\ ExactInv(run.former.identity)'
    BY <1>6
<1>8. ViewInv'
    BY <1>1 DEF EInv, ViewInv
<1>9. PICK m : m = run'.made
    OBVIOUS
<1>10. AskedInv'
    BY <1>1, <1>2, <1>9, AskedStill
<1>11. ChunksInv' /\ AnswerInv'
    BY <1>1, <1>2, <1>3, ChunksStill, AnswerStill
<1> QED BY <1>3, <1>4, <1>7, <1>8, <1>10, <1>11 DEF EInv

(* What a capture gives is steady, or the file has left it.                *)
LEMMA FromSteady ==
    ASSUME IInv, NEW a \in Actors, taken[a].at = "done", taken[a].rev = head,
           SteadyInv(taken[a]), NEW f \in Files
    PROVE  /\ CodeOf(Identity(a), f) = taken[a].codes[f]
           /\ Steady(Identity(a), f) \/ Past(CodeOf(Identity(a), f), f)
<1> DEFINE clean == \A g \in Files : taken[a].codes[g] = Clean
<1>1. PICK c : c = taken[a]
    OBVIOUS
<1>2. PICK d : d = IF clean THEN None
                   ELSE [codes |-> c.codes, work |-> c.work,
                         stage |-> c.stage, others |-> c.others]
    OBVIOUS
<1>3. PICK i : i = Identity(a)
    OBVIOUS
<1>4. Filled(c) /\ c.at = "done" /\ c.rev = head /\ SteadyInv(c)
    BY <1>1 DEF IInv, Types
<1>5. i = [repo |-> c.repo, rev |-> c.rev, dirty |-> d]
    BY <1>1, <1>2, <1>3, <1>4 DEF Identity
<1>6. i.rev = head /\ i.dirty = d
    BY <1>4, <1>5
<1>7. CASE clean
  <2>1. CodeOf(i, f) = Clean /\ c.codes[f] = Clean
    BY <1>1, <1>2, <1>6, <1>7 DEF CodeOf
  <2>2. Steady(i, f)
    BY <1>2, <1>6, <1>7, <2>1 DEF Steady, Certain, Shown, Denotes, Said
  <2> QED BY <1>1, <1>3, <2>1, <2>2
<1>8. CASE ~clean
  <2>1. \E g \in Files : c.codes[g] # Clean
    BY <1>1, <1>8
  <2>2. d \in Dirt
    BY <1>2, <1>4, <1>8, <2>1 DEF Filled, Dirt
  <2>3. /\ i.dirty # None /\ i.dirty.codes = c.codes /\ i.dirty.work = c.work
        /\ i.dirty.others = c.others
    BY <1>2, <1>6, <1>8, <2>2, Constants
  <2>4. CodeOf(i, f) = c.codes[f]
    BY <2>3 DEF CodeOf
  <2>5. /\ Past(c.codes[f], f) \/ /\ c.codes[f] = Clean => c.work[f] = Base(head)[f]
                                  /\ Gone(c.codes[f]) => c.work[f] = Void
                                  /\ Shown(c.codes[f]) => c.work[f] # Void
        /\ c.others[f] # Void <=> c.codes[f].edited = "untracked"
    BY <1>4, <2>1 DEF SteadyInv, Fits, Coded
  <2>6. Steady(i, f) \/ Past(c.codes[f], f)
    <3>1. Denotes(i)[f] = IF c.others[f] # Void THEN c.others[f] ELSE c.work[f]
      BY <2>3 DEF Denotes
    <3>2. Said(i, f) = IF c.codes[f] = Clean THEN Base(head)[f]
                       ELSE IF Gone(c.codes[f]) THEN Void
                       ELSE IF c.codes[f].edited = "untracked" THEN c.others[f]
                       ELSE c.work[f]
      BY <1>6, <2>3, <2>4 DEF Said
    <3>3. CASE c.codes[f] = Clean
      BY <2>4, <2>5, <3>1, <3>2, <3>3 DEF Steady, Certain, Shown, Clean
    <3>4. CASE c.codes[f] # Clean /\ Gone(c.codes[f])
      BY <2>4, <2>5, <3>1, <3>2, <3>4 DEF Steady, Certain, Shown, Gone
    <3>5. CASE c.codes[f] # Clean /\ ~Gone(c.codes[f]) /\ c.codes[f].edited = "untracked"
      BY <2>4, <2>5, <3>1, <3>2, <3>5 DEF Steady, Certain, Shown
    <3>6. CASE c.codes[f] # Clean /\ ~Gone(c.codes[f]) /\ c.codes[f].edited # "untracked"
      BY <2>4, <2>5, <3>1, <3>2, <3>6 DEF Steady, Certain, Shown
    <3> QED BY <3>3, <3>4, <3>5, <3>6
  <2> QED BY <1>1, <1>3, <2>4, <2>6
<1> QED BY <1>7, <1>8

LEMMA PendKeep ==
    ASSUME EInv, IInv', Pend
    PROVE  EInv'
<1>1. /\ run.at = "first" /\ Captured("run") /\ Forget("run")
      /\ "run" \in Actors /\ "query" \in Actors \ {"run"}
      /\ run' = [run EXCEPT !.at = "scan", !.start = Identity("run"),
                            !.made = Empty, !.left = Files]
      /\ UNCHANGED <<checkout, index, view, query>>
    BY DEF Pend, Actors
<1>2. info'.identity = None
    BY DEF Pend
<1>3. IInv /\ AnswerInv /\ Types
    BY DEF EInv, IInv
<1>4. /\ Tracked' /\ \A b \in Actors : SteadyInv(taken[b])'
      /\ taken'["query"] = taken["query"]
    BY <1>1, TakenKeep
<1>5. PICK s, j : s = Identity("run") /\ j = run.former.identity
    OBVIOUS
<1>6. /\ run'.at = "scan" /\ run'.start = s /\ run'.left = Files
      /\ run'.former = run.former
    BY <1>1, <1>3, <1>5 DEF Types, RunType
<1>7. FirstInv'
  <2> SUFFICES ASSUME s # None, s.rev = head, NEW f \in Files
               PROVE  Steady(s, f)' \/ Past(CodeOf(s, f), f)'
    BY <1>1, <1>6 DEF FirstInv, checkout
  <2>1. /\ taken["run"] \in CaptureType /\ Filled(taken["run"])
        /\ SteadyInv(taken["run"])
    BY <1>1, <1>3, Typed DEF EInv
  <2>2. taken["run"].at = "done" /\ taken["run"].rev = head
    BY <1>1, <1>5, <2>1, IdentityType DEF Captured
  <2>3. PICK code : code = CodeOf(s, f)
    OBVIOUS
  <2>4. Steady(s, f) \/ Past(code, f)
    BY <1>1, <1>3, <1>5, <2>1, <2>2, <2>3, FromSteady
  <2>5. Steady(s, f)' \/ Past(code, f)'
    BY <1>1, <2>4, Untouched
  <2>6. Past(code, f)' => Past(CodeOf(s, f), f)'
    BY <2>3 DEF CodeOf
  <2> QED BY <2>5, <2>6
<1>8. SecondInv' /\ ExactInv(info.identity)' /\ ViewInv'
    BY <1>1, <1>2, <1>6 DEF SecondInv, ExactInv, EInv, ViewInv
<1>9. ExactInv(run.former.identity)'
  <2>1. ExactInv(j)' /\ j = run'.former.identity
    BY <1>1, <1>5, <1>6, ExactStill DEF EInv
  <2> QED BY <2>1
<1>10. PICK m : m = run'.made
    OBVIOUS
<1>11. AskedInv'
    BY <1>1, <1>6, <1>10, AskedStill
<1>12. ChunksInv' /\ AnswerInv'
    BY <1>1, <1>2, <1>4, <1>6, ChunksStill, AnswerStill
<1> QED BY <1>4, <1>7, <1>8, <1>9, <1>11, <1>12 DEF EInv

LEMMA SkipKeep ==
    ASSUME EInv, IInv', Skip
    PROVE  EInv'
<1>1. /\ run.at = "scan" /\ run' = NoRun /\ info' = run.former
      /\ UNCHANGED <<checkout, index, view, taken, query>> /\ "run" \in Actors
    BY DEF Skip, Actors
<1>2. run'.at = "idle"
    BY <1>1 DEF NoRun
<1>3. Tracked' /\ \A b \in Actors : SteadyInv(taken[b])'
    BY <1>1, TakenKeep
<1>4. FirstInv' /\ SecondInv' /\ ViewInv'
    BY <1>1, <1>2, FirstStill DEF SecondInv, EInv, ViewInv
<1>5. ExactInv(info.identity)'
  <2>1. PICK j : j = run.former.identity
    OBVIOUS
  <2>2. ExactInv(j)' /\ j = info'.identity
    BY <1>1, <2>1, ExactStill DEF EInv
  <2> QED BY <2>2
<1>6. PICK m : m = run'.made
    OBVIOUS
<1>7. AskedInv'
    BY <1>1, <1>2, <1>6, AskedStill
<1>8. ChunksInv' /\ AnswerInv'
    BY <1>1, <1>2, ChunksStill, AnswerStill
<1> QED BY <1>2, <1>3, <1>4, <1>5, <1>7, <1>8 DEF EInv

LEMMA ScanKeep ==
    ASSUME EInv, IInv', NEW f \in Files, Scan(f)
    PROVE  EInv'
<1>1. IInv /\ Types
    BY DEF EInv, IInv
<1> DEFINE at == IF run.left = {f} THEN "publish" ELSE "scan"
           made == [run.made EXCEPT ![f] = work[f]]
<1>2. /\ run.at = "scan" /\ f \in run.left /\ "run" \in Actors
      /\ run' = [run EXCEPT !.made[f] = work[f], !.left = run.left \ {f}, !.at = at]
      /\ UNCHANGED <<checkout, info, index, view, taken, query>>
    BY <1>1, ChunkedIsWork DEF Scan, IInv, Actors
<1>3. run' = [run EXCEPT !.made = made, !.left = run.left \ {f}, !.at = at]
    BY <1>1, <1>2 DEF Types, RunType
<1>4. at \in {"publish", "scan"} /\ run.made \in Tree
      /\ \A g \in Files : made[g] = IF g = f THEN work[f] ELSE run.made[g]
    BY <1>1, <1>2 DEF Types, RunType, Tree
<1> HIDE DEF made, at
<1>5. /\ run'.at = at /\ run'.made = made /\ run'.left = run.left \ {f}
      /\ run'.start = run.start /\ run'.former = run.former
    BY <1>1, <1>2, <1>3 DEF Types, RunType
<1>6. Tracked' /\ \A b \in Actors : SteadyInv(taken[b])'
    BY <1>2, TakenKeep
<1>7. FirstInv' /\ SecondInv' /\ ViewInv'
    BY <1>2, <1>4, <1>5, FirstStill DEF SecondInv, EInv, ViewInv
<1>8. PICK i, j : i = info.identity /\ j = run.former.identity
    OBVIOUS
<1>9. ExactInv(i)' /\ ExactInv(j)'
    BY <1>2, <1>8, ExactStill DEF EInv
<1>10. ExactInv(info.identity)' /\ ExactInv(run.former.identity)'
  <2>1. i = info'.identity /\ j = run'.former.identity
    BY <1>2, <1>5, <1>8
  <2> QED BY <1>9, <2>1
<1>11. PICK m : m = run'.made
    OBVIOUS
<1>12. \A g \in Files \ run'.left : m[g] = work[g] \/ (g \notin run.left /\ m[g] = run.made[g])
    BY <1>4, <1>5, <1>11
<1>13. AskedInv'
    BY <1>2, <1>11, <1>12, AskedStill
<1>14. ChunksInv' /\ AnswerInv'
    BY <1>2, <1>4, <1>5, ChunksStill, AnswerStill
<1> QED BY <1>6, <1>7, <1>10, <1>13, <1>14 DEF EInv

LEMMA PublishKeep ==
    ASSUME EInv, IInv', ~Foreign, Publish
    PROVE  EInv'
<1>1. /\ run.at = "publish" /\ index' = run.made /\ view' = run.made
      /\ run' = [run EXCEPT !.at = "second"]
      /\ Begin("run") /\ "run" \in Actors /\ "query" \in Actors \ {"run"}
      /\ UNCHANGED <<checkout, info, query>>
    BY DEF Publish, Actors
<1>2. IInv /\ AnswerInv /\ Types
    BY DEF EInv, IInv
<1>3. /\ run'.at = "second" /\ run'.made = run.made /\ run'.left = run.left
      /\ run'.start = run.start
    BY <1>1, <1>2 DEF Types, RunType
<1>4. /\ Tracked' /\ \A b \in Actors : SteadyInv(taken[b])'
      /\ taken'["query"] = taken["query"] /\ taken'["run"].at = "head"
    BY <1>1, TakenKeep
<1>5. FirstInv' /\ ViewInv'
    BY <1>1, <1>3, FirstStill DEF ViewInv
<1>6. SecondInv'
  <2>1. PICK s, c, m : s = run.start /\ c = taken'["run"] /\ m = run.made
    OBVIOUS
  <2> SUFFICES ASSUME s # None, s.rev = head, NEW f \in Files
               PROVE  Before(c, f, m[f])'
    BY <1>1, <1>3, <1>4, <2>1 DEF SecondInv, Coded, checkout
  <2>2. Later(f, m[f], work[f])
    <3>1. f \notin run.left
      BY <1>1, <1>2 DEF Types, RunType
    <3> QED BY <1>1, <1>2, <2>1, <3>1 DEF IInv, StartInv
  <2>3. Before(c, f, m[f])
    BY <1>4, <2>1, <2>2 DEF Before, Coded
  <2> QED BY <1>1, <2>3, Untouched
<1>7. info'.identity = None
    BY <1>1, <1>2 DEF IInv, UnreadyInv
<1>8. ExactInv(info.identity)'
    BY <1>7 DEF ExactInv
<1>9. PICK m : m = run'.made
    OBVIOUS
<1>10. AskedInv'
    BY <1>1, <1>3, <1>9, AskedStill
<1>11. ChunksInv' /\ AnswerInv'
    BY <1>1, <1>3, <1>4, ChunksStill, AnswerStill
<1> QED BY <1>3, <1>4, <1>5, <1>6, <1>8, <1>10, <1>11 DEF EInv

LEMMA FailKeep ==
    ASSUME EInv, IInv', Fail
    PROVE  EInv'
<1>1. /\ run' = NoRun /\ info'.identity = None /\ "run" \in Actors
      /\ UNCHANGED <<checkout, index, view, taken, query>>
    BY DEF Fail, Actors
<1>2. run'.at = "idle"
    BY <1>1 DEF NoRun
<1>3. Tracked' /\ \A b \in Actors : SteadyInv(taken[b])'
    BY <1>1, TakenKeep
<1>4. FirstInv' /\ SecondInv' /\ ViewInv' /\ ExactInv(info.identity)'
    BY <1>1, <1>2, FirstStill DEF SecondInv, EInv, ViewInv, ExactInv
<1>5. PICK m : m = run'.made
    OBVIOUS
<1>6. AskedInv'
    BY <1>1, <1>2, <1>5, AskedStill
<1>7. ChunksInv' /\ AnswerInv'
    BY <1>1, <1>2, ChunksStill, AnswerStill
<1> QED BY <1>2, <1>3, <1>4, <1>6, <1>7 DEF EInv

LEMMA ClearKeep ==
    ASSUME EInv, IInv', Clear
    PROVE  EInv'
<1>1. /\ run.at = "idle" /\ index' = None /\ view' = None /\ "run" \in Actors
      /\ UNCHANGED <<checkout, info, taken, run, query>>
    BY DEF Clear, Actors
<1>2. Tracked' /\ \A b \in Actors : SteadyInv(taken[b])'
    BY <1>1, TakenKeep
<1>3. FirstInv' /\ SecondInv' /\ ViewInv'
    BY <1>1, FirstStill DEF SecondInv, ViewInv
<1>4. ExactInv(info.identity)'
  <2>1. PICK i : i = info.identity
    OBVIOUS
  <2>2. ExactInv(i)' /\ i = info'.identity
    BY <1>1, <2>1, ExactStill DEF EInv
  <2> QED BY <2>2
<1>5. PICK m : m = run'.made
    OBVIOUS
<1>6. AskedInv'
    BY <1>1, <1>5, AskedStill
<1>7. ChunksInv' /\ AnswerInv'
    BY <1>1, ChunksStill, AnswerStill
<1> QED BY <1>1, <1>2, <1>3, <1>4, <1>6, <1>7 DEF EInv

(* A capture at its end says what came after what was there before it.     *)
LEMMA BeforeEnd ==
    ASSUME IInv, NEW a \in Actors, taken[a].at = "done", taken[a].rev = head,
           NEW f \in Files, NEW x, Before(taken[a], f, x), Certain(Identity(a), f)
    PROVE  Later(f, x, Said(Identity(a), f))
<1> DEFINE clean == \A g \in Files : taken[a].codes[g] = Clean
<1>1. PICK c : c = taken[a]
    OBVIOUS
<1>2. PICK d : d = IF clean THEN None
                   ELSE [codes |-> c.codes, work |-> c.work,
                         stage |-> c.stage, others |-> c.others]
    OBVIOUS
<1>3. PICK i : i = Identity(a)
    OBVIOUS
<1>4. Filled(c) /\ c.at = "done" /\ c.rev = head /\ Certain(i, f)
    BY <1>1, <1>3 DEF IInv, Types
<1>5. i = [repo |-> c.repo, rev |-> c.rev, dirty |-> d]
    BY <1>1, <1>2, <1>3, <1>4 DEF Identity
<1>6. i.rev = head /\ i.dirty = d
    BY <1>4, <1>5
<1>7. /\ c.codes[f] = Clean => Later(f, x, Base(head)[f])
      /\ Gone(c.codes[f]) => Later(f, x, Void)
      /\ c.codes[f].edited = "untracked" => Later(f, x, c.others[f])
      /\ Shown(c.codes[f]) => (c.work[f] # Void => Later(f, x, c.work[f]))
    BY <1>1, <1>4 DEF Before, Coded
<1>8. CASE clean
  <2>1. CodeOf(i, f) = Clean /\ c.codes[f] = Clean
    BY <1>1, <1>2, <1>6, <1>8 DEF CodeOf
  <2> QED BY <1>3, <1>6, <1>7, <2>1 DEF Said
<1>9. CASE ~clean
  <2>1. d \in Dirt
    BY <1>1, <1>2, <1>4, <1>9 DEF Filled, Dirt
  <2>2. /\ i.dirty # None /\ i.dirty.codes = c.codes /\ i.dirty.work = c.work
        /\ i.dirty.others = c.others
    BY <1>2, <1>6, <1>9, <2>1, Constants
  <2>3. CodeOf(i, f) = c.codes[f]
    BY <2>2 DEF CodeOf
  <2>4. Said(i, f) = IF c.codes[f] = Clean THEN Base(head)[f]
                     ELSE IF Gone(c.codes[f]) THEN Void
                     ELSE IF c.codes[f].edited = "untracked" THEN c.others[f]
                     ELSE c.work[f]
    BY <1>6, <2>2, <2>3 DEF Said
  <2>5. Shown(c.codes[f]) => Said(i, f) # Void
    BY <1>4, <2>3 DEF Certain
  <2>6. c.codes[f] # Clean /\ ~Gone(c.codes[f]) /\ c.codes[f].edited # "untracked"
          => Shown(c.codes[f])
    BY DEF Shown
  <2>7. Later(f, x, Said(i, f))
    BY <1>7, <2>4, <2>5, <2>6
  <2> QED BY <1>3, <2>7
<1> QED BY <1>8, <1>9

LEMMA FinalizeKeep ==
    ASSUME EInv, IInv', Finalize
    PROVE  EInv'
<1>1. /\ run.at = "second" /\ Captured("run") /\ run' = NoRun /\ Forget("run")
      /\ "run" \in Actors /\ "query" \in Actors \ {"run"}
      /\ UNCHANGED <<checkout, index, view, query>>
    BY DEF Finalize, Actors
<1>2. IInv /\ AnswerInv /\ Types
    BY DEF EInv, IInv
<1>3. run'.at = "idle"
    BY <1>1 DEF NoRun
<1>4. /\ Tracked' /\ \A b \in Actors : SteadyInv(taken[b])'
      /\ taken'["query"] = taken["query"]
    BY <1>1, TakenKeep
<1>5. FirstInv' /\ SecondInv' /\ ViewInv'
    BY <1>1, <1>3, FirstStill DEF SecondInv, EInv, ViewInv
<1>6. PICK i, c : i = run.start /\ c = taken["run"]
    OBVIOUS
<1>7. \/ info'.identity = None
      \/ info'.identity = i /\ i # None /\ i = Identity("run")
    BY <1>6 DEF Finalize
<1>8. /\ c \in CaptureType /\ Filled(c) /\ SteadyInv(c)
      /\ i # None => i \in Identities /\ i.rev <= head
    BY <1>1, <1>2, <1>6, Typed DEF EInv
<1>9. ASSUME i # None, i = Identity("run") PROVE c.at = "done" /\ c.rev = i.rev
    BY <1>1, <1>6, <1>8, <1>9, IdentityType DEF Captured
<1>10. ASSUME i # None, i = Identity("run"), i.rev = head, NEW f \in Files
       PROVE  Steady(i, f)
  <2>1. c.at = "done" /\ c.rev = head
    BY <1>9, <1>10
  <2>2. Unmoved(c) /\ c.at \in Coded
    BY <2>1 DEF Unmoved, Coded
  <2>3. Steady(i, f) \/ c.codes[f] # CodeOf(i, f)
    BY <1>1, <1>6, <1>10, <2>2 DEF EInv, SecondInv
  <2>4. CodeOf(i, f) = c.codes[f]
    BY <1>1, <1>2, <1>6, <1>8, <1>10, <2>1, FromSteady
  <2> QED BY <2>3, <2>4
<1>11. ExactInv(info.identity)'
  <2> SUFFICES ASSUME i # None, i = Identity("run"), i.rev = head, NEW f \in Files,
                      info'.identity = i
               PROVE  /\ Steady(i, f)' /\ Later(f, Said(i, f), work[f])'
                      /\ index' # None => index'[f] = (Said(i, f))'
    BY <1>1, <1>7 DEF ExactInv, checkout
  <2>1. c.at = "done" /\ c.rev = head /\ Unmoved(c) /\ Steady(i, f)
    BY <1>9, <1>10 DEF Unmoved, Coded
  <2>2. Certain(i, f)
    BY <2>1 DEF Steady
  <2>3. PICK x \in Text : x = run.made[f]
    BY <1>1, <1>2, Typed DEF Tree
  <2>4. index = run.made /\ f \notin run.left
    BY <1>1, <1>2 DEF IInv, UnreadyInv, Types, RunType
  <2>5. Later(f, Said(i, f), x) /\ Later(f, Said(i, f), work[f])
    BY <1>1, <1>2, <1>6, <2>2, <2>3, <2>4 DEF IInv, StartInv, Since
  <2>6. Before(c, f, x)
    BY <1>1, <1>6, <2>1, <2>3 DEF EInv, SecondInv
  <2>7. Later(f, x, Said(i, f))
    BY <1>1, <1>2, <1>6, <2>1, <2>2, <2>6, BeforeEnd
  <2>8. Said(i, f) \in Text
    BY <1>2, <1>8, SaidText
  <2>9. index[f] = Said(i, f)
    BY <2>3, <2>4, <2>5, <2>7, <2>8, LaterOrder
  <2> QED BY <1>1, <2>1, <2>5, <2>9, Untouched
<1>12. PICK m : m = run'.made
    OBVIOUS
<1>13. AskedInv'
    BY <1>1, <1>3, <1>12, AskedStill
<1>14. AnswerInv'
    BY <1>1, <1>4, AnswerStill
<1>15. ChunksInv'
  <2>1. CASE info'.identity = None
    BY <1>1, <1>3, <2>1, ChunksStill
  <2>2. CASE info'.identity = i /\ i # None /\ i = Identity("run")
    <3>1. PICK q : q = query.asked
      OBVIOUS
    <3> SUFFICES ASSUME query.at = "again", q.rev = head, NEW k \in query.chunks
                 PROVE  /\ Between(q, k[1], k[2])'
                        /\ i = q => k[2] = (Said(q, k[1]))'
      BY <1>1, <1>3, <2>2, <3>1 DEF ChunksInv, checkout
    <3>2. PICK f \in Files, x \in Text : f = k[1] /\ x = k[2]
      BY <1>2, Typed
    <3>3. /\ Between(q, f, x)
          /\ i = q /\ Unmoved(c) => Before(c, f, x)
      BY <1>1, <1>6, <3>1, <3>2 DEF EInv, ChunksInv
    <3>4. ASSUME i = q PROVE x = Said(q, f)
      <4>1. c.at = "done" /\ c.rev = head /\ Unmoved(c) /\ Steady(i, f)
        BY <1>9, <1>10, <2>2, <3>4 DEF Unmoved, Coded
      <4>2. Later(f, x, Said(i, f))
        BY <1>1, <1>2, <1>6, <2>2, <3>3, <3>4, <4>1, BeforeEnd DEF Steady
      <4>3. Said(i, f) \in Text
        BY <1>2, <1>8, <2>2, SaidText
      <4> QED BY <3>3, <3>4, <4>2, <4>3, LaterOrder DEF Between
    <3>5. Between(q, f, x)' /\ (Said(q, f))' = Said(q, f)
      BY <1>1, <3>3, Untouched
    <3> QED BY <3>2, <3>4, <3>5
  <2> QED BY <1>7, <2>1, <2>2
<1> QED BY <1>3, <1>4, <1>5, <1>11, <1>13, <1>14, <1>15 DEF EInv

-----------------------------------------------------------------------------
(* The search.                                                             *)

(* A step of the search leaves the rest alone.                             *)
LEMMA RestKeep ==
    ASSUME EInv, IInv', UNCHANGED <<checkout, info, index, run>>,
           Begin("query") \/ Forget("query") \/ UNCHANGED taken,
           ViewInv', AskedInv', ChunksInv', AnswerInv'
    PROVE  EInv'
<1>1. "query" \in Actors /\ "run" \in Actors \ {"query"} /\ IInv /\ AnswerInv
    BY DEF Actors, EInv
<1>2. /\ Tracked' /\ \A b \in Actors : SteadyInv(taken[b])'
      /\ taken'["run"] = taken["run"]
    BY <1>1, TakenKeep
<1>3. FirstInv'
  <2>1. run.at \in {"idle", "first", "scan", "publish", "second"}
    BY <1>1 DEF IInv, Types, RunType
  <2> QED BY <2>1, FirstStill
<1>4. SecondInv'
  <2>1. PICK s, c, m : s = run.start /\ c = taken["run"] /\ m = run.made
    OBVIOUS
  <2>2. s = run'.start /\ c = taken'["run"] /\ m = run'.made
    BY <1>2, <2>1
  <2> SUFFICES ASSUME run.at = "second", s # None, s.rev = head, Unmoved(c)', NEW f \in Files
               PROVE  /\ Before(c, f, m[f])'
                      /\ c.at \in Coded => Steady(s, f)' \/ c.codes[f] # CodeOf(s, f)
    BY <2>2 DEF SecondInv, CodeOf, checkout
  <2>3. Unmoved(c)
    BY Untouched
  <2>4. /\ Before(c, f, m[f])
        /\ c.at \in Coded => Steady(s, f) \/ c.codes[f] # CodeOf(s, f)
    BY <2>1, <2>3 DEF EInv, SecondInv
  <2> QED BY <2>4, Untouched
<1>5. PICK i, j : i = info.identity /\ j = run.former.identity
    OBVIOUS
<1>6. /\ ExactInv(i)' /\ i = info'.identity /\ j = run'.former.identity
      /\ run.at \in {"first", "scan"} => ExactInv(j)'
    BY <1>5, ExactStill DEF EInv
<1>7. /\ ExactInv(info.identity)'
      /\ run'.at \in {"first", "scan"} => ExactInv(run.former.identity)'
    BY <1>6
<1> QED BY <1>2, <1>3, <1>4, <1>7 DEF EInv

(* It goes on with what it has asked for.                                  *)
LEMMA AskedRest ==
    ASSUME EInv, UNCHANGED <<checkout, index, run>>,
           \/ query.at \in {"compare", "search", "chunks", "again"} /\ query'.asked = query.asked
           \/ query'.at \notin {"compare", "search", "chunks", "again"}
    PROVE  AskedInv'
<1>1. PICK q, m, n : q = query.asked /\ m = run.made /\ n = index
    OBVIOUS
<1>2. m = run'.made /\ n = index' /\ head' = head
    BY <1>1 DEF checkout
<1> SUFFICES ASSUME query.at \in {"compare", "search", "chunks", "again"},
                    query'.asked = q, q.rev = head, NEW f \in Files
             PROVE  /\ Steady(q, f)' /\ Later(f, Said(q, f), work[f])'
                    /\ n # None => Between(q, f, n[f])'
                    /\ run.at \in {"scan", "publish", "second"} /\ f \notin run.left =>
                         Between(q, f, m[f])'
    BY <1>1, <1>2 DEF AskedInv
<1>3. /\ Steady(q, f) /\ Later(f, Said(q, f), work[f])
      /\ n # None => Between(q, f, n[f])
      /\ run.at \in {"scan", "publish", "second"} /\ f \notin run.left =>
           Between(q, f, m[f])
    BY <1>1 DEF EInv, AskedInv
<1> QED BY <1>3, Untouched

(* What it has been told so far is not yet an answer.                      *)
LEMMA AnswerRest ==
    ASSUME EInv, UNCHANGED checkout,
           query'.at \notin {"idle", "compare_again"}, query'.answer = None,
           query'.at # "answered" =>
             query.at \notin {"idle", "answered"} /\ query'.asked = query.asked
    PROVE  AnswerInv'
BY DEF EInv, AnswerInv, checkout

LEMMA ReadInfoKeep ==
    ASSUME EInv, IInv', ReadInfo
    PROVE  EInv'
<1>1. /\ UNCHANGED <<checkout, info, index, view, run>>
      /\ query.at \in {"idle", "again"} /\ Asks(info.identity = query.asked)
      /\ Begin("query") \/ UNCHANGED taken
    BY DEF ReadInfo, Asks
<1>2. IInv /\ AnswerInv /\ Types /\ "query" \in Actors
    BY DEF EInv, IInv, Actors
<1>3. query.answer = None
    BY <1>1, <1>2 DEF AnswerInv
<1>4. ViewInv'
    BY <1>1 DEF EInv, ViewInv
<1>5. PICK i, n, h : i = info.identity /\ n = index /\ h = query.chunks
    OBVIOUS
<1>6. CASE /\ i # None /\ query.at = "idle"
           /\ query' = [query EXCEPT !.asked = i, !.at = "compare"]
  <2>1. query'.at = "compare" /\ query'.asked = i /\ query'.answer = None
    BY <1>2, <1>3, <1>6 DEF Types, QueryType
  <2>2. run.at \notin {"scan", "publish", "second"}
    BY <1>2, <1>5, <1>6 DEF IInv, UnreadyInv
  <2>3. AskedInv'
    <3> SUFFICES ASSUME i.rev = head, NEW f \in Files
                 PROVE  /\ Steady(i, f)' /\ Later(f, Said(i, f), work[f])'
                        /\ n # None => Between(i, f, n[f])'
      BY <1>1, <1>5, <2>1, <2>2 DEF AskedInv, checkout
    <3>1. /\ Steady(i, f) /\ Later(f, Said(i, f), work[f])
          /\ n # None => n[f] = Said(i, f)
      BY <1>5, <1>6 DEF EInv, ExactInv
    <3>2. n # None => Between(i, f, n[f])
      BY <3>1 DEF Between, Later
    <3> QED BY <1>1, <3>1, <3>2, Untouched
  <2>4. ChunksInv'
    BY <2>1 DEF ChunksInv
  <2>5. i.rev <= head' /\ i # None
    BY <1>1, <1>2, <1>5, <1>6, Typed DEF checkout
  <2>6. AnswerInv'
    BY <2>1, <2>5 DEF AnswerInv
  <2> QED BY <1>1, <1>4, <2>3, <2>4, <2>6, RestKeep
<1>7. CASE /\ i # None /\ query.at = "again" /\ i = query.asked /\ Begin("query")
           /\ query' = [query EXCEPT !.asked = i, !.at = "compare_again"]
  <2>1. /\ query'.at = "compare_again" /\ query'.asked = i /\ query'.answer = None
        /\ query'.chunks = h
    BY <1>2, <1>3, <1>5, <1>7 DEF Types, QueryType
  <2>2. AskedInv' /\ ChunksInv'
    BY <1>1, <2>1, AskedRest DEF ChunksInv
  <2>3. i.rev <= head' /\ head' = head
    BY <1>1, <1>2, <1>5, <1>7, Typed DEF checkout
  <2>4. taken'["query"].at = "head"
    BY <1>1, <1>2, <1>7, TakenKeep
  <2>5. ASSUME i.rev = head PROVE True(query.asked)'
    <3> SUFFICES ASSUME NEW k \in h PROVE k[2] = (Denotes(i)[k[1]])'
      BY <2>1 DEF True
    <3>1. PICK f \in Files, x \in Text : f = k[1] /\ x = k[2]
      BY <1>2, <1>5, Typed
    <3>2. x = Said(i, f)
      BY <1>5, <1>7, <2>5, <3>1 DEF EInv, ChunksInv
    <3>3. Steady(i, f)
      BY <1>5, <1>7, <2>5 DEF EInv, ExactInv
    <3>4. x = Denotes(i)[f] /\ (Denotes(i))' = Denotes(i)
      BY <1>1, <3>2, <3>3, Untouched DEF Steady
    <3> QED BY <3>1, <3>4
  <2>6. AnswerInv'
    BY <1>7, <2>1, <2>3, <2>4, <2>5 DEF AnswerInv, Coded
  <2> QED BY <1>1, <1>4, <2>2, <2>6, RestKeep
<1>8. CASE query' = [query EXCEPT !.at = "answered", !.asked = None]
  <2>1. query'.at = "answered" /\ query'.answer = None
    BY <1>2, <1>3, <1>8 DEF Types, QueryType
  <2>2. AskedInv' /\ ChunksInv' /\ AnswerInv'
    BY <1>1, <2>1, AskedRest, AnswerRest DEF ChunksInv
  <2> QED BY <1>1, <1>4, <2>2, RestKeep
<1> QED BY <1>1, <1>5, <1>6, <1>7, <1>8 DEF Asks

LEMMA OpenedKeep ==
    ASSUME EInv, IInv', Opened
    PROVE  EInv'
<1>1. /\ UNCHANGED <<checkout, info, index, view, run>>
      /\ query.at = "compare" /\ Forget("query")
      /\ \/ query' = [query EXCEPT !.at = "search"]
         \/ query' = [query EXCEPT !.at = "answered", !.asked = None]
    BY DEF Opened
<1>2. Types /\ AnswerInv
    BY DEF EInv, IInv
<1>3. /\ query'.answer = query.answer
      /\ \/ query'.at = "search" /\ query'.asked = query.asked
         \/ query'.at = "answered"
    BY <1>1, <1>2 DEF Types, QueryType
<1>4. query.answer = None
    BY <1>1, <1>2 DEF AnswerInv
<1>5. AskedInv' /\ ChunksInv' /\ AnswerInv' /\ ViewInv'
    BY <1>1, <1>3, <1>4, AskedRest, AnswerRest DEF ChunksInv, EInv, ViewInv
<1> QED BY <1>1, <1>5, RestKeep

(* What is loaded is what is published.                                    *)
LEMMA LoadedIsIndex == ViewInv => Loaded = index
BY DEF ViewInv, Loaded

(* A step that loads it or does nothing.                                   *)
LEMMA LoadKeep ==
    ASSUME EInv, IInv', UNCHANGED <<checkout, info, index, taken, run, query>>,
           view' \in {view, Loaded}
    PROVE  EInv'
<1>1. UNCHANGED <<checkout, info, index, taken, run, query>> /\ view' \in {view, index}
    BY LoadedIsIndex DEF EInv
<1>2. ViewInv' /\ AnswerInv'
    BY <1>1, AnswerStill DEF EInv, ViewInv
<1>3. PICK m : m = run'.made
    OBVIOUS
<1>4. AskedInv'
    BY <1>1, <1>3, AskedStill
<1>5. ChunksInv'
  <2>1. PICK q, i, j, s, c : /\ q = query.asked /\ i = info.identity
                             /\ j = run.former.identity /\ s = run.start
                             /\ c = taken["run"]
    OBVIOUS
  <2>2. /\ q = query'.asked /\ i = info'.identity /\ j = run'.former.identity
        /\ s = run'.start /\ c = taken'["run"]
    BY <1>1, <2>1
  <2> SUFFICES ASSUME query.at = "again", q.rev = head, NEW k \in query.chunks
               PROVE  /\ Between(q, k[1], k[2])'
                      /\ i = q => k[2] = (Said(q, k[1]))'
                      /\ run.at \in {"first", "scan"} /\ j = q => k[2] = (Said(q, k[1]))'
                      /\ run.at = "second" /\ s = q /\ Unmoved(c)' => Before(c, k[1], k[2])'
    BY <1>1, <2>2 DEF ChunksInv, checkout
  <2>3. PICK f, x : f = k[1] /\ x = k[2]
    OBVIOUS
  <2>4. /\ Between(q, f, x)
        /\ i = q => x = Said(q, f)
        /\ run.at \in {"first", "scan"} /\ j = q => x = Said(q, f)
        /\ run.at = "second" /\ s = q /\ Unmoved(c) => Before(c, f, x)
    BY <2>1, <2>3 DEF EInv, ChunksInv
  <2>5. /\ Between(q, f, x)' <=> Between(q, f, x)
        /\ (Said(q, f))' = Said(q, f)
        /\ Unmoved(c)' <=> Unmoved(c)
        /\ Before(c, f, x)' <=> Before(c, f, x)
    BY <1>1, Untouched
  <2> QED BY <2>3, <2>4, <2>5
<1> QED BY <1>1, <1>2, <1>4, <1>5, RestKeep

LEMMA SearchKeep ==
    ASSUME EInv, IInv', Search
    PROVE  EInv'
<1>1. Loaded = index /\ Types /\ AnswerInv
    BY LoadedIsIndex DEF EInv, IInv
<1>2. /\ UNCHANGED <<checkout, info, index, taken, run>> /\ view' = index
      /\ query.at = "search"
    BY <1>1 DEF Search
<1>3. query'.answer = query.answer /\ query'.at = "chunks" /\ query'.asked = query.asked
  <2>1. PICK found : query' = [query EXCEPT !.at = "chunks", !.hits = found]
    BY DEF Search
  <2> QED BY <1>1, <2>1 DEF Types, QueryType
<1>4. query.answer = None
    BY <1>1, <1>2 DEF AnswerInv
<1>5. AskedInv' /\ ChunksInv' /\ AnswerInv' /\ ViewInv'
    BY <1>2, <1>3, <1>4, AskedRest, AnswerRest DEF ChunksInv, ViewInv
<1> QED BY <1>2, <1>5, RestKeep

LEMMA ReadChunksKeep ==
    ASSUME EInv, IInv', ReadChunks
    PROVE  EInv'
<1>1. IInv /\ AnswerInv /\ Types /\ Loaded = index
    BY LoadedIsIndex DEF EInv, IInv
<1>2. PICK h : h = {<<f, Loaded[f]>> : f \in {g \in query.hits :
                                               Loaded # None /\ Loaded[g] # Void}}
    OBVIOUS
<1>3. /\ UNCHANGED <<checkout, info, index, taken, run>> /\ view' = index
      /\ query.at = "chunks"
      /\ query' = [query EXCEPT !.at = "again", !.hits = {}, !.chunks = h]
    BY <1>1, <1>2 DEF ReadChunks
<1>4. /\ query'.answer = query.answer /\ query'.at = "again" /\ query'.asked = query.asked
      /\ query'.chunks = h
    BY <1>1, <1>3 DEF Types, QueryType
<1>5. query.answer = None
    BY <1>1, <1>3 DEF AnswerInv
<1>6. AskedInv' /\ AnswerInv' /\ ViewInv'
    BY <1>3, <1>4, <1>5, AskedRest, AnswerRest DEF ViewInv
<1>7. \A k \in h : index # None /\ k[1] \in Files /\ k[2] = index[k[1]]
    BY <1>1, <1>2 DEF Types, QueryType
<1>8. ChunksInv'
  <2>1. PICK q, i, j, s, c : /\ q = query.asked /\ i = info.identity
                             /\ j = run.former.identity /\ s = run.start
                             /\ c = taken["run"]
    OBVIOUS
  <2>2. /\ q = query'.asked /\ i = info'.identity /\ j = run'.former.identity
        /\ s = run'.start /\ c = taken'["run"]
    BY <1>3, <1>4, <2>1
  <2> SUFFICES ASSUME q.rev = head, NEW k \in h
               PROVE  /\ Between(q, k[1], k[2])'
                      /\ i = q => k[2] = (Said(q, k[1]))'
                      /\ run.at \in {"first", "scan"} /\ j = q => k[2] = (Said(q, k[1]))'
                      /\ run.at = "second" /\ s = q /\ Unmoved(c)' => Before(c, k[1], k[2])'
    BY <1>3, <1>4, <2>2 DEF ChunksInv, checkout
  <2>3. PICK f, x : f \in Files /\ f = k[1] /\ x = k[2] /\ index # None /\ x = index[f]
    BY <1>7
  <2>4. Between(q, f, x) /\ q # None
    BY <1>1, <1>3, <2>1, <2>3 DEF EInv, AskedInv, AnswerInv
  <2>5. i = q => x = Said(q, f)
    BY <2>1, <2>3, <2>4 DEF EInv, ExactInv
  <2>6. run.at \in {"first", "scan"} /\ j = q => x = Said(q, f)
    BY <2>1, <2>3, <2>4 DEF EInv, ExactInv
  <2>7. run.at = "second" /\ s = q /\ Unmoved(c) => Before(c, f, x)
    <3>1. run.at = "second" => index = run.made
      BY <1>1 DEF IInv, UnreadyInv
    <3> QED BY <2>1, <2>3, <2>4, <3>1 DEF EInv, SecondInv
  <2>8. /\ Between(q, f, x)' <=> Between(q, f, x)
        /\ (Said(q, f))' = Said(q, f)
        /\ Unmoved(c)' <=> Unmoved(c)
        /\ Before(c, f, x)' <=> Before(c, f, x)
    BY <1>3, Untouched
  <2> QED BY <2>3, <2>4, <2>5, <2>6, <2>7, <2>8
<1> QED BY <1>3, <1>6, <1>8, RestKeep

LEMMA AttachKeep ==
    ASSUME EInv, IInv', Attach
    PROVE  EInv'
<1>1. /\ UNCHANGED <<checkout, info, index, view, run>>
      /\ query.at = "compare_again" /\ Captured("query") /\ Forget("query")
    BY DEF Attach
<1>2. IInv /\ AnswerInv /\ Types /\ "query" \in Actors
    BY DEF EInv, IInv, Actors
<1>3. PICK q, h, y : /\ q = query.asked /\ h = query.chunks
                     /\ y = IF Confirmed THEN q ELSE None
    OBVIOUS
<1>4. query'.at = "answered" /\ query'.answer = y /\ query'.chunks = h
    BY <1>2, <1>3 DEF Attach, Types, QueryType
<1>5. /\ q \in Identities /\ q # None /\ q.rev <= head
      /\ taken["query"] \in CaptureType /\ Filled(taken["query"])
    BY <1>1, <1>2, <1>3, Typed DEF AnswerInv
<1>6. ASSUME y # None PROVE y = q /\ True(q)
  <2>1. y = q /\ Identity("query") = q
    BY <1>3, <1>6 DEF Confirmed
  <2>2. taken["query"].at = "done" /\ taken["query"].rev = q.rev
    BY <1>1, <1>2, <1>5, <2>1, IdentityType DEF Captured
  <2>3. True(query.asked)
    BY <1>1, <1>2, <1>3, <2>2 DEF AnswerInv, Coded
  <2> QED BY <1>3, <2>1, <2>3
<1>7. ASSUME y # None PROVE True(y)'
  <2>1. (Denotes(y))' = Denotes(y)
    BY <1>1, Untouched
  <2>2. \A k \in h : k[2] = Denotes(y)[k[1]]
    BY <1>3, <1>6, <1>7 DEF True
  <2> QED BY <1>4, <2>1, <2>2 DEF True
<1>8. AnswerInv'
  <2>1. y # None => y.rev <= head'
    BY <1>1, <1>5, <1>6 DEF checkout
  <2>2. y # None => True(query.answer)'
    BY <1>4, <1>7
  <2> QED BY <1>4, <2>1, <2>2 DEF AnswerInv
<1>9. AskedInv' /\ ChunksInv' /\ ViewInv'
    BY <1>1, <1>4, AskedRest DEF ChunksInv, EInv, ViewInv
<1> QED BY <1>1, <1>8, <1>9, RestKeep

-----------------------------------------------------------------------------
(* The invariant, and what it is for.                                      *)

LEMMA AnswerInit ==
    ASSUME Init, Fronted = {}
    PROVE  EInv
<1>1. IInv /\ Tracked
    BY InvInit, TrackedInit
<1>2. /\ info.identity = None /\ run = NoRun /\ query = NoQuery /\ view = None
      /\ \A a \in Actors : taken[a] = NoCapture
    BY DEF Init
<1>3. /\ run.at = "idle" /\ query.at = "idle" /\ query.answer = None
      /\ NoCapture.at = "out"
    BY <1>2 DEF NoRun, NoQuery, NoCapture
<1>4. \A a \in Actors : SteadyInv(taken[a])
    BY <1>2, <1>3 DEF SteadyInv, Coded
<1>5. FirstInv /\ SecondInv /\ ExactInv(info.identity) /\ ViewInv /\ AskedInv /\ ChunksInv
    BY <1>2, <1>3 DEF FirstInv, SecondInv, ExactInv, ViewInv, AskedInv, ChunksInv
<1>6. AnswerInv
    BY <1>3 DEF AnswerInv
<1> QED BY <1>1, <1>3, <1>4, <1>5, <1>6 DEF EInv

LEMMA AnswerStep ==
    ASSUME EInv, ~Rewinds, Fronted = {}, ~Foreign, [Next]_vars
    PROVE  EInv'
<1>1. IInv'
    BY InvStep DEF EInv
<1>2. CASE UNCHANGED vars
  <2>1. UNCHANGED <<checkout, info, index, taken, run, query>> /\ view' = view
    BY <1>2 DEF vars
  <2> QED BY <1>1, <2>1, LoadKeep
<1>3. CASE Next
  <2>1. CASE People
    BY <2>1, PeopleKeep
  <2>2. ASSUME NEW a \in Actors, Captures(a) PROVE EInv'
    BY <2>2, CapturesKeep
  <2>3. ASSUME NEW kind \in Kinds, Start(kind) PROVE EInv'
    BY <1>1, <2>3, StartKeep
  <2>4. ASSUME NEW f \in Files, Scan(f) PROVE EInv'
    BY <1>1, <2>4, ScanKeep
  <2>5. CASE Pend \/ Skip \/ Publish \/ Fail \/ Finalize \/ Clear
    BY <1>1, <2>5, PendKeep, SkipKeep, PublishKeep, FailKeep, FinalizeKeep, ClearKeep
  <2>6. CASE ReadInfo \/ Opened \/ Search \/ ReadChunks \/ Attach
    BY <1>1, <2>6, ReadInfoKeep, OpenedKeep, SearchKeep, ReadChunksKeep, AttachKeep
  <2>7. CASE Load
    BY <1>1, <2>7, LoadKeep DEF Load
  <2> QED BY <1>3, <2>1, <2>2, <2>3, <2>4, <2>5, <2>6, <2>7 DEF Next
<1> QED BY <1>2, <1>3

(* Every chunk that is offered as evidence is what the identity it is      *)
(* labelled with says of its file, for any files, edits, stagings, commits,*)
(* runs and captures that fail, if no file becomes again what it was, the  *)
(* hash of a file covers all of it and the server that answers is the one  *)
(* that indexes.                                                           *)
THEOREM EvidenceTrueHolds ==
    ASSUME ~Rewinds, Fronted = {}, ~Foreign
    PROVE  Spec => []EvidenceTrue
<1>1. Init => EInv
    BY AnswerInit
<1>2. EInv /\ [Next]_vars => EInv'
    BY AnswerStep
<1>3. EInv => EvidenceTrue
    BY DEF EInv, AnswerInv, True, EvidenceTrue
<1> QED BY <1>1, <1>2, <1>3, PTL DEF Spec

=============================================================================
