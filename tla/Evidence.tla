------------------------------ MODULE Evidence ------------------------------
(***************************************************************************)
(* Evidence: what a search attests about the checkout, and the fence that  *)
(* has to make it true (search/index_identity.py, search/identity_checks.py*)
(* and mcp_server/evidence_tools.py).                                      *)
(*                                                                         *)
(* The identity of a checkout is captured by one git command after the     *)
(* other while people edit, stage and commit.  A run captures it before    *)
(* and after it reads the files and records it if both are equal.  A       *)
(* search for evidence asks before and after it searches whether the       *)
(* recorded identity is still that of the checkout.                        *)
(*                                                                         *)
(* A text is a pair of a body and a front matter, each the number of the   *)
(* edit that wrote it, so no two edits give the same text.                 *)
(***************************************************************************)
EXTENDS Naturals, Sequences, FiniteSets

CONSTANTS
    Files,
    Fronted,    \* those with a front matter: Markdown
    Origins,    \* the values of the remote, None among them if there is none
    MaxEdits,   \* how often somebody edits
    MaxCommits, \* how many commits there are
    Foreign,    \* whether the runs are those of another process
    Kinds,      \* the runs there are: "full", "part" and "auto"
    Rewinds,    \* whether a file may become what it was before
    None

ASSUME ConstantsAssumption ==
    /\ Fronted \subseteq Files
    /\ MaxEdits \in Nat \ {0}
    /\ MaxCommits \in Nat \ {0}
    /\ Foreign \in BOOLEAN
    /\ Rewinds \in BOOLEAN
    /\ Kinds \subseteq {"full", "part", "auto"}

VARIABLES
    commits,    \* the trees that have been committed
    head,       \* the commit that is checked out, 0 if there is none
    stage,      \* the index of git
    work,       \* the files
    origin,     \* the remote
    edits,      \* how many edits there were
    info,       \* the identity in project_info.json
    index,      \* the published index: the text of each file, or None
    view,       \* what the index manager of the server has loaded, or None
    taken,      \* the captures of the run and of the query, as far as they are
    run,        \* the indexing run
    query       \* the search for evidence

checkout == <<commits, head, stage, work, origin, edits>>
vars == <<checkout, info, index, view, taken, run, query>>

Actors == {"run", "query"}

(* The file is not there.                                                  *)
Void == [body |-> 0, front |-> 0]
Text == [body : 0 .. MaxEdits, front : 0 .. MaxEdits]
Tree == [Files -> Text]
Empty == [f \in Files |-> Void]

Base(r) == IF r = 0 THEN Empty ELSE commits[r]

(* What git status says of a file: how the stage differs from the commit   *)
(* and the file from the stage.                                            *)
Code(f) ==
    [staged |-> IF stage[f] = Base(head)[f] THEN "same"
                ELSE IF stage[f] = Void THEN "deleted"
                ELSE IF Base(head)[f] = Void THEN "added" ELSE "modified",
     edited |-> IF work[f] = stage[f] THEN "same"
                ELSE IF stage[f] = Void THEN "untracked"
                ELSE IF work[f] = Void THEN "deleted" ELSE "modified"]

Codes == [staged : {"same", "deleted", "added", "modified"},
          edited : {"same", "untracked", "deleted", "modified"}]

Clean == [staged |-> "same", edited |-> "same"]

Dirt == [codes : [Files -> Codes], work : Tree, stage : Tree, others : Tree]
Identities == [repo : Origins, rev : 0 .. MaxCommits, dirty : Dirt \cup {None}]

ASSUME NoneAssumption == None \notin Dirt \cup Identities

NoCapture == [at |-> "out", repo |-> None, rev |-> 0, codes |-> None,
              work |-> None, stage |-> None, others |-> None]

(* The texts that an identity stands for.                                  *)
Denotes(i) ==
    IF i.dirty = None THEN Base(i.rev)
    ELSE [f \in Files |-> IF i.dirty.others[f] # Void THEN i.dirty.others[f]
                          ELSE i.dirty.work[f]]

NoRun == [at |-> "idle", kind |-> None, former |-> None, start |-> None,
          made |-> None, left |-> {}]
NoQuery == [at |-> "idle", asked |-> None, hits |-> {}, chunks |-> {}, answer |-> None]

(* A checkout without a commit, or with one that has all files; it may have*)
(* been indexed before identities were recorded, by another server.        *)
First == [f \in Files |-> [body |-> 1, front |-> IF f \in Fronted THEN 1 ELSE 0]]

Init ==
    /\ commits \in {<<>>, <<First>>}
    /\ head = Len(commits)
    /\ stage = Base(head)
    /\ work = stage
    /\ origin \in Origins
    /\ edits = head
    /\ info = [status |-> "legacy_missing", identity |-> None]
    /\ index \in {None} \cup {commits[i] : i \in DOMAIN commits}
    /\ view = None
    /\ taken = [a \in Actors |-> NoCapture]
    /\ run = NoRun
    /\ query = NoQuery

TypeOK ==
    /\ commits \in Seq(Tree) /\ Len(commits) <= MaxCommits
    /\ head \in 0 .. Len(commits)
    /\ stage \in Tree /\ work \in Tree
    /\ origin \in Origins
    /\ edits \in 0 .. MaxEdits
    /\ info.status \in {"legacy_missing", "indexing", "pending", "ready", "error",
                        "source_changed_during_index"}
    /\ info.status = "ready" <=> info.identity # None
    /\ index \in Tree \cup {None} /\ view \in Tree \cup {None}
    /\ \A a \in Actors :
         taken[a].at \in {"out", "head", "status", "diff", "cached", "others", "done", "failed"}
    /\ run.at \in {"idle", "first", "scan", "publish", "second"}
    /\ query.at \in {"idle", "compare", "search", "chunks", "again", "compare_again", "answered"}

-----------------------------------------------------------------------------
(* People.  Nobody checks out an earlier commit, and unless the model      *)
(* rewinds a file that is deleted was in the first commit and does not     *)
(* come back: if a file is again what it was, no comparison of a before    *)
(* and an after can tell.                                                  *)

Old(f) == commits # <<>> /\ commits[1][f] # Void

(* What an edit makes of a file: a new text, or its front matter changed.  *)
Writings(f) ==
    LET new == edits + 1
    IN  IF f \notin Fronted THEN {[body |-> new, front |-> 0]}
        ELSE {[body |-> new, front |-> new]}
               \cup (IF work[f] = Void THEN {} ELSE {[work[f] EXCEPT !.front = new]})

Edit(f) ==
    /\ edits < MaxEdits
    /\ Rewinds \/ work[f] # Void \/ ~Old(f)
    /\ edits' = edits + 1
    /\ \E text \in Writings(f) : work' = [work EXCEPT ![f] = text]
    /\ UNCHANGED <<commits, head, stage, origin>>

Drop(f) ==
    /\ work[f] # Void
    /\ Rewinds \/ Old(f)
    /\ work' = [work EXCEPT ![f] = Void]
    /\ UNCHANGED <<commits, head, stage, origin, edits>>

Add(f) ==
    /\ stage[f] # work[f]
    /\ stage' = [stage EXCEPT ![f] = work[f]]
    /\ UNCHANGED <<commits, head, work, origin, edits>>

Commit ==
    /\ Len(commits) < MaxCommits
    /\ head = Len(commits)
    /\ stage # Base(head)
    /\ commits' = Append(commits, stage)
    /\ head' = head + 1
    /\ UNCHANGED <<stage, work, origin, edits>>

(* A commit of somebody else arrives.                                      *)
Pull(f) ==
    /\ Len(commits) < MaxCommits /\ head = Len(commits)
    /\ edits < MaxEdits
    /\ \A g \in Files : Code(g) = Clean
    /\ edits' = edits + 1
    /\ \E text \in Writings(f) : work' = [work EXCEPT ![f] = text]
    /\ stage' = work'
    /\ commits' = Append(commits, work')
    /\ head' = head + 1
    /\ UNCHANGED origin

People ==
    /\ \/ \E f \in Files : Edit(f) \/ Drop(f) \/ Add(f) \/ Pull(f)
       \/ Commit
    /\ UNCHANGED <<info, index, view, taken, run, query>>

-----------------------------------------------------------------------------
(* capture_index_identity: one git command after the other.                *)

Moves(a, from, changed) ==
    /\ taken[a].at = from
    /\ taken' = [taken EXCEPT ![a] = changed]
    /\ UNCHANGED <<checkout, info, index, view, run, query>>

(* The remote and the commit; the empty tree of an unborn branch.          *)
ReadHead(a) ==
    Moves(a, "head", [taken[a] EXCEPT !.at = "status", !.repo = origin, !.rev = head])

ReadStatus(a) ==
    LET codes == [f \in Files |-> Code(f)]
    IN  Moves(a, "status",
              [taken[a] EXCEPT !.codes = codes,
                               !.at = IF \A f \in Files : codes[f] = Clean THEN "done" ELSE "diff"])

(* git diff compares what is staged, or was in the commit, with the files. *)
DiffWork(a) ==
    Moves(a, "diff",
          [taken[a] EXCEPT !.at = "cached",
             !.work = [f \in Files |-> IF stage[f] # Void THEN work[f] ELSE Void]])

DiffStage(a) == Moves(a, "cached", [taken[a] EXCEPT !.at = "others", !.stage = stage])

(* Mutant of Others: the names of untracked files, not what is in them.    *)
OthersNames(codes) == Empty

(* The files that the status listed as untracked; one may be gone by now.  *)
Others(codes) ==
    [f \in Files |-> IF codes[f].edited = "untracked" THEN work[f] ELSE Void]

ReadOthers(a) ==
    Moves(a, "others",
          [taken[a] EXCEPT !.at = "done", !.others = Others(taken[a].codes)])

CaptureFails(a) ==
    /\ taken[a].at \in {"head", "status", "diff", "cached", "others"}
    /\ Moves(a, taken[a].at, [NoCapture EXCEPT !.at = "failed"])

Captures(a) ==
    \/ ReadHead(a) \/ ReadStatus(a) \/ DiffWork(a) \/ DiffStage(a) \/ ReadOthers(a)
    \/ CaptureFails(a)

(* The identity is the hash of what was read; None if something failed.    *)
Identity(a) ==
    LET c == taken[a]
        clean == c.at = "done" /\ \A f \in Files : c.codes[f] = Clean
    IN  IF c.at = "failed" THEN None
        ELSE [repo |-> c.repo, rev |-> c.rev,
              dirty |-> IF clean THEN None
                        ELSE [codes |-> c.codes, work |-> c.work,
                              stage |-> c.stage, others |-> c.others]]

Captured(a) == taken[a].at \in {"done", "failed"}
Begin(a) == taken' = [taken EXCEPT ![a] = [NoCapture EXCEPT !.at = "head"]]
Forget(a) == taken' = [taken EXCEPT ![a] = NoCapture]

(* The identity a capture gives that nobody disturbs.                      *)
Present ==
    LET codes == [f \in Files |-> Code(f)]
    IN  [repo |-> origin, rev |-> head,
         dirty |-> IF \A f \in Files : codes[f] = Clean THEN None
                   ELSE [codes |-> codes,
                         work |-> [f \in Files |-> IF stage[f] # Void THEN work[f] ELSE Void],
                         stage |-> stage,
                         others |-> Others(codes)]]

-----------------------------------------------------------------------------
(* An indexing run.                                                        *)

(* A full or an incremental run of index_directory, or the reindexing of a *)
(* search, which keeps what was recorded to put it back if none is due.    *)
Start(kind) ==
    /\ run.at = "idle"
    /\ run' = [NoRun EXCEPT !.at = "first", !.kind = kind, !.former = info]
    /\ Begin("run")
    /\ UNCHANGED <<checkout, info, index, view, query>>

(* The recorded identity goes before anything is indexed.                  *)
Pend ==
    /\ run.at = "first" /\ Captured("run")
    /\ run' = [run EXCEPT !.at = "scan", !.start = Identity("run"),
                          !.made = Empty, !.left = Files]
    /\ info' = [status |-> IF run.kind = "auto" THEN "pending" ELSE "indexing",
                identity |-> None]
    /\ Forget("run")
    /\ UNCHANGED <<checkout, index, view, query>>

(* The index was fresh or another run was busy: nothing was compared.      *)
Skip ==
    /\ run.at = "scan" /\ run.kind = "auto" /\ run.left = Files
    /\ run' = NoRun
    /\ info' = run.former
    /\ UNCHANGED <<checkout, index, view, taken, query>>

(* The hash that tells whether a file changed leaves out the front matter  *)
(* (hash_file); a file that did not keeps its chunks.                      *)
Chunked(f) ==
    IF run.kind # "full" /\ index # None /\ index[f] # Void /\ index[f].body = work[f].body
    THEN index[f] ELSE work[f]

Scan(f) ==
    /\ run.at = "scan" /\ f \in run.left
    /\ run' = [run EXCEPT !.made[f] = Chunked(f), !.left = @ \ {f},
                          !.at = IF run.left = {f} THEN "publish" ELSE "scan"]
    /\ UNCHANGED <<checkout, info, index, view, taken, query>>

(* A run of this server works with its index manager.                      *)
Publish ==
    /\ run.at = "publish"
    /\ index' = run.made
    /\ view' = IF Foreign THEN view ELSE run.made
    /\ run' = [run EXCEPT !.at = "second"]
    /\ Begin("run")
    /\ UNCHANGED <<checkout, info, query>>

Fail ==
    /\ run.at \in {"scan", "publish"}
    /\ run' = NoRun
    /\ info' = [status |-> "error", identity |-> None]
    /\ UNCHANGED <<checkout, index, view, taken, query>>

(* Mutant of Finalize: the status of a changed source with its identity.   *)
FinalizeAnyway ==
    LET end == Identity("run")
    IN  /\ run.at = "second" /\ Captured("run")
        /\ info' = IF run.start = None \/ end = None
                   THEN [status |-> "error", identity |-> None]
                   ELSE [status |-> IF run.start = end THEN "ready"
                                    ELSE "source_changed_during_index",
                         identity |-> end]
        /\ run' = NoRun
        /\ Forget("run")
        /\ UNCHANGED <<checkout, index, view, query>>

(* finalize_index_identity.                                                *)
Finalize ==
    LET end == Identity("run")
    IN  /\ run.at = "second" /\ Captured("run")
        /\ info' = IF run.start = None \/ end = None
                   THEN [status |-> "error", identity |-> None]
                   ELSE IF run.start # end
                   THEN [status |-> "source_changed_during_index", identity |-> None]
                   ELSE [status |-> "ready", identity |-> end]
        /\ run' = NoRun
        /\ Forget("run")
        /\ UNCHANGED <<checkout, index, view, query>>

(* clear_index leaves the recorded identity as it is.                      *)
Clear ==
    /\ run.at = "idle"
    /\ index # None
    /\ index' = None
    /\ view' = None
    /\ UNCHANGED <<checkout, info, taken, run, query>>

-----------------------------------------------------------------------------
(* search_code_evidence, and the get_index_status it asks.                 *)

(* Only an identity that is recorded as ready is compared with that of the *)
(* checkout, and after the search only the one from before the search.     *)
Asks(wanted) ==
    IF info.identity # None /\ (query.at = "again" => wanted)
    THEN /\ query' = [query EXCEPT !.asked = info.identity,
                                  !.at = IF query.at = "idle" THEN "compare" ELSE "compare_again"]
         /\ Begin("query")
    ELSE query' = [query EXCEPT !.at = "answered", !.asked = None] /\ UNCHANGED taken

(* Mutant of ReadInfo: whatever is ready after the search will do.         *)
ReadAnyInfo ==
    /\ query.at \in {"idle", "again"}
    /\ Asks(TRUE)
    /\ UNCHANGED <<checkout, info, index, view, run>>

ReadInfo ==
    /\ query.at \in {"idle", "again"}
    /\ Asks(info.identity = query.asked)
    /\ UNCHANGED <<checkout, info, index, view, run>>

Confirmed == Identity("query") = query.asked

(* Without an identity before the search there is no evidence after it.    *)
Opened ==
    /\ query.at = "compare" /\ Captured("query")
    /\ query' = IF Confirmed THEN [query EXCEPT !.at = "search"]
                ELSE [query EXCEPT !.at = "answered", !.asked = None]
    /\ Forget("query")
    /\ UNCHANGED <<checkout, info, index, view, run>>

(* The index manager loads what is published when it is first used, and    *)
(* then goes by that.                                                      *)
Loaded == IF view # None THEN view ELSE index

(* Any search uses the index manager.                                      *)
Load ==
    /\ view # Loaded
    /\ view' = Loaded
    /\ UNCHANGED <<checkout, info, index, taken, run, query>>

Search ==
    /\ query.at = "search"
    /\ view' = Loaded
    /\ \E found \in SUBSET {f \in Files : Loaded # None /\ Loaded[f] # Void} :
         query' = [query EXCEPT !.at = "chunks", !.hits = found]
    /\ UNCHANGED <<checkout, info, index, taken, run>>

(* The chunks of the hits, with their full text, before the second status. *)
ReadChunks ==
    /\ query.at = "chunks"
    /\ view' = Loaded
    /\ query' = [query EXCEPT !.at = "again", !.hits = {},
                   !.chunks = {<<f, Loaded[f]>> : f \in {g \in query.hits :
                                 Loaded # None /\ Loaded[g] # Void}}]
    /\ UNCHANGED <<checkout, info, index, taken, run>>

(* References are attached if the same identity was confirmed again.       *)
Attach ==
    /\ query.at = "compare_again" /\ Captured("query")
    /\ query' = [query EXCEPT !.at = "answered", !.asked = None,
                             !.answer = IF Confirmed THEN query.asked ELSE None]
    /\ Forget("query")
    /\ UNCHANGED <<checkout, info, index, view, run>>

Next ==
    \/ People
    \/ \E a \in Actors : Captures(a)
    \/ \E kind \in Kinds : Start(kind)
    \/ Pend \/ Skip \/ (\E f \in Files : Scan(f)) \/ Publish \/ Fail \/ Finalize
    \/ Clear
    \/ ReadInfo \/ Opened \/ Load \/ Search \/ ReadChunks \/ Attach

Spec == Init /\ [][Next]_vars

-----------------------------------------------------------------------------
(* Properties.                                                             *)

(* While the recorded identity is that of the checkout, the index has the  *)
(* texts of the checkout, however edits, stagings and commits fell between *)
(* the git commands and the reads of the run, and whether a search put the *)
(* identity back (finalize_index_identity, auto_reindex_with_identity).    *)
ReadyIndexExact ==
    info.identity = Present /\ index # None => index = work

(* Every chunk that is offered as evidence is what the identity it is      *)
(* labelled with says of its file (search_code_evidence).                  *)
EvidenceTrue ==
    query.at = "answered" /\ query.answer # None
      => \A c \in query.chunks : c[2] = Denotes(query.answer)[c[1]]
=============================================================================
