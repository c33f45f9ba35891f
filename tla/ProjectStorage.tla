--------------------------- MODULE ProjectStorage ---------------------------
(***************************************************************************)
(* Where the server keeps the index of a project, and which one a call     *)
(* uses (mcp_server/code_search_server.py).  A directory is named by the   *)
(* hash of the project path, the legacy form, or of path and provider; a   *)
(* call that names no provider has to find out which is meant.  The server *)
(* remembers the active project and provider, the index manager and the    *)
(* searcher; a foreground job runs on a thread of its own.                 *)
(*                                                                         *)
(* A directory is reduced to what the resolution reads: whether it exists, *)
(* the provider in its project_info.json, the providers whose vectors its  *)
(* code.index holds, and the one its verified manifest names.  A directory *)
(* is populated if it holds vectors.                                       *)
(***************************************************************************)
EXTENDS Naturals, FiniteSets

CONSTANTS
    Paths,      \* the projects
    Cwd,        \* the one the server was started in
    Old,        \* those an earlier version may have indexed
    Sourced,    \* whether that one holds Python files
    Providers,  \* the embedding providers
    Ambient,    \* the one the environment names
    Implicit,   \* whether calls may leave the provider to the server
    Extends,    \* pairs of projects: the name of the second is that of the
                \* first, an underscore and more
    MaxTears,   \* how many project_info.json are torn
    None,       \* no project, no provider, the legacy form, no file
    Broken      \* a project_info.json that does not parse

ASSUME ConstantsAssumption ==
    /\ Cwd \in Paths
    /\ Old \subseteq Paths
    /\ Sourced \in BOOLEAN
    /\ Ambient \in Providers
    /\ Implicit \in BOOLEAN
    /\ Extends \subseteq Paths \X Paths
    /\ MaxTears \in Nat
    /\ None \notin Paths \cup Providers
    /\ Broken \notin Providers \cup {None}

VARIABLES
    dirs,       \* the directories of the storage
    current,    \* the active project and provider
    manager,    \* the directory of the cached index manager
    reader,     \* the cached searcher: its directory and its embedder
    job,        \* the foreground job: what it was asked and where it works
    tears,      \* how many files were torn
    listed      \* the order in which the file system lists directories

vars == <<dirs, current, manager, reader, job, tears, listed>>

Keys == Providers \cup {None}
Dirs == Paths \X Keys

Absent == [there |-> FALSE, info |-> None, vectors |-> {}, made |-> None]

(* Indexes of earlier versions, which knew the legacy form only.           *)
Legacy(k) == [there |-> TRUE, info |-> k, vectors |-> {k}, made |-> k]

NoJob == [path |-> None, provider |-> None, target |-> None, wrote |-> None,
          active |-> FALSE]

Nobody == [project |-> None, provider |-> None]

Init ==
    /\ \E old \in [Old -> Keys] :
         dirs = [d \in Dirs |->
                   IF d[1] \in Old /\ d[2] = None /\ old[d[1]] # None THEN Legacy(old[d[1]])
                   ELSE Absent]
    /\ current = Nobody
    /\ manager = None
    /\ reader = None
    /\ job = NoJob
    /\ tears = 0
    /\ listed \in {f \in [Keys -> 1 .. Cardinality(Keys)] :
                     \A k, l \in Keys : f[k] = f[l] => k = l}

TypeOK ==
    /\ dirs \in [Dirs -> [there : BOOLEAN, info : Keys \cup {Broken},
                          vectors : SUBSET Providers, made : Keys]]
    /\ current \in [project : Paths \cup {None}, provider : Keys]
    /\ manager \in Dirs \cup {None}
    /\ reader \in [at : Dirs, by : Providers] \cup {None}
    /\ job \in [path : Paths \cup {None}, provider : Keys,
                target : Dirs \cup {None}, wrote : Dirs \cup {None},
                active : BOOLEAN]
    /\ tears \in 0 .. MaxTears
    /\ listed \in [Keys -> 1 .. Cardinality(Keys)]

-----------------------------------------------------------------------------
(* Resolution.                                                             *)

Populated(ds, d) == ds[d].vectors # {}

Readable(ds, d) == ds[d].there /\ ds[d].info \in Providers

(* Populated directories that describe themselves.                         *)
Indexes(ds, p) ==
    {d \in Dirs : d[1] = p /\ Readable(ds, d) /\ Populated(ds, d)}

(* A glob takes the first that fits.                                       *)
FirstOf(some) == CHOOSE d \in some : \A e \in some : listed[d[2]] <= listed[e[2]]

(* Mutant of Migrated: the legacy directory replaces what is there.        *)
MigratedOver(ds, p, k) ==
    IF ds[<<p, None>>].there /\ ds[<<p, None>>].info = k
    THEN [ds EXCEPT ![<<p, k>>] = ds[<<p, None>>], ![<<p, None>>] = Absent]
    ELSE ds

(* A legacy directory of this provider becomes the provider's own.         *)
Migrated(ds, p, k) ==
    IF /\ ~ds[<<p, k>>].there
       /\ ds[<<p, None>>].there
       /\ ds[<<p, None>>].info = k
    THEN [ds EXCEPT ![<<p, k>>] = ds[<<p, None>>], ![<<p, None>>] = Absent]
    ELSE ds

(* The directory is created, and its project_info.json if asked for.       *)
Created(ds, d, k, describe) ==
    [ds EXCEPT ![d].there = TRUE,
               ![d].info = IF @ # None \/ ~describe THEN @
                           ELSE IF k # None THEN k ELSE Ambient]

(* get_project_storage_dir: a call that names no provider gets a populated *)
(* directory of one, or else the legacy one.                               *)
Located(ds, p, k, describe) ==
    LET siblings == Indexes(ds, p) \ {<<p, None>>}
        at == IF k = None /\ siblings # {} THEN FirstOf(siblings) ELSE <<p, k>>
        moved == IF k # None THEN Migrated(ds, p, k) ELSE ds
    IN  [at |-> at, dirs |-> Created(moved, at, k, describe)]

(* Without a readable project_info.json the verified manifest says which   *)
(* provider made the vectors; without a manifest, or against a provider    *)
(* that is asked for, that is an error.                                    *)
FromManifest(d, k) ==
    IF d.made = None \/ (k # None /\ k # d.made) THEN None ELSE d.made

(* The provider an embedder is made for, None if that raises: the one      *)
(* asked for goes before the one stored.                                   *)
Embedder(ds, p, k) ==
    LET l == Located(ds, p, k, FALSE)
        d == l.dirs[l.at]
    IN  [dirs |-> l.dirs,
         by |-> IF d.info \notin Providers THEN FromManifest(d, k)
                ELSE IF k # None THEN k ELSE d.info]

(* Mutant of Managed: the cached manager is kept for another provider.     *)
ManagedByProject(s, p, k) ==
    LET now == [project |-> p,
                provider |-> IF k # None THEN k ELSE s.current.provider]
        l == Located(s.dirs, p, now.provider, TRUE)
    IN  IF s.current.project = p /\ s.manager # None
        THEN [s EXCEPT !.current = now]
        ELSE [dirs |-> l.dirs, current |-> now, manager |-> l.at]

(* get_index_manager: the cached one unless project or provider change,    *)
(* and None falls back to the active provider.                             *)
Managed(s, p, k) ==
    LET now == [project |-> p,
                provider |-> IF k # None THEN k ELSE s.current.provider]
        l == Located(s.dirs, p, now.provider, TRUE)
    IN  IF s.current = now /\ s.manager # None THEN s
        ELSE [dirs |-> l.dirs, current |-> now, manager |-> l.at]

(* A caller that always names a provider or has switched to one.           *)
Definite(k) == Implicit \/ k # None \/ current.provider # None

Server == [dirs |-> dirs, current |-> current, manager |-> manager]

(* What a run makes of the index of d: a rebuild leaves only its own       *)
(* vectors, an update adds to those that are there.  A directory that is   *)
(* gone cannot be written.                                                 *)
Written(ds, d, by) ==
    IF ~ds[d].there THEN {ds}
    ELSE {[ds EXCEPT ![d].vectors = v, ![d].made = by]
            : v \in {{by}} \cup (IF Populated(ds, d)
                                 THEN {ds[d].vectors \cup {by}} ELSE {})}

-----------------------------------------------------------------------------
(* The tools.                                                              *)

(* index_directory: the job is registered with the directory it is about.  *)
Registered(ds, p, k) ==
    LET l == Located(ds, p, k, TRUE)
    IN  [dirs |-> l.dirs,
         job |-> [path |-> p, provider |-> k, target |-> l.at, wrote |-> None,
                  active |-> TRUE]]

IndexDirectory(p, k) ==
    /\ ~job.active
    /\ Implicit \/ k # None
    /\ dirs' = Registered(dirs, p, k).dirs
    /\ job' = Registered(dirs, p, k).job
    /\ UNCHANGED <<current, manager, reader, tears, listed>>

(* Mutant of Work: the provider of the call is not passed on.              *)
WorkAsActive ==
    LET m == Managed([Server EXCEPT !.manager = None], job.path, None)
        e == Embedder(m.dirs, job.path, job.provider)
    IN  /\ job.active
        /\ current' = m.current
        /\ manager' = m.manager
        /\ reader' = None
        /\ e.by # None
        /\ dirs' \in {e.dirs} \cup Written(e.dirs, m.manager, e.by)
        /\ job' = [job EXCEPT !.active = FALSE, !.wrote = m.manager]
        /\ UNCHANGED <<tears, listed>>

(* The thread of the job.  It drops what is cached, gets a manager and an  *)
(* embedder, asks for the directory again and indexes; it may fail.        *)
Work ==
    LET m == Managed([Server EXCEPT !.manager = None], job.path, job.provider)
        e == Embedder(m.dirs, job.path, job.provider)
        l == Located(e.dirs, job.path, job.provider, TRUE)
    IN  /\ job.active
        /\ current' = m.current
        /\ manager' = m.manager
        /\ reader' = None
        /\ \/ /\ e.by = None
              /\ dirs' = e.dirs
              /\ job' = [job EXCEPT !.active = FALSE]
           \/ /\ e.by # None
              /\ dirs' \in {l.dirs} \cup Written(l.dirs, m.manager, e.by)
              /\ job' = [job EXCEPT !.active = FALSE, !.wrote = m.manager]
        /\ UNCHANGED <<tears, listed>>

(* The reindexing of a search, for the active project and provider: it may *)
(* find nothing to do or fail; without an embedder there is none.          *)
Refreshed(s) ==
    LET m == Managed(s, s.current.project, s.current.provider)
        e == Embedder(m.dirs, s.current.project, s.current.provider)
        l == Located(e.dirs, s.current.project, s.current.provider, TRUE)
    IN  IF e.by = None THEN {[m EXCEPT !.dirs = e.dirs]}
        ELSE {[m EXCEPT !.dirs = d]
                : d \in {l.dirs} \cup Written(l.dirs, m.manager, e.by)}

(* Without an active project the working directory is registered first,    *)
(* and if it holds Python files and no index it is indexed, by a job that  *)
(* names no provider.                                                      *)
Ensured(s) ==
    LET l == Located(s.dirs, Cwd, None, TRUE)
        r == Registered(l.dirs, Cwd, None)
    IN  IF s.current.project # None THEN [server |-> s, job |-> job]
        ELSE IF Populated(l.dirs, l.at) \/ ~Sourced \/ job.active
        THEN [server |-> [s EXCEPT !.dirs = l.dirs], job |-> job]
        ELSE [server |-> [s EXCEPT !.dirs = r.dirs], job |-> r.job]

(* get_searcher, as search_code and find_similar_code call it: manager and *)
(* embedder for one provider, or an error.                                 *)
GetSearcher(s, k) ==
    LET n == Ensured(s)
        p == IF s.current.project # None THEN s.current.project ELSE Cwd
        m == Managed(n.server, p, k)
        e == Embedder(m.dirs, p, m.current.provider)
    IN  /\ dirs' = e.dirs
        /\ current' = m.current
        /\ manager' = m.manager
        /\ reader' = IF e.by = None THEN reader ELSE [at |-> m.manager, by |-> e.by]
        /\ job' = n.job
        /\ UNCHANGED <<tears, listed>>

(* search_code: turned away during a job; may reindex first.               *)
SearchCode(k) ==
    /\ ~job.active
    /\ Definite(k)
    /\ \E s \in {Server} \cup (IF current.project # None THEN Refreshed(Server) ELSE {}) :
         GetSearcher(s, k)

FindSimilarCode == Definite(None) /\ GetSearcher(Server, None)

(* get_index_status and get_file_context need a manager only.              *)
Consult ==
    LET m == Managed(Server, IF current.project # None THEN current.project ELSE Cwd, None)
    IN  /\ Definite(None)
        /\ dirs' = m.dirs
        /\ current' = m.current
        /\ manager' = m.manager
        /\ UNCHANGED <<reader, job, tears, listed>>

(* clear_index: the active project's.                                      *)
ClearIndex ==
    LET m == Managed(Server, current.project, None)
    IN  /\ current.project # None
        /\ dirs' = IF m.dirs[m.manager].there
                   THEN [m.dirs EXCEPT ![m.manager].vectors = {}, ![m.manager].made = None]
                   ELSE m.dirs
        /\ current' = m.current
        /\ manager' = m.manager
        /\ UNCHANGED <<reader, job, tears, listed>>

-----------------------------------------------------------------------------
(* switch_project.                                                         *)

(* Which directory a switch is to, and which provider that means: a        *)
(* populated one that describes itself, the legacy one included; then the  *)
(* one the legacy directory refers to; then as for any other call.         *)
Target(p, k) ==
    LET own == Indexes(dirs, p)
        old == dirs[<<p, None>>].info
        l   == Located(dirs, p, k, FALSE)
    IN  IF k = None /\ own # {}
        THEN [at |-> FirstOf(own), dirs |-> dirs, provider |-> dirs[FirstOf(own)].info]
        ELSE IF k = None /\ old \in Providers /\ Populated(dirs, <<p, old>>)
        THEN [at |-> <<p, old>>, dirs |-> dirs, provider |-> old]
        ELSE [at |-> l.at, dirs |-> l.dirs, provider |-> k]

(* Mutant of SwitchProject: the cached manager stays.                      *)
SwitchKeepingManager(p, k) ==
    LET t == Target(p, k)
        d == t.dirs[t.at]
        known == d.vectors # {} /\ (d.info \in Providers \/ FromManifest(d, t.provider) # None)
    IN  /\ dirs' = t.dirs
        /\ IF known
           THEN /\ current' = [project |-> p,
                               provider |-> IF d.info \in Providers THEN t.provider ELSE d.made]
                /\ UNCHANGED manager
                /\ reader' = None
           ELSE UNCHANGED <<current, manager, reader>>
        /\ UNCHANGED <<job, tears, listed>>

(* The switch is made once the metadata of the target is known, from its   *)
(* verified manifest if need be; until then nothing of it shows.           *)
SwitchProject(p, k) ==
    LET t == Target(p, k)
        d == t.dirs[t.at]
        known == d.vectors # {} /\ (d.info \in Providers \/ FromManifest(d, t.provider) # None)
    IN  /\ dirs' = t.dirs
        /\ IF known
           THEN /\ current' = [project |-> p,
                               provider |-> IF d.info \in Providers THEN t.provider ELSE d.made]
                /\ manager' = None
                /\ reader' = None
           ELSE UNCHANGED <<current, manager, reader>>
        /\ UNCHANGED <<job, tears, listed>>

-----------------------------------------------------------------------------
(* delete_project, by name and hash.  The directory of that hash if there  *)
(* is one, or else the first whose name starts with that of the project;   *)
(* the server forgets the project if the directory says that it is the     *)
(* active one's.                                                           *)
Matching(p, k) ==
    IF dirs[<<p, k>>].there THEN {<<p, k>>}
    ELSE {d \in Dirs : dirs[d].there /\ (d[1] = p \/ <<p, d[1]>> \in Extends)}

Remove(d) ==
    /\ dirs' = [dirs EXCEPT ![d] = Absent]
    /\ IF Readable(dirs, d) /\ current.project = d[1]
       THEN current' = Nobody /\ manager' = None /\ reader' = None
       ELSE UNCHANGED <<current, manager, reader>>
    /\ UNCHANGED <<job, tears, listed>>

DeleteProject(p, k) == \E d \in Matching(p, k) : Remove(d)

-----------------------------------------------------------------------------
(* The server ends and starts again.                                       *)
Restart ==
    /\ current' = Nobody
    /\ manager' = None
    /\ reader' = None
    /\ job' = NoJob
    /\ UNCHANGED <<dirs, tears, listed>>

(* It ends while it writes a project_info.json, which is not atomic.       *)
Tear(d) ==
    /\ tears < MaxTears
    /\ dirs[d].there
    /\ dirs' = [dirs EXCEPT ![d].info = Broken]
    /\ tears' = tears + 1
    /\ current' = Nobody
    /\ manager' = None
    /\ reader' = None
    /\ job' = NoJob
    /\ UNCHANGED listed

Next ==
    \/ \E p \in Paths, k \in Keys : IndexDirectory(p, k)
    \/ Work
    \/ \E k \in Keys : SearchCode(k)
    \/ FindSimilarCode
    \/ Consult
    \/ ClearIndex
    \/ \E p \in Paths, k \in Keys : SwitchProject(p, k)
    \/ \E p \in Paths, k \in Keys : DeleteProject(p, k)
    \/ Restart
    \/ \E d \in Dirs : Tear(d)

Spec == Init /\ [][Next]_vars

-----------------------------------------------------------------------------
(* Properties.                                                             *)

(* The index of a project and a provider holds vectors of that provider    *)
(* only, whatever manager and embedder a run has got hold of               *)
(* (get_index_manager, embedder).                                          *)
VectorsOfProvider ==
    \A p \in Paths, k \in Providers : dirs[<<p, k>>].vectors \subseteq {k}

(* The searcher in use embeds queries with the provider that embedded the  *)
(* chunks it searches (get_searcher).                                      *)
QueryMatchesVectors ==
    reader # None => dirs[reader.at].vectors \subseteq {reader.by}

(* A job writes the index in the directory whose project_info.json says    *)
(* how it goes (index_directory, get_index_manager).                       *)
JobIndexesItsTarget ==
    job.wrote # None => job.wrote = job.target

(* Finding, switching, searching and moving legacy directories never       *)
(* replaces or drops an index: only a deletion, a clearing and a run that  *)
(* indexes do (get_project_storage_dir, switch_project).                   *)
Kept(d) ==
    \/ \E e \in Dirs : /\ e[1] = d[1]
                       /\ dirs'[e].vectors = dirs[d].vectors
                       /\ e = d \/ ~Populated(dirs, e)
    \/ dirs'[d].made # None /\ dirs'[d].made \in dirs'[d].vectors

Removed(d) == ClearIndex \/ \E p \in Paths, k \in Keys : d \in Matching(p, k) /\ Remove(d)

IndexesKept ==
    [][\A d \in Dirs : Populated(dirs, d) => (Kept(d) \/ Removed(d))]_vars
=============================================================================
