---------------------- MODULE IncrementalIndexInvariant ----------------------
(* What holds at every step of IncrementalIndex and makes ReadyMeansExact     *)
(* inductive, as long as nothing happens that the code does not guard against *)
(* (Disciplined).                                                             *)
EXTENDS IncrementalIndex

\* One run per index, one project name, one snapshot for an index; a snapshot
\* that is always written once the index is; files that never go back to an
\* old content, can be read, and an index nobody clears.
Disciplined ==
  /\ Mishaps = {}
  /\ Names \subseteq {DirName}
  /\ AutoProviders \subseteq {Unscoped}

Active(r)  == pc[r] # "idle"
Scanned(r) == pc[r] \in {"compare", "chunk", "publish", "truncate", "fill",
                         "describe", "finish"}
Making(r)  == pc[r] \in {"chunk", "publish"}
Saved(r)   == pc[r] \in {"describe", "finish"}

\* The types, with what the steps of a run need to keep them.
TypeInv ==
  /\ TypeOK
  /\ \A r \in Runs : /\ plan[r].take \subseteq Supported
                     /\ IsFiniteSet(made[r])
                     /\ Scanned(r) => scan[r] \in Trees

\* A run has its index, its snapshot and their project name to itself, and the
\* identity of the index is not ready before the run says so.
RunInv ==
  \A r \in Runs : Active(r) =>
    /\ task[r].scope = task[r].provider
    /\ task[r].name = DirName
    /\ status[task[r].provider].state # "ready"
    /\ \A q \in Runs : Active(q) /\ task[q].provider = task[r].provider => q = r

\* What was read of the checkout is not newer than it, and a file whose content
\* is no longer what was read will not have that content again.
Past(now, newest, t) ==
  \A f \in Files : /\ t[f] <= newest[f]
                   /\ now[f] # Absent => t[f] <= now[f]
PastInv ==
  /\ \A p \in Providers :
       snapshot[p] \in Trees => Past(tree, latest, snapshot[p])
  /\ \A r \in Runs : Active(r) => Past(tree, latest, task[r].start)
  /\ \A r \in Runs : Scanned(r) =>
       /\ Past(tree, latest, scan[r])
       /\ \A f \in Files : tree[f] = task[r].start[f] => scan[r][f] = tree[f]

\* The chunks of file f in a set are those of its content v.
OfFile(cs, f) == {c.version : c \in {d \in cs : d.file = f}}
Wanted(v) == IF v \in Chunkless \cup {Absent} THEN {} ELSE {v}

\* A set of chunks belongs to a tree: one version of a file, of listed files
\* only, no older than in the tree; and the right one, if the file is now
\* what the tree says.
Single(cs) == \A c, d \in cs : c.file = d.file => c = d
Above(cs, t) == \A c \in cs : t[c.file] # Absent /\ t[c.file] <= c.version
Matches(now, cs, t, fs) ==
  \A f \in fs : now[f] = t[f] => OfFile(cs, f) = Wanted(t[f])

\* An index nobody is saving belongs to its snapshot. It is empty if there is
\* no snapshot.
StoreInv ==
  \A p \in Providers :
    /\ Single(chunks[p])
    /\ Settled(p) =>
         \/ snapshot[p] = Missing /\ chunks[p] = {}
         \/ /\ snapshot[p] \in Trees
            /\ Above(chunks[p], snapshot[p])
            /\ Matches(tree, chunks[p], snapshot[p], Supported)

\* The files a run sets out to chunk.
Work(full, old, new) ==
  IF full THEN Indexable(new)
  ELSE (Added(old, new) \cup Modified(old, new)) \cap Supported

\* What a run has made so far belongs to its scan.
MakeOf(r) ==
  LET old == snapshot[task[r].provider]
      work == Work(plan[r].full, old, scan[r])
  IN /\ pc[r] \in {"idle", "fresh", "decide", "scan", "compare"} => made[r] = {}
     /\ pc[r] = "compare" => ~plan[r].full
     /\ (Making(r) \/ pc[r] \in {"scan", "compare"}) /\ ~plan[r].full => old \in Trees
     /\ pc[r] = "publish" => plan[r].take = {}
     /\ Making(r) =>
          /\ Single(made[r])
          /\ Above(made[r], scan[r])
          /\ plan[r].take \subseteq work
          /\ \A c \in made[r] : c.file \in work \ plan[r].take
          /\ Matches(tree, made[r], scan[r], work \ plan[r].take)
          /\ ~plan[r].full =>
               plan[r].drop = Removed(old, scan[r]) \cup Modified(old, scan[r])
MakeInv == \A r \in Runs : MakeOf(r)

\* What a run has published belongs to its scan until that is the snapshot.
SaveOf(r) ==
  /\ Saving(r) => /\ Above(chunks[task[r].provider], scan[r])
                  /\ Matches(tree, chunks[task[r].provider], scan[r], Supported)
  /\ Saved(r) => snapshot[task[r].provider] = scan[r]
SaveInv == \A r \in Runs : SaveOf(r)

\* An identity that is ready, or that a search will put back, is exact.
ContentsIn(cs) == {<<c.file, c.version>> : c \in cs}
Exact(cs, s) == s.state = "ready" => ContentsIn(cs) = ContentsOf(s.of)
ReadyInv ==
  /\ \A p \in Providers : Exact(chunks[p], status[p])
  /\ \A r \in Runs : pc[r] = "fresh" => Exact(chunks[task[r].provider], task[r].before)

\* All that a rebuild asks for: the index and its snapshot are worked on by one
\* run at a time. Everything else may go wrong.
Lone == "overlap" \notin Mishaps /\ AutoProviders \subseteq {Unscoped}

OwnInv ==
  \A r \in Runs : Active(r) =>
    /\ task[r].scope = task[r].provider
    /\ \A q \in Runs : Active(q) /\ task[q].provider = task[r].provider => q = r

\* A rebuild makes and publishes one version of each file of its scan, and its
\* scan is the snapshot then.
Among(cs, t) == \A c \in cs : t[c.file] # Absent
RebuildOf(r) ==
  LET p == task[r].provider
  IN /\ pc[r] \in {"idle", "fresh", "decide", "scan", "compare"} => made[r] = {}
     /\ Making(r) /\ plan[r].full =>
          /\ Single(made[r]) /\ Among(made[r], scan[r])
          /\ plan[r].take \subseteq Present(scan[r])
          /\ \A c \in made[r] : c.file \notin plan[r].take
     /\ (Saving(r) \/ Saved(r)) /\ plan[r].full =>
          Single(chunks[p]) /\ Among(chunks[p], scan[r])
     /\ Saved(r) /\ plan[r].full => snapshot[p] = scan[r]
RepairInv == /\ TypeInv /\ OwnInv
             /\ \A r \in Runs : RebuildOf(r)

IndexInv == /\ TypeInv /\ RunInv /\ PastInv /\ StoreInv
            /\ MakeInv /\ SaveInv /\ ReadyInv

=============================================================================
