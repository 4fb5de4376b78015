------------------------ MODULE MigrationHistory ------------------------
(***************************************************************************)
(* The committed history and the commands that grow it: make, make_empty   *)
(* and make_merge of gaman-core/src/migration_engine/engine.rs over the    *)
(* stores of src/migration_store.  A worker is one make command at a time  *)
(* in one migrations directory; several workers may share a directory, and *)
(* directories exchange files the way branches of a repository do.         *)
(*                                                                         *)
(* One command is three steps, because other writers run in between:       *)
(*   plan     load_all into the command's snapshot, choose id and          *)
(*            dependencies (plan_make / make_empty / make_merge)           *)
(*   check    DirectoryMigrationStore::save looks for the file             *)
(*   persist  durable_save renames the temporary file without clobbering   *)
(*                                                                         *)
(* Data: a migration is its dependencies and its `atomic` flag; of its     *)
(* operations only the namespaces of the entities they touch matter here.  *)
(* A load reads the directory in one step.                                 *)
(***************************************************************************)
EXTENDS GraphOps

CONSTANTS
    Workers,            \* make commands that may run at the same time
    Setups,             \* the repositories they may run in, records of
                        \*   home      home[w]: the directory worker w runs in
                        \*   embedded  directories whose history is compiled in
                        \*   children  embedded child histories: id |-> dependencies
                        \*   numbers   bound: the largest number a make may choose
                        \* Directories are checkouts of one repository: a child
                        \* history is compiled into all of them.
    Names,              \* suffixes a migration may be given
    TransactionalDdl    \* Dialect::supports_transactional_ddl

ASSUME NamesAssumption  == Names \subseteq 0..(NameWidth - 1)
ASSUME DdlAssumption    == TransactionalDdl \in BOOLEAN
ASSUME SetupsAssumption ==
    \A s \in Setups :
        /\ DOMAIN s.home = Workers
        /\ s.numbers \in 1..(NsWidth \div NameWidth - 1)
        /\ s.children \in [DOMAIN s.children -> SUBSET Nat]
        /\ IsFiniteSet(Nodes(s.children))
        /\ \A id \in DOMAIN s.children : id \in Nat /\ Namespace(id) # 0
        /\ TopologicalOrder(s.children).ok
        /\ \A w \in Workers : s.children = <<>> \/ s.home[w] \in s.embedded

VARIABLES
    setup,      \* the repository
    files,      \* files[d]: id |-> the file stored under it: its dependencies, its
                \* atomic field, and as history the flag it was made with and
                \* the ids its author's snapshot held
    compiled,   \* compiled[d]: the ids of d that the running binary embeds
    pc,         \* pc[w]: "idle", "check" or "persist"
    job         \* job[w]: the migration worker w is about to save

vars == <<setup, files, compiled, pc, job>>

Home      == setup.home
Dirs      == {Home[w] : w \in Workers}
Embedded  == setup.embedded
Children  == setup.children
MaxNumber == setup.numbers

RootIds == {MakeId(n, name) : n \in 1..MaxNumber, name \in Names}
NoJob   == [id |-> 0, deps |-> {}, atomic |-> TRUE, saw |-> {}, merge |-> FALSE]

----------------------------------------------------------------------------
(* The `atomic` field of a file.  Writing skips it when Not::not of the    *)
(* flag holds, that is when the flag is false; reading takes a file        *)
(* without the field as bool_true.                                         *)

WriteAtomic(atomic) == IF ~atomic THEN "absent" ELSE "true"
ReadAtomic(field)   == field # "false"

\* What load_all returns: the directory, or the compiled tree of an embedded
\* history, which a saved file joins only when the binary is built again.
Loaded(d, ids) ==
    Joined([id \in ids |-> files[d][id].deps], IF d \in Embedded THEN Children ELSE <<>>)

Snapshot(d) == Loaded(d, IF d \in Embedded THEN compiled[d] ELSE DOMAIN files[d])

\* ReplaySources.last_per_ns: the last migration of a namespace in graph order.
LastOf(g, ns) ==
    LET order == TopologicalOrder(g).order
        mine  == {i \in DOMAIN order : Namespace(order[i]) = ns}
    IN  IF mine = {} THEN {} ELSE {order[Max(mine)]}

\* Slip: only the owners of the touched entities.
ComputeDeps_OwnersOnly(g, touched) == UNION {LastOf(g, ns) : ns \in touched}

\* Slip: the predecessor's file name is guessed from its number.
ComputeDeps_Guessed(g, touched) ==
    IF LastOf(g, 0) = {} THEN {} ELSE {MakeId(NextNumber(g) - 1, Min(Names))}

\* compute_deps: the root namespace and the owners of the touched entities.
ComputeDeps(g, touched) == UNION {LastOf(g, ns) : ns \in {0} \cup touched}

Init ==
    /\ setup \in Setups
    /\ files = [d \in Dirs |-> <<>>]
    /\ compiled = [d \in Dirs |-> {}]
    /\ pc = [w \in Workers |-> "idle"]
    /\ job = [w \in Workers |-> NoJob]

----------------------------------------------------------------------------
(* Planning.  Every command rebuilds the graph from its snapshot; a graph  *)
(* without an order refuses all of them.                                   *)

Plan(w, g, name, deps, atomic, merge) ==
    /\ NextNumber(g) <= MaxNumber
    /\ job' = [job EXCEPT ![w] = [id   |-> MakeId(NextNumber(g), name),
                                  deps |-> deps, atomic |-> atomic,
                                  saw  |-> DOMAIN g, merge |-> merge]]
    /\ pc' = [pc EXCEPT ![w] = "check"]
    /\ UNCHANGED <<setup, files, compiled>>

Make(w, name, touched) ==
    LET g == Snapshot(Home[w])
    IN  /\ pc[w] = "idle"
        /\ TopologicalOrder(g).ok
        /\ Plan(w, g, name, ComputeDeps(g, touched), TransactionalDdl, FALSE)

MakeEmpty(w, name) ==
    LET g == Snapshot(Home[w])
    IN  /\ pc[w] = "idle"
        /\ TopologicalOrder(g).ok
        /\ Plan(w, g, name, Heads(g), TransactionalDdl, FALSE)

MakeMerge(w, name) ==
    LET g == Snapshot(Home[w])
        merge == MergeDependencies(g)
    IN  /\ pc[w] = "idle"
        /\ TopologicalOrder(g).ok
        /\ merge.ok
        /\ Plan(w, g, name, merge.deps, TRUE, TRUE)

(* Saving. *)

Finish(w) ==
    /\ pc' = [pc EXCEPT ![w] = "idle"]
    /\ job' = [job EXCEPT ![w] = NoJob]

CheckExists(w) ==
    /\ pc[w] = "check"
    /\ IF job[w].id \in DOMAIN files[Home[w]]
         THEN Finish(w)
         ELSE pc' = [pc EXCEPT ![w] = "persist"] /\ UNCHANGED job
    /\ UNCHANGED <<setup, files, compiled>>

\* Slip: the rename replaces what another writer stored meanwhile.
Persist_Clobbers(w) ==
    LET saved == [deps |-> job[w].deps, field |-> WriteAtomic(job[w].atomic),
                  made |-> job[w].atomic, saw |-> job[w].saw]
    IN  /\ pc[w] = "persist"
        /\ files' = [files EXCEPT ![Home[w]] = Inserted(@, job[w].id, saved)]
        /\ Finish(w)
        /\ UNCHANGED <<setup, compiled>>

\* persist_noclobber: StoreError::Conflict when another writer was faster.  A
\* failing sync of the directory reports an error but leaves the file.
Persist(w) ==
    LET d == Home[w]
        saved == [deps |-> job[w].deps, field |-> WriteAtomic(job[w].atomic),
                  made |-> job[w].atomic, saw |-> job[w].saw]
    IN  /\ pc[w] = "persist"
        /\ files' = IF job[w].id \in DOMAIN files[d]
                      THEN files
                      ELSE [files EXCEPT ![d] = Inserted(@, job[w].id, saved)]
        /\ Finish(w)
        /\ UNCHANGED <<setup, compiled>>

\* The process dies, or a write fails: the temporary file is no migration.
Abandon(w) == pc[w] # "idle" /\ Finish(w) /\ UNCHANGED <<setup, files, compiled>>

----------------------------------------------------------------------------
(* The repository around the store (not gaman code): a branch is merged    *)
(* when no file of the two sides differs, and a binary is built again.     *)

Pull(d, from) ==
    /\ d # from
    /\ \A id \in DOMAIN files[d] \cap DOMAIN files[from] : files[d][id] = files[from][id]
    /\ files' = [files EXCEPT ![d] = Joined(@, files[from])]
    /\ UNCHANGED <<setup, compiled, pc, job>>

Rebuild(d) ==
    /\ d \in Embedded
    /\ compiled' = [compiled EXCEPT ![d] = DOMAIN files[d]]
    /\ UNCHANGED <<setup, files, pc, job>>

Next ==
    \/ \E w \in Workers :
         \/ \E name \in Names :
              \/ \E touched \in SUBSET {Namespace(id) : id \in DOMAIN Children} :
                     Make(w, name, touched)
              \/ MakeEmpty(w, name)
              \/ MakeMerge(w, name)
         \/ CheckExists(w)
         \/ Persist(w)
         \/ Abandon(w)
    \/ \E d, from \in Dirs : Pull(d, from)
    \/ \E d \in Dirs : Rebuild(d)

Spec == Init /\ [][Next]_vars

----------------------------------------------------------------------------
(* Properties.                                                             *)

\* The history a directory holds, once a binary that embeds it is up to date.
Graph(d) == Loaded(d, DOMAIN files[d])

\* A committed migration is never replaced, changed or lost, whichever writers
\* race for its id between the existence check and the rename ("persists ...
\* atomically without replacing an existing identity", adapters.rs).
CommittedFilesNeverChange ==
    [][ \A d \in Dirs : \A id \in DOMAIN files[d] :
          id \in DOMAIN files'[d] /\ files'[d][id] = files[d][id] ]_vars

\* Whatever commands run, races they lose and branches they merge, the history
\* in every directory can be ordered: no dependency is missing, none is cyclic.
HistoryAlwaysOrders == \A d \in Dirs : TopologicalOrder(Graph(d)).ok

\* A migration's number is above the number of every root migration it depends
\* on, so file names read in dependency order even after branches are merged.
NumbersGrowAlongDependencies ==
    \A d \in Dirs : \A id \in DOMAIN files[d] : \A dep \in files[d][id].deps :
        Namespace(dep) = 0 => Number(dep) < Number(id)

\* A migration is ordered after every root migration its author's snapshot held,
\* also after those it does not depend on (make names the last one only) and
\* also in trees it reaches by a merge: it is replayed on the schema it was
\* generated against.
OrderedAfterWhatItsAuthorSaw ==
    \A d \in Dirs :
        LET order == TopologicalOrder(Graph(d)).order
            At(id) == CHOOSE i \in DOMAIN order : order[i] = id
        IN  \A id \in DOMAIN files[d] : \A seen \in files[d][id].saw :
              Namespace(seen) = 0 => At(seen) < At(id)

Saves(w) == pc[w] = "persist" /\ pc'[w] = "idle" /\ files' # files

RootHeads(g) == {id \in Heads(g) : Namespace(id) = 0}

\* Only concurrency forks a history: a migration planned from exactly what its
\* directory holds when it is saved adds no head to the root namespace.
UpToDateMakeNeverForks ==
    [][ \A w \in Workers :
          ( /\ Saves(w)
            /\ job[w].saw = DOMAIN Graph(Home[w]) )
          => Cardinality(RootHeads(Graph(Home[w])')) <= Max({1, Cardinality(RootHeads(Graph(Home[w])))})
      ]_vars

\* A merge whose snapshot was still complete when it was saved ends the conflict:
\* apply, plan and status accept the history again.
UpToDateMergeEndsTheConflict ==
    [][ \A w \in Workers :
          ( /\ Saves(w)
            /\ job[w].saw = DOMAIN Graph(Home[w])
            /\ job[w].merge )
          => ~HasConflict(Graph(Home[w])')
      ]_vars

\* A migration is loaded with the transaction mode it was generated with: one
\* made for a dialect without transactional DDL still runs outside a transaction
\* when it is applied ("When false, this migration runs outside a transaction",
\* gaman-core/src/migrations.rs:21).
ReloadsAsGenerated ==
    \A d \in Dirs : \A id \in DOMAIN files[d] :
        ReadAtomic(files[d][id].field) = files[d][id].made
=========================================================================
