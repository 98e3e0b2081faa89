------------------------------ MODULE FaissIndex ------------------------------
(***************************************************************************)
(* The index of face embeddings: backend/app/services/faiss_index.py.      *)
(*                                                                         *)
(* Each process holds the index in memory (vectors under integer ids, and  *)
(* two maps between ids and identities) and writes all of it to two files  *)
(* after every change, one os.replace after the other.  A lock serializes  *)
(* the operations of one process, saves included, so an operation is two   *)
(* or three actions: the change of memory, and each replaced file.  In     *)
(* between a save may raise, or the process may die and load the files.    *)
(*                                                                         *)
(* Of a vector only its owner matters: whose face it really is.            *)
(***************************************************************************)
EXTENDS Integers

CONSTANTS
    Workers,   \* processes that hold an index over the same two files
    People,    \* identities that are enrolled
    MaxId,     \* bound of the ids
    MaxBatch,  \* most embeddings of one enrolment
    MaxExport, \* bound of the ids in an exported bundle
    Foreign,   \* bundles exported by another installation
    Nil        \* no identity

ASSUME IndexAssumption ==
    /\ MaxId \in Nat
    /\ MaxBatch \in Nat
    /\ MaxExport \in Nat
    /\ Nil \notin People

VARIABLES
    mem,       \* mem[w]: the index and the maps in the memory of w
    op,        \* op[w]: the operation that holds the lock of w
    disk,      \* the two files
    exported,  \* the last bundle exported, or Nil
    torn,      \* auxiliary: the files pair an imported index with other metadata
    acked,     \* auxiliary: acked[p]: the ids of p after its last change that was saved
    unsure,    \* auxiliary: those whose last change was not, or not yet, saved
    deleted    \* auxiliary: those whose last request was a deletion, reported done

vars == <<mem, op, disk, exported, torn, acked, unsure, deleted>>

-----------------------------------------------------------------------------
Ids == 0 .. MaxId - 1

\* The owner of each vector, or whom the metadata names; Nil where there is none.
Owners == [Ids -> People \cup {Nil}]

Held(owners) == {i \in Ids : owners[i] # Nil}

Nobody == [i \in Ids |-> Nil]

\* id_to_employee, employee_to_ids and next_id, as saved and as held in memory.
Meta == [owner : Owners, ids : [People -> SUBSET Ids], next : 0 .. MaxId]

NoMeta == [owner |-> Nobody, ids |-> [p \in People |-> {}], next |-> 0]

Memory == [index : Owners, meta : Meta]

\* What export_bundle returns: the index file, and the metadata of the memory.
Bundle == [index : Owners, meta : Meta, torn : BOOLEAN]

\* The two maps are inverses, and every id they name was handed out.
WellKept(meta) ==
    /\ \A p \in People : meta.ids[p] = {i \in Ids : meta.owner[i] = p}
    /\ \A i \in Held(meta.owner) : i < meta.next

\* No id belongs to different people.
Agree(owners, others) ==
    \A i \in Ids : owners[i] # Nil /\ others[i] # Nil => owners[i] = others[i]

\* What another installation exports has been kept by the same code.
ASSUME ForeignAssumption ==
    \A b \in Foreign : /\ b \in Bundle
                       /\ WellKept(b.meta)
                       /\ ~b.torn => Agree(b.index, b.meta.owner)

\* The least id from `least` on that is above all of a set.
IsAbove(n, ids, least) == n >= least /\ \A i \in ids : i < n

Above(ids, least) ==
    CHOOSE n \in 0 .. MaxId :
        /\ IsAbove(n, ids, least)
        /\ \A k \in 0 .. MaxId : IsAbove(k, ids, least) => n <= k

\* Mappings without a row are dropped, rows without a mapping removed.
Matched(index, meta, next) ==
    LET present == Held(index)
        mapped == Held(meta.owner)
    IN
    [index |-> [i \in Ids |-> IF i \in mapped THEN index[i] ELSE Nil],
     meta |-> [owner |-> [i \in Ids |-> IF i \in present THEN meta.owner[i] ELSE Nil],
               ids |-> IF mapped \subseteq present THEN meta.ids
                       ELSE [p \in People |-> meta.ids[p] \cap present],
               next |-> next]]

\* Variants: rows that have no mapping stay in the index; the next id forgets those
\* that were saved; it is the greatest id seen; files out of step are thrown away.
LoadedWithOrphans(index, meta) ==
    [Matched(index, meta, Above(Held(index), meta.next)) EXCEPT !.index = index]

LoadedForgettingNext(index, meta) == Matched(index, meta, Above(Held(index), 0))

LoadedOneBelow(index, meta) == Matched(index, meta, Above(Held(index), meta.next) - 1)

LoadedOrEmpty(index, meta) ==
    IF Held(index) = Held(meta.owner) THEN Matched(index, meta, Above(Held(index), meta.next))
    ELSE [index |-> Nobody, meta |-> [NoMeta EXCEPT !.next = meta.next]]

\* _load: what a process makes of the two files.
Loaded(index, meta) == Matched(index, meta, Above(Held(index), meta.next))

Fresh == Loaded(disk.index, disk.meta)

\* The memory after person p has got n more vectors, under fresh ids.
With(m, p, n) ==
    LET new == m.meta.next .. m.meta.next + n - 1 IN
    [index |-> [i \in Ids |-> IF i \in new THEN p ELSE m.index[i]],
     meta |-> [owner |-> [i \in Ids |-> IF i \in new THEN p ELSE m.meta.owner[i]],
               ids |-> [m.meta.ids EXCEPT ![p] = @ \cup new],
               next |-> m.meta.next + n]]

\* The memory after every vector of person p is removed.
Without(m, p) ==
    LET gone == m.meta.ids[p] IN
    [index |-> [i \in Ids |-> IF i \in gone THEN Nil ELSE m.index[i]],
     meta |-> [owner |-> [i \in Ids |-> IF i \in gone THEN Nil ELSE m.meta.owner[i]],
               ids |-> [m.meta.ids EXCEPT ![p] = {}],
               next |-> m.meta.next]]

-----------------------------------------------------------------------------
Unlocked == [step |-> "none", person |-> Nil, deletes |-> FALSE, bundle |-> Nil]

Init ==
    /\ mem = [w \in Workers |-> [index |-> Nobody, meta |-> NoMeta]]
    /\ op = [w \in Workers |-> Unlocked]
    /\ disk = [written |-> FALSE, index |-> Nobody, meta |-> NoMeta]
    /\ exported = Nil
    /\ torn = FALSE
    /\ acked = [p \in People |-> {}]
    /\ unsure = {} /\ deleted = {}

\* A change of memory for person p; _save follows under the same lock.
Change(w, p, m, deletes) ==
    /\ op[w] = Unlocked
    /\ mem' = [mem EXCEPT ![w] = m]
    /\ op' = [op EXCEPT ![w] = [Unlocked EXCEPT !.step = "index", !.person = p,
                                                !.deletes = deletes]]
    /\ unsure' = unsure \cup {p}
    /\ acked' = [acked EXCEPT ![p] = {}]
    /\ deleted' = deleted \ {p}
    /\ UNCHANGED <<disk, exported, torn>>

Add(w, p) ==
    /\ mem[w].meta.next < MaxId
    /\ Change(w, p, With(mem[w], p, 1), FALSE)

\* An enrolment replaces what the person had; an empty batch only clears it.
AddBatch(w, p, n) ==
    /\ mem[w].meta.next + n <= MaxId
    /\ Change(w, p, With(Without(mem[w], p), p, n), FALSE)

Remove(w, p) ==
    /\ mem[w].meta.ids[p] # {}
    /\ Change(w, p, Without(mem[w], p), TRUE)

\* A person who is not in the memory: the early return, with nothing saved.
RemoveNothing(w, p) ==
    /\ op[w] = Unlocked
    /\ mem[w].meta.ids[p] = {}
    /\ deleted' = deleted \cup {p}
    /\ UNCHANGED <<mem, op, disk, exported, torn, acked, unsure>>

SaveIndex(w) ==
    /\ op[w].step = "index"
    /\ disk' = [disk EXCEPT !.written = TRUE, !.index = mem[w].index]
    /\ op' = [op EXCEPT ![w].step = "meta"]
    /\ UNCHANGED <<mem, exported, torn, acked, unsure, deleted>>

\* The operation is done, and reported as such.
SaveMeta(w) ==
    LET p == op[w].person IN
    /\ op[w].step = "meta"
    /\ disk' = [disk EXCEPT !.meta = mem[w].meta]
    /\ op' = [op EXCEPT ![w] = Unlocked]
    /\ acked' = [acked EXCEPT ![p] = mem[w].meta.ids[p]]
    /\ unsure' = unsure \ {p}
    /\ deleted' = IF op[w].deletes THEN deleted \cup {p} ELSE deleted
    /\ UNCHANGED <<mem, exported, torn>>

Export(w) ==
    /\ op[w] = Unlocked
    /\ disk.written /\ Held(mem[w].index) # {}
    /\ mem[w].meta.next <= MaxExport
    /\ exported' = [index |-> disk.index, meta |-> mem[w].meta, torn |-> torn]
    /\ UNCHANGED <<mem, op, disk, torn, acked, unsure, deleted>>

\* A bundle that parses: its index replaces the file first ...
ImportIndex(w) ==
    \E b \in Foreign \cup ({exported} \ {Nil}) :
        /\ op[w] = Unlocked
        /\ disk' = [disk EXCEPT !.written = TRUE, !.index = b.index]
        /\ op' = [op EXCEPT ![w] = [Unlocked EXCEPT !.step = "import", !.bundle = b]]
        /\ torn' = TRUE
        /\ acked' = [p \in People |-> {}]
        /\ unsure' = People
        /\ deleted' = {}
        /\ UNCHANGED <<mem, exported>>

\* ... then its metadata, and the memory is loaded from both.
ImportMeta(w) ==
    LET b == op[w].bundle IN
    /\ op[w].step = "import"
    /\ disk' = [disk EXCEPT !.meta = b.meta]
    /\ mem' = [mem EXCEPT ![w] = Loaded(disk.index, b.meta)]
    /\ op' = [op EXCEPT ![w] = Unlocked]
    /\ torn' = b.torn
    /\ acked' = Loaded(disk.index, b.meta).meta.ids
    /\ unsure' = {}
    /\ UNCHANGED <<exported, deleted>>

\* A write raises, before either replace: memory stays ahead of the files.
Fail(w) ==
    /\ op[w] # Unlocked
    /\ op' = [op EXCEPT ![w] = Unlocked]
    /\ UNCHANGED <<mem, disk, exported, torn, acked, unsure, deleted>>

Reload(w) ==
    /\ op[w] = Unlocked
    /\ mem' = [mem EXCEPT ![w] = Fresh]
    /\ UNCHANGED <<op, disk, exported, torn, acked, unsure, deleted>>

\* The process dies at any point, and its successor loads the files.
Crash(w) ==
    /\ mem' = [mem EXCEPT ![w] = Fresh]
    /\ op' = [op EXCEPT ![w] = Unlocked]
    /\ UNCHANGED <<disk, exported, torn, acked, unsure, deleted>>

Next ==
    \E w \in Workers :
        \/ \E p \in People : Add(w, p) \/ Remove(w, p) \/ RemoveNothing(w, p)
        \/ \E p \in People, n \in 0 .. MaxBatch : AddBatch(w, p, n)
        \/ SaveIndex(w) \/ SaveMeta(w) \/ Fail(w) \/ Crash(w) \/ Reload(w)
        \/ Export(w) \/ ImportIndex(w) \/ ImportMeta(w)

Spec == Init /\ [][Next]_vars

-----------------------------------------------------------------------------
(* Properties *)

TypeOK ==
    /\ mem \in [Workers -> Memory]
    /\ op \in [Workers -> [step : {"none", "index", "meta", "import"},
                           person : People \cup {Nil}, deletes : BOOLEAN,
                           bundle : Bundle \cup {Nil}]]
    /\ disk \in [written : BOOLEAN, index : Owners, meta : Meta]
    /\ exported \in Bundle \cup {Nil}
    /\ torn \in BOOLEAN
    /\ acked \in [People -> SUBSET Ids]
    /\ unsure \in SUBSET People
    /\ deleted \in SUBSET People

\* Whatever crashes, failed saves, imports and reloads came before, a process
\* searches an index in which every row has a mapping and every mapping a row,
\* and the two maps are inverses: no row without a name can win a search, and a
\* removal finds all the rows of a person.  (_load 93-127; remove_employee 255-261.)
MapsMatch ==
    \A w \in Workers :
        LET m == mem[w] IN
        /\ Held(m.index) = Held(m.meta.owner)
        /\ \A p \in People : m.meta.ids[p] = {i \in Ids : m.meta.owner[i] = p}

\* A search names the person whose face it found, as long as no import was
\* interrupted between its two files: "a stale search result must never resolve to
\* a different employee".  (__init__ 40-42; search_ranked 236-241.)
NamesTheirOwner ==
    ~torn => \A w \in Workers : mem[w].index = mem[w].meta.owner

\* A change that was saved survives: until the person is changed again, any load of
\* the files finds just the embeddings it left, none lost and none back, whoever
\* else's change is interrupted by a crash or fails half way.
\* (_save 140-158; the class comment 28-30.)
SavedChangesSurvive ==
    \A p \in People \ unsure :
        /\ Fresh.meta.ids[p] = acked[p]
        /\ \A w \in Workers : mem[w].meta.ids[p] = acked[p]

\* "Face vectors are purged from the FAISS index either way so the person stops
\* being matchable": once a deletion is reported done, and until the person is
\* enrolled again, no process matches the person.  (api/employees.py 234-235.)
DeletedFacesStayGone ==
    \A p \in deleted, w \in Workers : mem[w].meta.ids[p] = {}
=============================================================================
