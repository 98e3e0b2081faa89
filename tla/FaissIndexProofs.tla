--------------------------- MODULE FaissIndexProofs ---------------------------
(***************************************************************************)
(* The face index keeps its maps together for any number of processes, and *)
(* names the owner of every face, and keeps every saved change, as long as *)
(* one process writes the files.                                           *)
(***************************************************************************)
EXTENDS FaissIndex, WellFoundedInduction, TLAPS

-----------------------------------------------------------------------------
(* Operators *)

Less == {pair \in Nat \X Nat : pair[1] < pair[2]}

LEMMA LessThan ==
    ASSUME NEW m \in Nat, NEW n \in Nat, <<m, n>> \notin Less
    PROVE  n <= m
BY DEF Less

LEMMA LessIsWellFounded == IsWellFoundedOn(Less, Nat)
<1>1. OpToRel(<, Nat) = Less
    BY DEF OpToRel, Less
<1> QED
    BY <1>1, NatLessThanWellFounded, Zenon

\* A least id above a set exists, since MaxId is above all of them.
LEMMA AboveIsAbove ==
    ASSUME NEW S \in SUBSET Ids, NEW least \in 0 .. MaxId
    PROVE  /\ Above(S, least) \in 0 .. MaxId
           /\ Above(S, least) >= least
           /\ \A i \in S : i < Above(S, least)
<1> DEFINE T == {n \in 0 .. MaxId : IsAbove(n, S, least)}
<1>1. MaxId \in T
    BY IndexAssumption DEF IsAbove, Ids
<1>2. T \subseteq Nat
    BY IndexAssumption
<1>3. PICK n \in T : \A k \in T : <<k, n>> \notin Less
    <2> HIDE DEF T
    <2> QED
        BY <1>1, <1>2, LessIsWellFounded, WFMin
<1>4. \A k \in T : n <= k
    BY <1>2, <1>3, LessThan
<1>5. \E k \in 0 .. MaxId :
          /\ IsAbove(k, S, least)
          /\ \A j \in 0 .. MaxId : IsAbove(j, S, least) => k <= j
    BY <1>4
<1>6. Above(S, least) \in 0 .. MaxId /\ IsAbove(Above(S, least), S, least)
    BY <1>5 DEF Above
<1> QED
    BY <1>6 DEF IsAbove

\* A memory whose maps match its rows.
Kept(m) ==
    /\ WellKept(m.meta)
    /\ Held(m.index) = Held(m.meta.owner)

\* What a process loads is kept, whatever pair of files it finds: it names only
\* those the metadata names, and hands out only ids that neither file holds.
LEMMA LoadedIsKept ==
    ASSUME NEW index \in Owners, NEW meta \in Meta, WellKept(meta),
           NEW m, m = Loaded(index, meta)
    PROVE  /\ m \in Memory /\ Kept(m)
           /\ Agree(meta.owner, m.meta.owner)
           /\ meta.next <= m.meta.next
           /\ \A i \in Held(index) : i < m.meta.next
           /\ \A p \in People : m.meta.ids[p] = meta.ids[p] \cap Held(index)
<1> DEFINE present == Held(index)
           mapped == Held(meta.owner)
           next == Above(present, meta.next)
<1>1. present \in SUBSET Ids /\ meta.next \in 0 .. MaxId
    BY DEF Held, Meta
<1>2. /\ next \in 0 .. MaxId
      /\ next >= meta.next
      /\ \A i \in present : i < next
    <2> HIDE DEF present
    <2> QED
        BY <1>1, AboveIsAbove
<1>3. /\ m.index = [i \in Ids |-> IF i \in mapped THEN index[i] ELSE Nil]
      /\ m.meta.owner = [i \in Ids |-> IF i \in present THEN meta.owner[i] ELSE Nil]
      /\ m.meta.ids = IF mapped \subseteq present THEN meta.ids
                      ELSE [p \in People |-> meta.ids[p] \cap present]
      /\ m.meta.next = next
      /\ m = [index |-> m.index,
              meta |-> [owner |-> m.meta.owner, ids |-> m.meta.ids, next |-> next]]
    BY DEF Loaded, Matched
<1>4. \A p \in People : m.meta.ids[p] = meta.ids[p] \cap present
    <2>1. \A p \in People : meta.ids[p] \subseteq mapped
        BY IndexAssumption DEF WellKept, Held
    <2> QED
        BY <1>3, <2>1
<1>5. m \in Memory
    <2>1. m.index \in Owners /\ m.meta.owner \in Owners
        BY <1>3 DEF Owners, Meta
    <2>2. m.meta.ids \in [People -> SUBSET Ids]
        BY <1>3 DEF Meta
    <2> QED
        BY <1>2, <1>3, <2>1, <2>2 DEF Memory, Meta
<1>6. Held(m.meta.owner) = mapped \cap present /\ Held(m.index) = mapped \cap present
    BY <1>3 DEF Held
<1>7. WellKept(m.meta)
    <2>1. \A p \in People : m.meta.ids[p] = {i \in Ids : m.meta.owner[i] = p}
        BY <1>3, <1>4, IndexAssumption DEF WellKept, Held
    <2>2. \A i \in Held(m.meta.owner) : i < m.meta.next
        BY <1>2, <1>3, <1>6
    <2> QED
        BY <2>1, <2>2 DEF WellKept
<1>8. Agree(meta.owner, m.meta.owner)
    BY <1>3 DEF Agree
<1>9. Kept(m)
    BY <1>6, <1>7 DEF Kept
<1> QED
    BY <1>2, <1>3, <1>4, <1>5, <1>8, <1>9

LEMMA WithIsKept ==
    ASSUME NEW m \in Memory, Kept(m), NEW p \in People, NEW n \in Nat,
           m.meta.next + n <= MaxId
    PROVE  With(m, p, n) \in Memory /\ Kept(With(m, p, n))
<1> DEFINE new == m.meta.next .. m.meta.next + n - 1
           k == With(m, p, n)
<1>1. /\ m.meta.next \in Nat
      /\ m.index \in Owners /\ m.meta.owner \in Owners
      /\ m.meta.ids \in [People -> SUBSET Ids]
    BY IndexAssumption DEF Memory, Meta
<1>2. new \subseteq Ids /\ \A i \in new : i < m.meta.next + n
    BY <1>1, IndexAssumption DEF Ids
<1>3. \A i \in new : m.meta.owner[i] = Nil /\ m.index[i] = Nil
    <2>1. \A i \in Held(m.meta.owner) : i \notin new
        BY <1>1 DEF Kept, WellKept, Held, Ids
    <2> QED
        BY <1>2, <2>1 DEF Kept, Held
<1>4. /\ k.index = [i \in Ids |-> IF i \in new THEN p ELSE m.index[i]]
      /\ k.meta.owner = [i \in Ids |-> IF i \in new THEN p ELSE m.meta.owner[i]]
      /\ k.meta.ids = [m.meta.ids EXCEPT ![p] = @ \cup new]
      /\ k.meta.next = m.meta.next + n
      /\ k = [index |-> k.index,
              meta |-> [owner |-> k.meta.owner, ids |-> k.meta.ids,
                        next |-> m.meta.next + n]]
    BY DEF With
<1>5. k \in Memory
    <2>1. k.index \in Owners /\ k.meta.owner \in Owners
        BY <1>1, <1>4 DEF Owners
    <2>2. k.meta.ids \in [People -> SUBSET Ids]
        BY <1>1, <1>2, <1>4
    <2>3. m.meta.next + n \in 0 .. MaxId
        BY <1>1, IndexAssumption
    <2> QED
        BY <1>4, <2>1, <2>2, <2>3 DEF Memory, Meta
<1>6. \A q \in People : k.meta.ids[q] = {i \in Ids : k.meta.owner[i] = q}
    <2> TAKE q \in People
    <2>1. m.meta.ids[q] = {i \in Ids : m.meta.owner[i] = q}
        BY DEF Kept, WellKept
    <2> QED
        BY <1>1, <1>2, <1>3, <1>4, <2>1, IndexAssumption
<1>7. Held(k.index) = Held(m.index) \cup new /\ Held(k.meta.owner) = Held(m.meta.owner) \cup new
    BY <1>2, <1>4, IndexAssumption DEF Held
<1>8. \A i \in Held(k.meta.owner) : i < k.meta.next
    BY <1>1, <1>2, <1>4, <1>7 DEF Kept, WellKept, Held, Ids
<1> QED
    BY <1>5, <1>6, <1>7, <1>8 DEF Kept, WellKept

LEMMA WithoutIsKept ==
    ASSUME NEW m \in Memory, Kept(m), NEW p \in People
    PROVE  /\ Without(m, p) \in Memory /\ Kept(Without(m, p))
           /\ Without(m, p).meta.next = m.meta.next
<1> DEFINE gone == m.meta.ids[p]
           k == Without(m, p)
<1>1. /\ m.index \in Owners /\ m.meta.owner \in Owners
      /\ m.meta.ids \in [People -> SUBSET Ids]
      /\ m.meta.next \in 0 .. MaxId
    BY DEF Memory, Meta
<1>2. /\ k.index = [i \in Ids |-> IF i \in gone THEN Nil ELSE m.index[i]]
      /\ k.meta.owner = [i \in Ids |-> IF i \in gone THEN Nil ELSE m.meta.owner[i]]
      /\ k.meta.ids = [m.meta.ids EXCEPT ![p] = {}]
      /\ k.meta.next = m.meta.next
      /\ k = [index |-> k.index,
              meta |-> [owner |-> k.meta.owner, ids |-> k.meta.ids,
                        next |-> m.meta.next]]
    BY DEF Without
<1>3. k \in Memory
    <2>1. k.index \in Owners /\ k.meta.owner \in Owners
        BY <1>1, <1>2 DEF Owners
    <2>2. k.meta.ids \in [People -> SUBSET Ids]
        BY <1>1, <1>2
    <2> QED
        BY <1>1, <1>2, <2>1, <2>2 DEF Memory, Meta
<1>4. \A q \in People : k.meta.ids[q] = {i \in Ids : k.meta.owner[i] = q}
    <2> TAKE q \in People
    <2>1. /\ m.meta.ids[q] = {i \in Ids : m.meta.owner[i] = q}
          /\ gone = {i \in Ids : m.meta.owner[i] = p}
        BY DEF Kept, WellKept
    <2> QED
        BY <1>1, <1>2, <2>1, IndexAssumption
<1>5. Held(k.index) = Held(m.index) \ gone /\ Held(k.meta.owner) = Held(m.meta.owner) \ gone
    BY <1>2 DEF Held
<1> QED
    BY <1>2, <1>3, <1>4, <1>5 DEF Kept, WellKept

-----------------------------------------------------------------------------
(* Any number of processes *)

Sound ==
    /\ TypeOK
    /\ \A w \in Workers : Kept(mem[w])
    /\ WellKept(disk.meta)
    /\ exported # Nil => WellKept(exported.meta)
    /\ \A w \in Workers :
          /\ op[w].step \in {"index", "meta"} => op[w].person \in People
          /\ op[w].step = "import" => op[w].bundle \in Bundle /\ WellKept(op[w].bundle.meta)

Steps == {"none", "index", "meta", "import"}

Ops == [step : Steps, person : People \cup {Nil}, deletes : BOOLEAN,
        bundle : Bundle \cup {Nil}]

LEMMA EmptyIsKept ==
    /\ Nobody \in Owners /\ NoMeta \in Meta
    /\ WellKept(NoMeta) /\ Held(Nobody) = {} /\ Held(NoMeta.owner) = {}
BY IndexAssumption DEF Nobody, NoMeta, Owners, Meta, WellKept, Held

LEMMA UnlockedType == Unlocked \in Ops /\ Unlocked.step = "none"
BY DEF Unlocked, Ops, Steps

LEMMA InitSound == Init => Sound
<1> SUFFICES ASSUME Init PROVE Sound
    OBVIOUS
<1> USE EmptyIsKept, UnlockedType DEF Init
<1>1. TypeOK
    BY DEF TypeOK, Memory, Ops, Steps
<1>2. \A w \in Workers : Kept(mem[w])
    BY DEF Kept
<1> QED
    BY <1>1, <1>2 DEF Sound

\* The change that opens an operation.
LEMMA ChangeSound ==
    ASSUME Sound, NEW w \in Workers, NEW p \in People, NEW m \in Memory, Kept(m),
           NEW deletes \in BOOLEAN, Change(w, p, m, deletes)
    PROVE  Sound'
<1> USE DEF Change
<1>1. op'[w] \in Ops /\ op'[w].step = "index" /\ op'[w].person = p
    BY UnlockedType DEF Sound, TypeOK, Unlocked, Ops, Steps
<1>2. \A v \in Workers \ {w} : op'[v] = op[v] /\ mem'[v] = mem[v]
    BY DEF Sound, TypeOK
<1>3. mem'[w] = m
    BY DEF Sound, TypeOK
<1>4. TypeOK'
    <2>1. mem' \in [Workers -> Memory]
        BY DEF Sound, TypeOK
    <2>2. op' \in [Workers -> Ops]
        BY UnlockedType DEF Sound, TypeOK, Unlocked, Ops, Steps
    <2>3. unsure' \in SUBSET People /\ deleted' \in SUBSET People
        BY DEF Sound, TypeOK
    <2>4. acked' \in [People -> SUBSET Ids]
        BY DEF Sound, TypeOK
    <2> QED
        BY <2>1, <2>2, <2>3, <2>4 DEF Sound, TypeOK, Ops, Steps
<1>5. \A v \in Workers : Kept(mem[v])'
    <2> TAKE v \in Workers
    <2>1. CASE v = w
        BY <1>3, <2>1 DEF Kept, WellKept, Held
    <2>2. CASE v # w
        BY <1>2, <2>2 DEF Sound, Kept, WellKept, Held
    <2> QED
        BY <2>1, <2>2
<1> QED
    BY <1>1, <1>2, <1>4, <1>5 DEF Sound, WellKept, Held

LEMMA FreshIsKept ==
    ASSUME Sound
    PROVE  Fresh \in Memory /\ Kept(Fresh)
<1>1. disk.index \in Owners /\ disk.meta \in Meta /\ WellKept(disk.meta)
    BY DEF Sound, TypeOK
<1> QED
    BY <1>1, LoadedIsKept DEF Fresh

\* A step of one process that leaves the files and the bundles alone.
LEMMA LocalSound ==
    ASSUME Sound, NEW w \in Workers, NEW m \in Memory, Kept(m), NEW o \in Ops,
           o.step = "none" \/ o = op[w],
           mem' = [mem EXCEPT ![w] = m], op' = [op EXCEPT ![w] = o],
           deleted' \in SUBSET People,
           UNCHANGED <<disk, exported, torn, acked, unsure>>
    PROVE  Sound'
<1>1. op'[w] = o /\ \A v \in Workers \ {w} : op'[v] = op[v]
    BY DEF Sound, TypeOK
<1>2. TypeOK'
    BY DEF Sound, TypeOK, Ops, Steps
<1>3. \A v \in Workers : Kept(mem[v])'
    <2> TAKE v \in Workers
    <2>1. CASE v = w
        BY <2>1 DEF Kept, WellKept, Held, Sound, TypeOK
    <2>2. CASE v # w
        BY <2>2 DEF Sound, TypeOK, Kept, WellKept, Held
    <2> QED
        BY <2>1, <2>2
<1>4. \A v \in Workers :
          /\ op'[v].step \in {"index", "meta"} => op'[v].person \in People
          /\ op'[v].step = "import" =>
                op'[v].bundle \in Bundle /\ WellKept(op'[v].bundle.meta)
    BY <1>1 DEF Sound
<1> QED
    BY <1>2, <1>3, <1>4 DEF Sound, WellKept, Held

LEMMA SaveIndexSound ==
    ASSUME Sound, NEW w \in Workers, SaveIndex(w)
    PROVE  Sound'
<1> USE DEF SaveIndex
<1>1. /\ op'[w] \in Ops /\ op'[w].step = "meta" /\ op'[w].person = op[w].person
      /\ \A v \in Workers \ {w} : op'[v] = op[v]
    BY DEF Sound, TypeOK, Ops, Steps
<1>2. op' \in [Workers -> Ops]
    BY <1>1 DEF Sound, TypeOK, Ops, Steps
<1>3. disk' \in [written : BOOLEAN, index : Owners, meta : Meta] /\ disk'.meta = disk.meta
    BY DEF Sound, TypeOK, Memory
<1>4. TypeOK'
    BY <1>2, <1>3 DEF Sound, TypeOK, Ops, Steps
<1>5. \A v \in Workers : Kept(mem[v])'
    BY DEF Sound, Kept, WellKept, Held
<1> QED
    BY <1>1, <1>3, <1>4, <1>5 DEF Sound, WellKept, Held

LEMMA SaveMetaSound ==
    ASSUME Sound, NEW w \in Workers, SaveMeta(w)
    PROVE  Sound'
<1> USE DEF SaveMeta
<1>1. /\ op'[w] = Unlocked /\ op'[w].step = "none"
      /\ \A v \in Workers \ {w} : op'[v] = op[v]
    BY DEF Sound, TypeOK, Unlocked
<1>2. op' \in [Workers -> Ops]
    BY UnlockedType DEF Sound, TypeOK, Ops, Steps
<1>3. mem[w] \in Memory /\ Kept(mem[w])
    BY DEF Sound, TypeOK
<1>4. /\ disk' \in [written : BOOLEAN, index : Owners, meta : Meta]
      /\ disk'.meta = mem[w].meta
    BY <1>3 DEF Sound, TypeOK, Memory
<1>5. op[w].person \in People
    BY DEF Sound
<1>6. acked' \in [People -> SUBSET Ids] /\ deleted' \in SUBSET People
    BY <1>3, <1>5 DEF Sound, TypeOK, Memory, Meta
<1>7. TypeOK'
    BY <1>2, <1>4, <1>6 DEF Sound, TypeOK, Ops, Steps
<1>8. \A v \in Workers : Kept(mem[v])'
    BY DEF Sound, Kept, WellKept, Held
<1>9. WellKept(disk.meta)'
    BY <1>3, <1>4 DEF Kept, WellKept, Held
<1> QED
    BY <1>1, <1>7, <1>8, <1>9 DEF Sound, WellKept, Held

LEMMA ExportSound ==
    ASSUME Sound, NEW w \in Workers, Export(w)
    PROVE  Sound'
<1> USE DEF Export
<1>1. mem[w].meta \in Meta /\ WellKept(mem[w].meta)
    BY DEF Sound, TypeOK, Memory, Kept
<1>2. exported' \in Bundle /\ exported'.meta = mem[w].meta
    BY <1>1 DEF Sound, TypeOK, Bundle
<1>3. TypeOK'
    BY <1>2 DEF Sound, TypeOK
<1>4. \A v \in Workers : Kept(mem[v])'
    BY DEF Sound, Kept, WellKept, Held
<1>5. WellKept(exported.meta)'
    BY <1>1, <1>2 DEF WellKept, Held
<1> QED
    BY <1>3, <1>4, <1>5 DEF Sound, WellKept, Held

LEMMA ImportIndexSound ==
    ASSUME Sound, NEW w \in Workers, ImportIndex(w)
    PROVE  Sound'
<1>1. PICK b \in Foreign \cup ({exported} \ {Nil}) :
          /\ disk' = [disk EXCEPT !.written = TRUE, !.index = b.index]
          /\ op' = [op EXCEPT ![w] = [Unlocked EXCEPT !.step = "import", !.bundle = b]]
    BY DEF ImportIndex
<1>2. b \in Bundle /\ WellKept(b.meta)
    BY ForeignAssumption DEF Sound, TypeOK
<1>3. /\ op'[w] \in Ops /\ op'[w].step = "import" /\ op'[w].bundle = b
      /\ \A v \in Workers \ {w} : op'[v] = op[v]
    BY <1>1, <1>2 DEF Sound, TypeOK, Unlocked, Ops, Steps
<1>4. op' \in [Workers -> Ops]
    BY <1>1, <1>3 DEF Sound, TypeOK, Ops, Steps
<1>5. disk' \in [written : BOOLEAN, index : Owners, meta : Meta] /\ disk'.meta = disk.meta
    BY <1>1, <1>2 DEF Sound, TypeOK, Bundle
<1>6. acked' \in [People -> SUBSET Ids]
    BY DEF ImportIndex
<1>7. TypeOK'
    BY <1>4, <1>5, <1>6 DEF Sound, TypeOK, Ops, Steps, ImportIndex
<1>8. \A v \in Workers : Kept(mem[v])'
    BY DEF Sound, Kept, WellKept, Held, ImportIndex
<1> QED
    BY <1>2, <1>3, <1>5, <1>7, <1>8 DEF Sound, WellKept, Held, ImportIndex

LEMMA ImportMetaSound ==
    ASSUME Sound, NEW w \in Workers, ImportMeta(w)
    PROVE  Sound'
<1> DEFINE b == op[w].bundle
           m == Loaded(disk.index, b.meta)
<1> USE DEF ImportMeta
<1>1. b \in Bundle /\ WellKept(b.meta) /\ b.meta \in Meta /\ b.torn \in BOOLEAN
    BY DEF Sound, Bundle
<1>2. m \in Memory /\ Kept(m)
    BY <1>1, LoadedIsKept DEF Sound, TypeOK
<1>3. /\ op'[w] = Unlocked /\ op'[w].step = "none"
      /\ \A v \in Workers \ {w} : op'[v] = op[v] /\ mem'[v] = mem[v]
      /\ mem'[w] = m
    BY DEF Sound, TypeOK, Unlocked
<1>4. op' \in [Workers -> Ops] /\ mem' \in [Workers -> Memory]
    BY <1>2, UnlockedType DEF Sound, TypeOK, Ops, Steps
<1>5. disk' \in [written : BOOLEAN, index : Owners, meta : Meta] /\ disk'.meta = b.meta
    BY <1>1 DEF Sound, TypeOK
<1>6. acked' \in [People -> SUBSET Ids]
    BY <1>2 DEF Memory, Meta
<1>7. TypeOK'
    BY <1>1, <1>4, <1>5, <1>6 DEF Sound, TypeOK, Ops, Steps
<1>8. \A v \in Workers : Kept(mem[v])'
    <2> TAKE v \in Workers
    <2> HIDE DEF m
    <2>1. CASE v = w
        BY <1>2, <1>3, <2>1 DEF Kept, WellKept, Held
    <2>2. CASE v # w
        BY <1>3, <2>2 DEF Sound, Kept, WellKept, Held
    <2> QED
        BY <2>1, <2>2
<1>9. WellKept(disk.meta)'
    BY <1>1, <1>5 DEF WellKept, Held
<1> QED
    BY <1>3, <1>7, <1>8, <1>9 DEF Sound, WellKept, Held

LEMMA StepSound == Sound /\ [Next]_vars => Sound'
<1> SUFFICES ASSUME Sound, [Next]_vars PROVE Sound'
    OBVIOUS
<1>1. CASE UNCHANGED vars
    BY <1>1 DEF vars, Sound, TypeOK, Kept, WellKept, Held
<1>2. CASE Next
    <2>1. PICK w \in Workers :
              \/ \E p \in People : Add(w, p) \/ Remove(w, p) \/ RemoveNothing(w, p)
              \/ \E p \in People, n \in 0 .. MaxBatch : AddBatch(w, p, n)
              \/ SaveIndex(w) \/ SaveMeta(w) \/ Fail(w) \/ Crash(w) \/ Reload(w)
              \/ Export(w) \/ ImportIndex(w) \/ ImportMeta(w)
        BY <1>2 DEF Next
    <2>2. mem[w] \in Memory /\ Kept(mem[w]) /\ op[w] \in Ops /\ mem[w].meta.next \in Nat
        BY IndexAssumption DEF Sound, TypeOK, Ops, Steps, Memory, Meta
    <2>3. ASSUME NEW p \in People, Add(w, p) PROVE Sound'
        <3>1. With(mem[w], p, 1) \in Memory /\ Kept(With(mem[w], p, 1))
            BY <2>2, <2>3, WithIsKept, IndexAssumption DEF Add
        <3> QED
            BY <2>3, <3>1, ChangeSound DEF Add
    <2>4. ASSUME NEW p \in People, Remove(w, p) PROVE Sound'
        <3>1. Without(mem[w], p) \in Memory /\ Kept(Without(mem[w], p))
            BY <2>2, WithoutIsKept
        <3> QED
            BY <2>4, <3>1, ChangeSound DEF Remove
    <2>5. ASSUME NEW p \in People, RemoveNothing(w, p) PROVE Sound'
        <3>1. /\ mem' = [mem EXCEPT ![w] = mem[w]]
              /\ op' = [op EXCEPT ![w] = op[w]]
              /\ deleted' \in SUBSET People
              /\ UNCHANGED <<disk, exported, torn, acked, unsure>>
            BY <2>5 DEF RemoveNothing, Sound, TypeOK
        <3> QED
            BY <2>2, <3>1, LocalSound
    <2>6. ASSUME NEW p \in People, NEW n \in 0 .. MaxBatch, AddBatch(w, p, n)
          PROVE  Sound'
        <3> DEFINE m == Without(mem[w], p)
        <3>1. m \in Memory /\ Kept(m) /\ m.meta.next = mem[w].meta.next
            BY <2>2, WithoutIsKept
        <3>2. n \in Nat /\ m.meta.next + n <= MaxId
            BY <2>6, <3>1, IndexAssumption DEF AddBatch
        <3>3. With(m, p, n) \in Memory /\ Kept(With(m, p, n))
            BY <3>1, <3>2, WithIsKept
        <3>4. Change(w, p, With(m, p, n), FALSE)
            BY <2>6 DEF AddBatch
        <3> HIDE DEF m
        <3> QED
            BY <3>3, <3>4, ChangeSound
    <2>7. CASE Fail(w)
        <3>1. /\ mem' = [mem EXCEPT ![w] = mem[w]]
              /\ op' = [op EXCEPT ![w] = Unlocked]
              /\ deleted' \in SUBSET People
              /\ UNCHANGED <<disk, exported, torn, acked, unsure>>
            BY <2>7 DEF Fail, Sound, TypeOK
        <3> QED
            BY <2>2, <3>1, UnlockedType, LocalSound
    <2>8. CASE Crash(w)
        BY <2>8, UnlockedType, FreshIsKept, LocalSound DEF Crash, Sound, TypeOK
    <2>9. CASE Reload(w)
        <3>1. op' = [op EXCEPT ![w] = op[w]] /\ deleted' \in SUBSET People
            BY <2>9 DEF Reload, Sound, TypeOK
        <3> QED
            BY <2>2, <2>9, <3>1, FreshIsKept, LocalSound DEF Reload
    <2> QED
        BY <2>1, <2>3, <2>4, <2>5, <2>6, <2>7, <2>8, <2>9, SaveIndexSound,
           SaveMetaSound, ExportSound, ImportIndexSound, ImportMetaSound
<1> QED
    BY <1>1, <1>2

LEMMA AlwaysSound == Spec => []Sound
BY InitSound, StepSound, PTL DEF Spec

\* Every variable of the index keeps its type; in particular no process, however
\* it loads the files, hands out an id it cannot (faiss_index.py 71-138, 160-204).
THEOREM TypeCorrect == Spec => []TypeOK
<1>1. Sound => TypeOK
    BY DEF Sound
<1> QED
    BY <1>1, AlwaysSound, PTL

\* A process's index and its two maps match, for any number of processes that
\* overwrite each other's files, whatever fails and whenever they die: _load repairs
\* any pair of files (faiss_index.py 93-138).
THEOREM MapsAlwaysMatch == Spec => []MapsMatch
<1>1. Sound => MapsMatch
    BY DEF Sound, Kept, WellKept, MapsMatch
<1> QED
    BY <1>1, AlwaysSound, PTL

-----------------------------------------------------------------------------
(* One process *)

OneProcess == \E w : Workers = {w}

\* The memory m knows of every id of the files f and names the same people; and
\* unless an import was interrupted, of whose face it is.
InStep(f, t, m) ==
    /\ Agree(f.meta.owner, m.meta.owner)
    /\ f.meta.next <= m.meta.next
    /\ ~t => /\ m.index = m.meta.owner
             /\ Agree(f.index, m.meta.owner)
             /\ \A i \in Held(f.index) : i < m.meta.next

Importing(o) ==
    /\ torn
    /\ disk.index = o.bundle.index
    /\ ~o.bundle.torn => Agree(o.bundle.index, o.bundle.meta.owner)

SavedInv ==
    \A p \in People \ unsure :
        /\ disk.meta.ids[p] \cap Held(disk.index) = acked[p]
        /\ \A w \in Workers : mem[w].meta.ids[p] = acked[p]

FilesInv ==
    /\ \A w \in Workers :
          /\ InStep(disk, torn, mem[w])
          /\ op[w].step = "meta" => disk.index = mem[w].index
          /\ op[w].step = "import" => Importing(op[w])
    /\ ~torn => Agree(disk.index, disk.meta.owner)
    /\ exported # Nil /\ ~exported.torn => Agree(exported.index, exported.meta.owner)

IInv == Sound /\ FilesInv /\ SavedInv

LEMMA LoadedNames ==
    ASSUME NEW index \in Owners, NEW meta \in Meta, Agree(index, meta.owner),
           NEW m, m = Loaded(index, meta)
    PROVE  m.index = m.meta.owner /\ Agree(index, m.meta.owner)
<1>1. /\ m.index = [i \in Ids |-> IF i \in Held(meta.owner) THEN index[i] ELSE Nil]
      /\ m.meta.owner = [i \in Ids |-> IF i \in Held(index) THEN meta.owner[i] ELSE Nil]
    BY DEF Loaded, Matched
<1>2. \A i \in Ids : m.index[i] = m.meta.owner[i]
    BY <1>1 DEF Held, Agree
<1>3. m.index = m.meta.owner
    BY <1>1, <1>2
<1>4. Agree(index, m.meta.owner)
    BY <1>1 DEF Agree, Held
<1> QED
    BY <1>3, <1>4

\* New ids are unknown to the files.
LEMMA WithInStep ==
    ASSUME NEW f, f.index \in Owners, f.meta \in Meta, WellKept(f.meta), NEW t,
           NEW m \in Memory, InStep(f, t, m), NEW p \in People, NEW n \in Nat,
           m.meta.next + n <= MaxId
    PROVE  /\ InStep(f, t, With(m, p, n))
           /\ \A q \in People \ {p} : With(m, p, n).meta.ids[q] = m.meta.ids[q]
<1> DEFINE new == m.meta.next .. m.meta.next + n - 1
           k == With(m, p, n)
<1>1. /\ m.meta.next \in Nat /\ f.meta.next \in Nat
      /\ m.index \in Owners /\ m.meta.owner \in Owners
      /\ m.meta.ids \in [People -> SUBSET Ids]
    BY IndexAssumption DEF Memory, Meta
<1>2. /\ k.index = [i \in Ids |-> IF i \in new THEN p ELSE m.index[i]]
      /\ k.meta.owner = [i \in Ids |-> IF i \in new THEN p ELSE m.meta.owner[i]]
      /\ k.meta.ids = [m.meta.ids EXCEPT ![p] = @ \cup new]
      /\ k.meta.next = m.meta.next + n
    BY DEF With
<1>3. \A i \in new : i \in Ids => f.meta.owner[i] = Nil
    BY <1>1 DEF WellKept, InStep, Held, Ids
<1>4. ~t => \A i \in new : i \in Ids => f.index[i] = Nil
    BY <1>1 DEF InStep, Held, Ids
<1>5. Agree(f.meta.owner, k.meta.owner)
    BY <1>2, <1>3 DEF Agree, InStep
<1>6. ~t => k.index = k.meta.owner /\ Agree(f.index, k.meta.owner)
    BY <1>2, <1>4 DEF Agree, InStep
<1>7. f.meta.next <= k.meta.next
    BY <1>1, <1>2 DEF InStep
<1>8. ~t => \A i \in Held(f.index) : i < k.meta.next
    BY <1>1, <1>2 DEF InStep, Held, Ids
<1>9. \A q \in People \ {p} : k.meta.ids[q] = m.meta.ids[q]
    BY <1>1, <1>2
<1> QED
    BY <1>5, <1>6, <1>7, <1>8, <1>9 DEF InStep

LEMMA WithoutInStep ==
    ASSUME NEW f, NEW t, NEW m \in Memory, InStep(f, t, m), NEW p \in People
    PROVE  /\ InStep(f, t, Without(m, p))
           /\ \A q \in People \ {p} : Without(m, p).meta.ids[q] = m.meta.ids[q]
<1> DEFINE gone == m.meta.ids[p]
           k == Without(m, p)
<1>1. m.meta.ids \in [People -> SUBSET Ids]
    BY DEF Memory, Meta
<1>2. /\ k.index = [i \in Ids |-> IF i \in gone THEN Nil ELSE m.index[i]]
      /\ k.meta.owner = [i \in Ids |-> IF i \in gone THEN Nil ELSE m.meta.owner[i]]
      /\ k.meta.ids = [m.meta.ids EXCEPT ![p] = {}]
      /\ k.meta.next = m.meta.next
    BY DEF Without
<1>3. Agree(f.meta.owner, k.meta.owner) /\ (~t => Agree(f.index, k.meta.owner))
    BY <1>2 DEF Agree, InStep
<1>4. ~t => k.index = k.meta.owner
    BY <1>2 DEF InStep
<1>5. \A q \in People \ {p} : k.meta.ids[q] = m.meta.ids[q]
    BY <1>1, <1>2
<1> QED
    BY <1>2, <1>3, <1>4, <1>5 DEF InStep

LEMMA FreshInStep ==
    ASSUME Sound, FilesInv
    PROVE  /\ InStep(disk, torn, Fresh)
           /\ \A p \in People : Fresh.meta.ids[p] = disk.meta.ids[p] \cap Held(disk.index)
<1>1. disk.index \in Owners /\ disk.meta \in Meta /\ WellKept(disk.meta)
    BY DEF Sound, TypeOK
<1>2. ~torn => Fresh.index = Fresh.meta.owner /\ Agree(disk.index, Fresh.meta.owner)
    BY <1>1, LoadedNames DEF FilesInv, Fresh
<1>3. /\ Agree(disk.meta.owner, Fresh.meta.owner)
      /\ disk.meta.next <= Fresh.meta.next
      /\ \A i \in Held(disk.index) : i < Fresh.meta.next
      /\ \A p \in People : Fresh.meta.ids[p] = disk.meta.ids[p] \cap Held(disk.index)
    BY <1>1, LoadedIsKept DEF Fresh
<1> QED
    BY <1>2, <1>3 DEF InStep

LEMMA InitIInv == Init => IInv
<1> SUFFICES ASSUME Init PROVE IInv
    OBVIOUS
<1>1. Agree(Nobody, Nobody)
    BY DEF Agree
<1>2. FilesInv
    BY <1>1, EmptyIsKept, UnlockedType DEF Init, FilesInv, InStep, NoMeta
<1>3. SavedInv
    BY EmptyIsKept DEF Init, SavedInv, NoMeta
<1> QED
    BY <1>2, <1>3, InitSound DEF IInv

LEMMA ChangeFiles ==
    ASSUME IInv, NEW w, Workers = {w}, NEW p \in People, NEW m \in Memory,
           NEW deletes \in BOOLEAN, Change(w, p, m, deletes),
           InStep(disk, torn, m),
           \A q \in People \ {p} : m.meta.ids[q] = mem[w].meta.ids[q]
    PROVE  FilesInv' /\ SavedInv'
<1> USE DEF Change
<1>1. mem'[w] = m /\ op'[w].step = "index"
    BY DEF IInv, Sound, TypeOK, Unlocked
<1>2. FilesInv'
    BY <1>1 DEF IInv, FilesInv, InStep, Agree, Held
<1>3. SavedInv'
    <2> SUFFICES ASSUME NEW q \in (People \ unsure)'
                 PROVE  /\ disk.meta.ids[q] \cap Held(disk.index) = acked'[q]
                        /\ mem'[w].meta.ids[q] = acked'[q]
        BY DEF SavedInv, Held
    <2>1. q \in People \ unsure /\ q # p
        OBVIOUS
    <2>2. acked'[q] = acked[q]
        BY <2>1 DEF IInv, Sound, TypeOK
    <2> QED
        BY <1>1, <2>1, <2>2 DEF IInv, SavedInv
<1> QED
    BY <1>2, <1>3

\* A step that leaves the files, the bundles and what was promised alone.
LEMMA LocalFiles ==
    ASSUME IInv, NEW w, Workers = {w}, NEW m, mem'[w] = m, InStep(disk, torn, m),
           \/ op'[w].step = "none"
           \/ op'[w] = op[w] /\ m = mem[w],
           \A p \in People \ unsure : m.meta.ids[p] = acked[p],
           UNCHANGED <<disk, exported, torn, acked, unsure>>
    PROVE  FilesInv' /\ SavedInv'
<1>1. FilesInv'
    BY DEF IInv, FilesInv, InStep, Agree, Held, Importing
<1>2. SavedInv'
    BY DEF IInv, SavedInv, Held
<1> QED
    BY <1>1, <1>2

LEMMA SaveIndexFiles ==
    ASSUME IInv, NEW w, Workers = {w}, SaveIndex(w)
    PROVE  FilesInv' /\ SavedInv'
<1> USE DEF SaveIndex
<1>1. /\ disk'.index = mem[w].index /\ disk'.meta = disk.meta
      /\ op'[w].step = "meta"
    BY DEF IInv, Sound, TypeOK
<1>2. InStep(disk, torn, mem[w]) /\ Kept(mem[w])
    BY DEF IInv, FilesInv, Sound
<1>3. FilesInv'
    <2>1. InStep(disk', torn, mem[w])
        BY <1>1, <1>2 DEF InStep, Agree, Kept, WellKept
    <2>2. ~torn => Agree(disk'.index, disk'.meta.owner)
        BY <1>1, <1>2 DEF InStep, Agree
    <2> QED
        BY <1>1, <2>1, <2>2 DEF IInv, FilesInv, InStep, Agree, Held
<1>4. SavedInv'
    <2> SUFFICES ASSUME NEW q \in People \ unsure
                 PROVE  disk.meta.ids[q] \cap Held(mem[w].index) = acked[q]
        BY <1>1 DEF IInv, SavedInv, Held
    <2>1. /\ mem[w].meta.ids[q] = acked[q]
          /\ disk.meta.ids[q] \cap Held(disk.index) = acked[q]
        BY DEF IInv, SavedInv
    <2>2. /\ mem[w].meta.ids[q] = {i \in Ids : mem[w].meta.owner[i] = q}
          /\ disk.meta.ids[q] = {i \in Ids : disk.meta.owner[i] = q}
          /\ Held(mem[w].index) = Held(mem[w].meta.owner)
        BY <1>2 DEF Kept, WellKept, IInv, Sound
    <2>3. Agree(disk.meta.owner, mem[w].meta.owner)
        BY <1>2 DEF InStep
    <2> QED
        BY <2>1, <2>2, <2>3, IndexAssumption DEF Held, Agree
<1> QED
    BY <1>3, <1>4

LEMMA SaveMetaFiles ==
    ASSUME IInv, NEW w, Workers = {w}, SaveMeta(w)
    PROVE  FilesInv' /\ SavedInv'
<1> DEFINE p == op[w].person
<1> USE DEF SaveMeta
<1>1. /\ disk'.index = disk.index /\ disk'.meta = mem[w].meta
      /\ op'[w].step = "none"
    BY DEF IInv, Sound, TypeOK, Unlocked
<1>2. /\ InStep(disk, torn, mem[w]) /\ Kept(mem[w]) /\ disk.index = mem[w].index
      /\ mem[w].meta \in Meta /\ mem[w].meta.next \in Nat
    BY IndexAssumption DEF IInv, FilesInv, Sound, TypeOK, Memory, Meta
<1>3. FilesInv'
    <2>1. InStep(disk', torn, mem[w])
        BY <1>1, <1>2 DEF InStep, Agree
    <2>2. ~torn => Agree(disk'.index, disk'.meta.owner)
        BY <1>1, <1>2 DEF InStep
    <2> QED
        BY <1>1, <2>1, <2>2 DEF IInv, FilesInv, InStep, Agree, Held
<1>4. SavedInv'
    <2> SUFFICES ASSUME NEW q \in (People \ unsure)'
                 PROVE  /\ mem[w].meta.ids[q] \cap Held(disk.index) = acked'[q]
                        /\ mem[w].meta.ids[q] = acked'[q]
        BY <1>1 DEF SavedInv, Held
    <2>1. acked'[q] = mem[w].meta.ids[q]
        <3>1. CASE q = p
            BY <3>1 DEF IInv, Sound, TypeOK
        <3>2. CASE q # p
            BY <3>2 DEF IInv, SavedInv, Sound, TypeOK
        <3> QED
            BY <3>1, <3>2
    <2>2. mem[w].meta.ids[q] \subseteq Held(disk.index)
        BY <1>2, IndexAssumption DEF Kept, WellKept, Held
    <2> QED
        BY <2>1, <2>2
<1> QED
    BY <1>3, <1>4

LEMMA ExportFiles ==
    ASSUME IInv, NEW w, Workers = {w}, Export(w)
    PROVE  FilesInv' /\ SavedInv'
<1> USE DEF Export
<1>1. ~exported'.torn => Agree(exported'.index, exported'.meta.owner)
    BY DEF IInv, FilesInv, InStep
<1>2. FilesInv'
    BY <1>1 DEF IInv, FilesInv, InStep, Agree, Held, Importing
<1>3. SavedInv'
    BY DEF IInv, SavedInv, Held
<1> QED
    BY <1>2, <1>3

LEMMA ImportIndexFiles ==
    ASSUME IInv, NEW w, Workers = {w}, ImportIndex(w)
    PROVE  FilesInv' /\ SavedInv'
<1>1. PICK b \in Foreign \cup ({exported} \ {Nil}) :
          /\ disk' = [disk EXCEPT !.written = TRUE, !.index = b.index]
          /\ op' = [op EXCEPT ![w] = [Unlocked EXCEPT !.step = "import", !.bundle = b]]
    BY DEF ImportIndex
<1>2. ~b.torn => Agree(b.index, b.meta.owner)
    BY ForeignAssumption DEF IInv, FilesInv
<1>3. /\ disk'.index = b.index /\ disk'.meta = disk.meta
      /\ op'[w].step = "import" /\ op'[w].bundle = b
      /\ torn' = TRUE /\ mem' = mem /\ exported' = exported /\ unsure' = People
    BY <1>1 DEF IInv, Sound, TypeOK, Unlocked, ImportIndex
<1>4. FilesInv'
    <2>1. InStep(disk', TRUE, mem[w])
        BY <1>3 DEF IInv, FilesInv, InStep
    <2> QED
        BY <1>2, <1>3, <2>1 DEF IInv, FilesInv, InStep, Importing, Agree, Held
<1>5. SavedInv'
    BY <1>3 DEF SavedInv
<1> QED
    BY <1>4, <1>5

LEMMA ImportMetaFiles ==
    ASSUME IInv, NEW w, Workers = {w}, ImportMeta(w)
    PROVE  FilesInv' /\ SavedInv'
<1> DEFINE b == op[w].bundle
<1> USE DEF ImportMeta
<1>1. PICK m : m = Loaded(disk.index, b.meta)
    OBVIOUS
<1>2. /\ b \in Bundle /\ b.meta \in Meta /\ WellKept(b.meta) /\ disk.index \in Owners
      /\ disk.index = b.index
      /\ ~b.torn => Agree(b.index, b.meta.owner)
    BY DEF IInv, Sound, TypeOK, FilesInv, Importing, Bundle
<1>3. /\ mem'[w] = m /\ acked' = m.meta.ids /\ unsure' = {} /\ torn' = b.torn
      /\ disk'.index = disk.index /\ disk'.meta = b.meta
      /\ op'[w].step = "none" /\ exported' = exported
    BY <1>1 DEF IInv, Sound, TypeOK, Unlocked
<1>4. ~b.torn => m.index = m.meta.owner /\ Agree(disk.index, m.meta.owner)
    BY <1>1, <1>2, LoadedNames
<1>5. /\ Agree(b.meta.owner, m.meta.owner)
      /\ b.meta.next <= m.meta.next
      /\ \A i \in Held(disk.index) : i < m.meta.next
      /\ \A p \in People : m.meta.ids[p] = b.meta.ids[p] \cap Held(disk.index)
    BY <1>1, <1>2, LoadedIsKept
<1>6. FilesInv'
    <2>1. InStep(disk', b.torn, m)
        BY <1>3, <1>4, <1>5 DEF InStep
    <2>2. ~b.torn => Agree(disk'.index, disk'.meta.owner)
        BY <1>2, <1>3
    <2>3. exported' # Nil /\ ~exported'.torn => Agree(exported'.index, exported'.meta.owner)
        BY <1>3 DEF IInv, FilesInv
    <2>4. \A x \in Workers : InStep(disk', torn', mem'[x]) /\ op'[x].step = "none"
        BY <1>3, <2>1
    <2> QED
        BY <1>3, <2>2, <2>3, <2>4 DEF FilesInv
<1>7. SavedInv'
    BY <1>3, <1>5 DEF SavedInv, Held
<1> QED
    BY <1>6, <1>7

LEMMA StepIInv == OneProcess /\ IInv /\ [Next]_vars => IInv'
<1> SUFFICES ASSUME NEW w, Workers = {w}, IInv, [Next]_vars
             PROVE  FilesInv' /\ SavedInv'
    BY StepSound DEF OneProcess, IInv
<1>1. CASE UNCHANGED vars
    BY <1>1 DEF vars, IInv, FilesInv, SavedInv, InStep, Importing, Agree, Held
<1>2. CASE Next
    <2>1. \/ \E p \in People : Add(w, p) \/ Remove(w, p) \/ RemoveNothing(w, p)
          \/ \E p \in People, n \in 0 .. MaxBatch : AddBatch(w, p, n)
          \/ SaveIndex(w) \/ SaveMeta(w) \/ Fail(w) \/ Crash(w) \/ Reload(w)
          \/ Export(w) \/ ImportIndex(w) \/ ImportMeta(w)
        BY <1>2 DEF Next
    <2>2. /\ mem[w] \in Memory /\ Kept(mem[w]) /\ InStep(disk, torn, mem[w])
          /\ mem[w].meta.next \in Nat
          /\ disk.index \in Owners /\ disk.meta \in Meta /\ WellKept(disk.meta)
          /\ \A p \in People \ unsure : mem[w].meta.ids[p] = acked[p]
        BY IndexAssumption DEF IInv, Sound, TypeOK, FilesInv, SavedInv, Memory, Meta
    <2>3. ASSUME NEW p \in People, Add(w, p) PROVE FilesInv' /\ SavedInv'
        <3> DEFINE m == With(mem[w], p, 1)
        <3>1. mem[w].meta.next + 1 <= MaxId
            BY <2>2, <2>3, IndexAssumption DEF Add
        <3>2. m \in Memory /\ InStep(disk, torn, m)
              /\ \A q \in People \ {p} : m.meta.ids[q] = mem[w].meta.ids[q]
            BY <2>2, <3>1, WithIsKept, WithInStep
        <3>3. Change(w, p, m, FALSE)
            BY <2>3 DEF Add
        <3> HIDE DEF m
        <3> QED
            BY <3>2, <3>3, ChangeFiles
    <2>4. ASSUME NEW p \in People, Remove(w, p) PROVE FilesInv' /\ SavedInv'
        <3> DEFINE m == Without(mem[w], p)
        <3>1. m \in Memory /\ InStep(disk, torn, m)
              /\ \A q \in People \ {p} : m.meta.ids[q] = mem[w].meta.ids[q]
            BY <2>2, WithoutIsKept, WithoutInStep
        <3>2. Change(w, p, m, TRUE)
            BY <2>4 DEF Remove
        <3> HIDE DEF m
        <3> QED
            BY <3>1, <3>2, ChangeFiles
    <2>5. ASSUME NEW p \in People, RemoveNothing(w, p) PROVE FilesInv' /\ SavedInv'
        BY <2>2, <2>5, LocalFiles DEF RemoveNothing
    <2>6. ASSUME NEW p \in People, NEW n \in 0 .. MaxBatch, AddBatch(w, p, n)
          PROVE  FilesInv' /\ SavedInv'
        <3> DEFINE k == Without(mem[w], p)
                   m == With(k, p, n)
        <3>1. /\ k \in Memory /\ Kept(k) /\ InStep(disk, torn, k)
              /\ k.meta.next = mem[w].meta.next
              /\ \A q \in People \ {p} : k.meta.ids[q] = mem[w].meta.ids[q]
            BY <2>2, WithoutIsKept, WithoutInStep
        <3>2. n \in Nat /\ k.meta.next + n <= MaxId
            BY <2>6, <3>1, IndexAssumption DEF AddBatch
        <3>3. Change(w, p, m, FALSE)
            BY <2>6 DEF AddBatch
        <3> HIDE DEF k
        <3>4. m \in Memory /\ InStep(disk, torn, m)
              /\ \A q \in People \ {p} : m.meta.ids[q] = mem[w].meta.ids[q]
            BY <2>2, <3>1, <3>2, WithIsKept, WithInStep
        <3> HIDE DEF m
        <3> QED
            BY <3>3, <3>4, ChangeFiles
    <2>7. CASE Fail(w)
        <3>1. mem'[w] = mem[w] /\ op'[w].step = "none"
            BY <2>7 DEF Fail, IInv, Sound, TypeOK, Unlocked
        <3> QED
            BY <2>2, <2>7, <3>1, LocalFiles DEF Fail
    <2>8. CASE Crash(w) \/ Reload(w)
        <3>1. /\ mem'[w] = Fresh /\ op'[w].step = "none"
              /\ UNCHANGED <<disk, exported, torn, acked, unsure>>
            BY <2>8 DEF Crash, Reload, IInv, Sound, TypeOK, Unlocked
        <3>2. /\ InStep(disk, torn, Fresh)
              /\ \A p \in People \ unsure : Fresh.meta.ids[p] = acked[p]
            BY FreshInStep DEF IInv, SavedInv
        <3> QED
            BY <3>1, <3>2, LocalFiles
    <2> QED
        BY <2>1, <2>3, <2>4, <2>5, <2>6, <2>7, <2>8, SaveIndexFiles, SaveMetaFiles,
           ExportFiles, ImportIndexFiles, ImportMetaFiles
<1> QED
    BY <1>1, <1>2

\* What the memory, the files, an operation under way and the last bundle owe to
\* each other while one process writes the files.
THEOREM Inductive == ASSUME OneProcess PROVE Spec => []IInv
<1>1. IInv /\ [Next]_vars => IInv'
    BY StepIInv
<1> QED
    BY <1>1, InitIInv, PTL DEF Spec

\* While one process writes the files, a search names the person whose face it
\* found, as long as no import was interrupted: ids that were handed out are not
\* handed out again (faiss_index.py 40-42, 136-138).
THEOREM Names == ASSUME OneProcess PROVE Spec => []NamesTheirOwner
<1>1. IInv => NamesTheirOwner
    BY DEF IInv, FilesInv, InStep, NamesTheirOwner
<1> QED
    BY <1>1, Inductive, PTL

\* While one process writes the files, a change that was saved survives the crash
\* or the failure of any other (faiss_index.py 28-30, 140-158).
THEOREM Survival == ASSUME OneProcess PROVE Spec => []SavedChangesSurvive
<1>1. IInv => SavedChangesSurvive
    BY FreshInStep DEF IInv, SavedInv, SavedChangesSurvive
<1> QED
    BY <1>1, Inductive, PTL
=============================================================================
