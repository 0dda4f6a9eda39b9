----------------------- MODULE PersistentTableProofs ------------------------
(***************************************************************************)
(* What log, checkpoint and recovery keep of a server's table, for every   *)
(* set of keys and values, every size of the log and any number of         *)
(* requests.  The inductive invariant is IInv below.                       *)
(***************************************************************************)
EXTENDS PersistentTable, TableOpsProofs, SequenceTheorems

(* run[i] is what a table is after the first i records of a file. *)
IsRun(run, s, file) ==
  run = [i \in 0 .. Len(file) |-> IF i = 0 THEN s ELSE Apply(run[i - 1], file[i])]

(* Run(s, file), a recursive function: there is one, by induction over the *)
(* length of the file.                                                     *)
LEMMA RunExists ==
  ASSUME NEW s, NEW file \in File
  PROVE  \E run : IsRun(run, s, file) /\ Run(s, file) = run[Len(file)]
<1> DEFINE Upto(n, f) == f = [i \in 0 .. n |-> IF i = 0 THEN s ELSE Apply(f[i - 1], file[i])]
           Missing == {n \in Nat : ~ \E f : Upto(n, f)}
<1>1. Missing = {}
  <2> SUFFICES ASSUME Missing # {}
               PROVE  FALSE
    OBVIOUS
  <2>1. PICK n \in Missing : \A m \in Missing : n <= m
    BY Least
  <2>2. n # 0
    <3> DEFINE f == [i \in {0} |-> s]
    <3>1. 0 .. 0 = {0} /\ \A i \in 0 .. 0 : i = 0
      OBVIOUS
    <3>2. Upto(0, f)
      BY <3>1
    <3> QED
      BY <2>1, <3>2
  <2>3. n - 1 \in Nat /\ n - 1 \notin Missing
    BY <2>1, <2>2
  <2>4. PICK f : Upto(n - 1, f)
    BY <2>3
  <2> DEFINE g == [i \in 0 .. n |-> IF i = n THEN Apply(f[n - 1], file[n]) ELSE f[i]]
  <2>5. Upto(n, g)
    <3>1. \A i \in 0 .. n :
            g[i] = IF i = 0 THEN s ELSE Apply(g[i - 1], file[i])
      <4> TAKE i \in 0 .. n
      <4>1. CASE i = n
        <5>1. g[i] = Apply(f[n - 1], file[n]) /\ n - 1 \in 0 .. n /\ n - 1 # n
          BY <2>1, <2>2, <4>1
        <5>2. g[n - 1] = f[n - 1]
          BY <5>1
        <5> QED
          BY <2>2, <4>1, <5>1, <5>2
      <4>2. CASE i # n
        <5>1. i \in 0 .. n - 1 /\ g[i] = f[i] /\ (i # 0 => i - 1 \in 0 .. n /\ i - 1 # n)
          BY <2>1, <4>2
        <5>2. i # 0 => g[i - 1] = f[i - 1]
          BY <5>1
        <5> QED
          BY <2>4, <5>1, <5>2
      <4> QED
        BY <4>1, <4>2
    <3> HIDE DEF g
    <3>2. g = [i \in 0 .. n |-> g[i]]
      BY DEF g
    <3> QED
      BY <3>1, <3>2
  <2> QED
    BY <2>1, <2>5
<1>2. Len(file) \in Nat
  BY LenProperties DEF File
<1>3. \E f : IsRun(f, s, file)
  BY <1>1, <1>2 DEF IsRun
<1> DEFINE run == CHOOSE f : IsRun(f, s, file)
<1>4. IsRun(run, s, file)
  BY <1>3
<1>5. Run(s, file) = run[Len(file)]
  BY DEF Run, IsRun
<1> QED
  BY <1>4, <1>5

(* A record more at the end of the file is one more step. *)
LEMMA RunAppend ==
  ASSUME NEW s, NEW file \in File, NEW r \in Record
  PROVE  Run(s, Append(file, r)) = Apply(Run(s, file), r)
<1> DEFINE more == Append(file, r)
<1>1. /\ more \in File /\ Len(file) \in Nat /\ Len(more) = Len(file) + 1
      /\ \A i \in 1 .. Len(file) : more[i] = file[i]
      /\ more[Len(file) + 1] = r
  BY AppendProperties, LenProperties DEF File
<1> HIDE DEF more
<1>2. PICK f : IsRun(f, s, file) /\ Run(s, file) = f[Len(file)]
  BY RunExists
<1>3. PICK g : IsRun(g, s, more) /\ Run(s, more) = g[Len(more)]
  BY <1>1, RunExists
<1> DEFINE Off == {n \in Nat : n <= Len(file) /\ f[n] # g[n]}
<1>4. Off = {}
  <2> SUFFICES ASSUME Off # {}
               PROVE  FALSE
    OBVIOUS
  <2>1. PICK n \in Off : \A m \in Off : n <= m
    BY Least
  <2>2. /\ n \in 0 .. Len(file) /\ n \in 0 .. Len(more) /\ f[n] # g[n]
        /\ f[n] = IF n = 0 THEN s ELSE Apply(f[n - 1], file[n])
        /\ g[n] = IF n = 0 THEN s ELSE Apply(g[n - 1], more[n])
    <3>1. n \in 0 .. Len(file) /\ n \in 0 .. Len(more) /\ f[n] # g[n]
      BY <1>1, <2>1
    <3>2. f[n] = IF n = 0 THEN s ELSE Apply(f[n - 1], file[n])
      BY <1>2, <3>1 DEF IsRun
    <3>3. g[n] = IF n = 0 THEN s ELSE Apply(g[n - 1], more[n])
      BY <1>3, <3>1 DEF IsRun
    <3> QED
      BY <3>1, <3>2, <3>3
  <2>3. n # 0 /\ n - 1 \in Nat /\ n \in 1 .. Len(file)
    BY <2>2
  <2>4. f[n - 1] = g[n - 1]
    BY <1>1, <2>1, <2>2, <2>3
  <2> QED
    BY <1>1, <2>2, <2>3, <2>4
<1>5. g[Len(file)] = f[Len(file)]
  BY <1>1, <1>4
<1>6. g[Len(more)] = Apply(g[Len(file)], r)
  BY <1>1, <1>3 DEF IsRun
<1> QED
  BY <1>2, <1>3, <1>5, <1>6 DEF more

(* An empty file changes nothing. *)
LEMMA RunEmpty ==
  ASSUME NEW s
  PROVE  Run(s, <<>>) = s
<1>1. <<>> \in File /\ Len(<<>>) = 0
  BY DEF File
<1>2. PICK run : IsRun(run, s, <<>>) /\ Run(s, <<>>) = run[Len(<<>>)]
  BY <1>1, RunExists
<1> QED
  BY <1>1, <1>2 DEF IsRun

-----------------------------------------------------------------------------
(* What one record does to a table that has refused nothing so far. *)
LEMMA Applied ==
  ASSUME NEW s, s.ok, NEW r \in Record, r # Length
  PROVE  /\ r.op \in {"put", "update", "del"} /\ r.key \in Key /\ r.value \in Value
         /\ r.op = "put" =>
              Apply(s, r) = [table |-> TablePut(s.table, r.key, r.value),
                             ok |-> PutAccepts(s.table, r.key)]
         /\ r.op = "update" =>
              Apply(s, r) = [table |-> TableUpdate(s.table, r.key, r.value),
                             ok |-> UpdateAccepts(s.table, r.key, r.value)]
         /\ r.op = "del" =>
              Apply(s, r) = [table |-> TableDel(s.table, r.key),
                             ok |-> DelAccepts(s.table, r.key)]
<1>1. r.op \in {"put", "update", "del"} /\ r.key \in Key /\ r.value \in Value
  BY DEF Record, Length
<1> QED
  BY <1>1 DEF Apply

(* Clients see the same of two tables with the same live entries.          *)
LEMMA ViewEqual ==
  ASSUME NEW t, NEW u
  PROVE  View(t) = View(u) <=>
           /\ Live(t) = Live(u)
           /\ \A k \in Live(t) : t.entry[k] = u.entry[k]
<1>1. ASSUME View(t) = View(u)
      PROVE  Live(t) = Live(u) /\ \A k \in Live(t) : t.entry[k] = u.entry[k]
  <2>1. Live(t) = DOMAIN View(t) /\ Live(u) = DOMAIN View(u)
    BY DEF View
  <2>2. Live(t) = Live(u)
    BY <1>1, <2>1
  <2>3. \A k \in Live(t) : View(t)[k] = t.entry[k] /\ View(u)[k] = u.entry[k]
    BY <2>2 DEF View
  <2> QED
    BY <1>1, <2>2, <2>3
<1>2. ASSUME Live(t) = Live(u), \A k \in Live(t) : t.entry[k] = u.entry[k]
      PROVE  View(t) = View(u)
  BY <1>2 DEF View
<1> QED
  BY <1>1, <1>2

(* The keys of a checkpoint: each live key once.                           *)
LEMMA SnapshotOf ==
  ASSUME NEW t \in Tables, t.size = Cardinality(Live(t))
  PROVE  /\ Snapshot(t) \in File /\ Len(Snapshot(t)) = t.size /\ t.size \in Nat
         /\ \E keys \in [1 .. t.size -> Live(t)] :
              /\ \A i, j \in 1 .. t.size : keys[i] = keys[j] => i = j
              /\ \A k \in Live(t) : \E i \in 1 .. t.size : keys[i] = k
              /\ \A i \in 1 .. t.size :
                   Snapshot(t)[i] = [op |-> "put", key |-> keys[i],
                                     value |-> t.entry[keys[i]]]
<1> DEFINE L == Live(t)
           n == Cardinality(Live(t))
           keys == SetToSeq(Live(t))
<1>1. IsFiniteSet(L) /\ n \in Nat /\ ExistsBijection(1 .. n, L)
  BY LiveFinite, FS_CardinalityType
<1>2. \E f \in [1 .. n -> L] : IsInjective(f)
  BY <1>1 DEF ExistsBijection, Bijection, Injection, IsInjective
<1>3. keys \in [1 .. n -> L] /\ IsInjective(keys)
  BY <1>2 DEF SetToSeq
<1> HIDE DEF keys
<1>4. \A i, j \in 1 .. n : keys[i] = keys[j] => i = j
  BY <1>3 DEF IsInjective
<1>5. \A k \in L : \E i \in 1 .. n : keys[i] = k
  <2>1. keys \in Injection(1 .. n, L)
    BY <1>3, <1>4 DEF Injection
  <2>2. IsFiniteSet(1 .. n) /\ Cardinality(1 .. n) = n
    BY <1>1, FS_Interval
  <2>3. keys \in Surjection(1 .. n, L)
    BY <1>1, <2>1, <2>2, FS_Injection
  <2> QED
    BY <2>3 DEF Surjection
<1>6. /\ Snapshot(t) = [i \in 1 .. n |-> [op |-> "put", key |-> keys[i],
                                          value |-> t.entry[keys[i]]]]
  BY DEF Snapshot, keys
<1>7. \A i \in 1 .. n : [op |-> "put", key |-> keys[i], value |-> t.entry[keys[i]]] \in Record
  <2> TAKE i \in 1 .. n
  <2>1. keys[i] \in Key /\ t.entry[keys[i]] \in Value
    BY <1>3 DEF Live, Present, Tables, Slot
  <2> QED
    BY <2>1 DEF Record
<1>8. Snapshot(t) \in File /\ Len(Snapshot(t)) = n
  BY <1>1, <1>6, <1>7, IsASeq, LenProperties DEF File
<1> QED
  BY <1>1, <1>3, <1>4, <1>5, <1>6, <1>8

(* u holds the first i entries of the checkpoint of t, and no others.      *)
Copied(u, t, keys, i) ==
  /\ u.ok /\ u.table \in Tables /\ u.table.size = i
  /\ \A k \in Live(u.table) : \E j \in 1 .. i : keys[j] = k
  /\ \A j \in 1 .. i : keys[j] \in Live(u.table)
                       /\ u.table.entry[keys[j]] = t.entry[keys[j]]

LEMMA CopiedNext ==
  ASSUME NEW t \in Tables, NEW n \in Nat, NEW keys \in [1 .. n -> Live(t)],
         \A i, j \in 1 .. n : keys[i] = keys[j] => i = j,
         NEW i \in 1 .. n, NEW u, Copied(u, t, keys, i - 1),
         NEW r, r = [op |-> "put", key |-> keys[i], value |-> t.entry[keys[i]]]
  PROVE  Copied(Apply(u, r), t, keys, i)
<1> DEFINE k == keys[i]
           v == t.entry[keys[i]]
           w == TablePut(u.table, k, v)
<1>1. /\ k \in Key /\ v \in Value /\ v.data # NoData
      /\ r \in Record /\ r # Length /\ r.op = "put" /\ r.key = k /\ r.value = v
  BY DEF Live, Present, Tables, Slot, Record, Length
<1>2. u.ok /\ u.table \in Tables /\ u.table.size = i - 1
  BY DEF Copied
<1>3. PutAccepts(u.table, k)
  <2>1. \A j \in 1 .. i - 1 : keys[j] # k
    OBVIOUS
  <2> QED
    BY <2>1 DEF Copied, PutAccepts
<1>4. Apply(u, r) = [table |-> w, ok |-> PutAccepts(u.table, k)]
  BY <1>1, <1>2, Applied
<1>5. /\ w \in Tables /\ Live(w) = Live(u.table) \cup {k}
      /\ w.size = i /\ w.entry = [u.table.entry EXCEPT ![k] = v]
  <2>1. w \in Tables
    BY <1>1, <1>2, PutType
  <2>2. Live(w) = Live(u.table) \cup {k}
    BY <1>1, <1>2, <1>3, PutLive
  <2>3. w.size = u.table.size + 1 /\ w.entry = [u.table.entry EXCEPT ![k] = v]
    BY <1>3 DEF TablePut
  <2> QED
    BY <1>2, <2>1, <2>2, <2>3
<1>6. u.table.entry \in [Key -> Slot]
  BY <1>2 DEF Tables
<1> HIDE DEF k, v, w
<1>7. \A h \in Live(w) : \E j \in 1 .. i : keys[j] = h
  <2>1. \A h \in Live(u.table) : \E j \in 1 .. i - 1 : keys[j] = h
    BY DEF Copied
  <2>2. keys[i] = k
    BY DEF k
  <2> QED
    BY <1>5, <2>1, <2>2
<1>8. \A j \in 1 .. i : keys[j] \in Live(w) /\ w.entry[keys[j]] = t.entry[keys[j]]
  <2> TAKE j \in 1 .. i
  <2>1. CASE j = i
    BY <1>1, <1>5, <1>6, <2>1 DEF k, v
  <2>2. CASE j # i
    <3>1. j \in 1 .. i - 1 /\ keys[j] # k /\ keys[j] \in Key
      BY <2>2 DEF k, Live, Present
    <3>2. keys[j] \in Live(u.table) /\ u.table.entry[keys[j]] = t.entry[keys[j]]
      BY <3>1 DEF Copied
    <3> QED
      BY <1>5, <1>6, <3>1, <3>2
  <2> QED
    BY <2>1, <2>2
<1>9. PICK p : p = Apply(u, r)
  OBVIOUS
<1>10. p.ok /\ p.table = w
  BY <1>3, <1>4, <1>9
<1>11. Copied(p, t, keys, i)
  BY <1>5, <1>7, <1>8, <1>10 DEF Copied
<1> QED
  BY <1>9, <1>11

(* A checkpoint holds what clients see of the table it was made of.        *)
LEMMA SnapshotReplayed ==
  ASSUME NEW t \in Tables, t.size = Cardinality(Live(t)),
         NEW u, u = Run(Fresh, Snapshot(t))
  PROVE  /\ u.ok /\ u.table \in Tables
         /\ View(u.table) = View(t)
         /\ u.table.size = Cardinality(Live(u.table))
<1> DEFINE file == Snapshot(t)
<1>1. file \in File /\ Len(file) = t.size /\ t.size \in Nat
  BY SnapshotOf
<1>2. PICK keys \in [1 .. t.size -> Live(t)] :
        /\ \A i, j \in 1 .. t.size : keys[i] = keys[j] => i = j
        /\ \A k \in Live(t) : \E i \in 1 .. t.size : keys[i] = k
        /\ \A i \in 1 .. t.size :
             file[i] = [op |-> "put", key |-> keys[i], value |-> t.entry[keys[i]]]
  BY SnapshotOf
<1> HIDE DEF file
<1>3. PICK run : IsRun(run, Fresh, file) /\ Run(Fresh, file) = run[Len(file)]
  BY <1>1, RunExists
<1> DEFINE Wrong == {i \in Nat : i <= t.size /\ ~ Copied(run[i], t, keys, i)}
<1>4. Wrong = {}
  <2> SUFFICES ASSUME Wrong # {}
               PROVE  FALSE
    OBVIOUS
  <2>1. PICK i \in Wrong : \A j \in Wrong : i <= j
    BY Least
  <2>2. i \in 0 .. Len(file) /\ ~ Copied(run[i], t, keys, i)
    BY <1>1, <2>1
  <2>3. run[i] = IF i = 0 THEN Fresh ELSE Apply(run[i - 1], file[i])
    BY <1>3, <2>2 DEF IsRun
  <2>4. CASE i = 0
    <3>1. EmptyTable \in Tables /\ Live(EmptyTable) = {} /\ EmptyTable.size = 0
      BY DEF EmptyTable, Tables, Slot, Live, Present
    <3>2. Fresh.ok /\ Fresh.table = EmptyTable
      BY DEF Fresh
    <3>3. Copied(Fresh, t, keys, 0)
      BY <3>1, <3>2 DEF Copied
    <3> QED
      BY <2>2, <2>3, <2>4, <3>3
  <2>5. CASE i # 0
    <3>1. i - 1 \in Nat /\ i \in 1 .. t.size
      BY <1>1, <2>2, <2>5
    <3>2. Copied(run[i - 1], t, keys, i - 1)
      BY <1>1, <2>1, <3>1
    <3>3. Copied(Apply(run[i - 1], file[i]), t, keys, i)
      BY <1>1, <1>2, <3>1, <3>2, CopiedNext
    <3> QED
      BY <2>2, <2>3, <2>5, <3>3
  <2> QED
    BY <2>4, <2>5
<1>5. u = run[t.size]
  BY <1>1, <1>3 DEF file
<1>6. Copied(u, t, keys, t.size)
  BY <1>1, <1>4, <1>5
<1>7. Live(u.table) = Live(t) /\ \A k \in Live(t) : u.table.entry[k] = t.entry[k]
  BY <1>2, <1>6 DEF Copied
<1>8. View(u.table) = View(t)
  BY <1>7, ViewEqual
<1> QED
  BY <1>6, <1>7, <1>8 DEF Copied

-----------------------------------------------------------------------------
(* t is what the files keep of u, for a log that l records fill: what      *)
(* clients see, and all of it if the log never fills.                      *)
Never(l) == l > MaxRequests

SameAs(l, t, u) == View(t) = View(u) /\ (Never(l) => t.entry = u.entry)

(* size counts the entries as long as the log can fill. *)
Sound(l, t) == ~ Never(l) => t.size = Cardinality(Live(t))

(* A put that the table in memory accepted is accepted in recovery.        *)
LEMMA PutSame ==
  ASSUME NEW l, NEW t \in Tables, NEW u \in Tables, SameAs(l, t, u), Sound(l, t),
         NEW k \in Key, NEW v \in PutValue, PutAccepts(u, k)
  PROVE  /\ PutAccepts(t, k)
         /\ TablePut(t, k, v) \in Tables /\ Sound(l, TablePut(t, k, v))
         /\ SameAs(l, TablePut(t, k, v), TablePut(u, k, v))
         /\ Live(TablePut(u, k, v)) # {}
<1> DEFINE tt == TablePut(t, k, v)
           uu == TablePut(u, k, v)
<1>1. /\ Live(t) = Live(u) /\ \A h \in Live(t) : t.entry[h] = u.entry[h]
      /\ Never(l) => t.entry = u.entry
  BY ViewEqual DEF SameAs
<1>2. PutAccepts(t, k) /\ v \in Value /\ v.data # NoData
  BY <1>1 DEF PutAccepts, PutValue
<1>3. /\ tt \in Tables /\ Live(tt) = Live(t) \cup {k} /\ Live(uu) = Live(u) \cup {k}
      /\ Cardinality(Live(tt)) = Cardinality(Live(t)) + 1
  BY <1>2, PutType, PutLive
<1>4. /\ tt.entry = [t.entry EXCEPT ![k] = v] /\ tt.size = t.size + 1
      /\ uu.entry = [u.entry EXCEPT ![k] = v]
  BY <1>2 DEF TablePut
<1> HIDE DEF tt, uu
<1>5. Sound(l, tt)
  BY <1>3, <1>4 DEF Sound
<1>6. \A h \in Live(tt) : tt.entry[h] = uu.entry[h]
  <2>1. t.entry \in [Key -> Slot] /\ u.entry \in [Key -> Slot]
    BY DEF Tables
  <2>2. Live(t) \subseteq Key
    BY DEF Live, Present
  <2> QED
    BY <1>1, <1>3, <1>4, <2>1, <2>2
<1>7. View(tt) = View(uu)
  BY <1>1, <1>3, <1>6, ViewEqual
<1>8. SameAs(l, tt, uu)
  BY <1>1, <1>4, <1>7 DEF SameAs
<1> QED
  BY <1>2, <1>3, <1>5, <1>8 DEF tt, uu

(* The same of an update, where the log can fill only of a live key with a *)
(* newer stamp.                                                            *)
LEMMA UpdateSame ==
  ASSUME NEW l, NEW t \in Tables, NEW u \in Tables, SameAs(l, t, u), Sound(l, t),
         NEW k \in Key, NEW v \in Value, UpdateAccepts(u, k, v),
         Never(l) \/ k \in Live(u)
  PROVE  /\ UpdateAccepts(t, k, v)
         /\ TableUpdate(t, k, v) \in Tables /\ Sound(l, TableUpdate(t, k, v))
         /\ SameAs(l, TableUpdate(t, k, v), TableUpdate(u, k, v))
<1> DEFINE tt == TableUpdate(t, k, v)
           uu == TableUpdate(u, k, v)
<1>1. /\ Live(t) = Live(u) /\ \A h \in Live(t) : t.entry[h] = u.entry[h]
      /\ Never(l) => t.entry = u.entry
  BY ViewEqual DEF SameAs
<1>2. UpdateAccepts(t, k, v)
  <2>1. CASE Never(l)
    BY <1>1, <2>1 DEF UpdateAccepts, Present
  <2>2. CASE k \in Live(u)
    BY <1>1, <2>2 DEF UpdateAccepts, Live
  <2> QED
    BY <2>1, <2>2
<1>3. /\ tt \in Tables
      /\ Live(tt) = IF v.data = NoData THEN Live(t) \ {k} ELSE Live(t) \cup {k}
      /\ Live(uu) = IF v.data = NoData THEN Live(u) \ {k} ELSE Live(u) \cup {k}
  BY <1>2, UpdateType, UpdateLive
<1>4. /\ tt.entry = [t.entry EXCEPT ![k] = v]
      /\ tt.size = IF v.data = NoData THEN t.size - 1 ELSE t.size
      /\ uu.entry = [u.entry EXCEPT ![k] = v]
  BY <1>2 DEF TableUpdate
<1> HIDE DEF tt, uu
<1>5. Sound(l, tt)
  <2> SUFFICES ASSUME ~ Never(l)
               PROVE  tt.size = Cardinality(Live(tt))
    BY DEF Sound
  <2>1. k \in Live(t) /\ t.size = Cardinality(Live(t)) /\ IsFiniteSet(Live(t))
    BY <1>1, LiveFinite DEF Sound
  <2>2. CASE v.data = NoData
    <3>1. Cardinality(Live(t) \ {k}) = Cardinality(Live(t)) - 1
      BY <2>1, FS_RemoveElement
    <3>2. Live(tt) = Live(t) \ {k} /\ tt.size = t.size - 1
      BY <1>3, <1>4, <2>2
    <3> QED
      BY <2>1, <3>1, <3>2
  <2>3. CASE v.data # NoData
    <3>1. Live(t) \cup {k} = Live(t)
      BY <2>1
    <3> QED
      BY <1>3, <1>4, <2>1, <2>3, <3>1
  <2> QED
    BY <2>2, <2>3
<1>6. \A h \in Live(tt) : tt.entry[h] = uu.entry[h]
  <2>1. t.entry \in [Key -> Slot] /\ u.entry \in [Key -> Slot]
    BY DEF Tables
  <2>2. Live(t) \subseteq Key
    BY DEF Live, Present
  <2> QED
    BY <1>1, <1>3, <1>4, <2>1, <2>2
<1>7. View(tt) = View(uu)
  <2>1. Live(tt) = Live(uu)
    BY <1>1, <1>3
  <2> QED
    BY <1>6, <2>1, ViewEqual
<1>8. SameAs(l, tt, uu)
  BY <1>1, <1>4, <1>7 DEF SameAs
<1> QED
  BY <1>2, <1>3, <1>5, <1>8 DEF tt, uu

(* The same of OC_DEL, which only a log that never fills can hold.         *)
LEMMA DelSame ==
  ASSUME NEW l, NEW t \in Tables, NEW u \in Tables, SameAs(l, t, u),
         NEW k \in Key, DelAccepts(u, k), Never(l)
  PROVE  /\ DelAccepts(t, k)
         /\ TableDel(t, k) \in Tables /\ Sound(l, TableDel(t, k))
         /\ SameAs(l, TableDel(t, k), TableDel(u, k))
<1>1. t.entry = u.entry
  BY DEF SameAs
<1>2. DelAccepts(t, k) /\ TableDel(t, k).entry = TableDel(u, k).entry
  BY <1>1 DEF DelAccepts, Present, TableDel
<1>3. View(TableDel(t, k)) = View(TableDel(u, k))
  BY <1>2 DEF View, Live, Present
<1> QED
  BY <1>2, <1>3, DelType DEF SameAs, Sound

(* What a refused request leaves. *)
LEMMA RefusedSame ==
  ASSUME NEW u \in Tables, NEW k \in Key, NEW v \in Value
  PROVE  /\ ~ PutAccepts(u, k) => /\ TablePut(u, k, v).entry = u.entry
                                  /\ TablePut(u, k, v).size = u.size
         /\ ~ UpdateAccepts(u, k, v) => TableUpdate(u, k, v) = u
         /\ ~ DelAccepts(u, k) => /\ TableDel(u, k).entry = u.entry
                                  /\ TableDel(u, k).size = u.size
<1>1. u.entry \in [Key -> Slot]
  BY DEF Tables
<1>2. ~ PutAccepts(u, k) => /\ TablePut(u, k, v).entry = u.entry
                            /\ TablePut(u, k, v).size = u.size
  BY DEF TablePut, Tables
<1>3. ~ UpdateAccepts(u, k, v) => TableUpdate(u, k, v) = u
  BY DEF TableUpdate
<1>4. ~ DelAccepts(u, k) => /\ TableDel(u, k).entry = u.entry
                            /\ TableDel(u, k).size = u.size
  BY <1>1 DEF TableDel, DelAccepts, Present
<1> QED
  BY <1>2, <1>3, <1>4

(* One entry more or less does not matter to the others. *)
LEMMA OneKey ==
  ASSUME NEW t \in Tables, NEW u \in Tables, NEW k \in Key,
         \A h \in Key \ {k} : u.entry[h] = t.entry[h]
  PROVE  \A h \in Key \ {k} :
           /\ h \in DOMAIN View(u) <=> h \in DOMAIN View(t)
           /\ h \in DOMAIN View(t) => View(u)[h] = View(t)[h]
BY DEF View, Live, Present

(* What clients see is a function from some keys to values. *)
LEMMA ViewType ==
  ASSUME NEW t \in Tables
  PROVE  View(t) \in [Live(t) -> PutValue] /\ Live(t) \in SUBSET Key
BY DEF View, Live, Present, Tables, Slot, PutValue

-----------------------------------------------------------------------------
(* The inductive invariant.                                                *)

(* A recovery that went to the end of the files. *)
Good(l, s) == s.ok /\ s.table \in Tables /\ Sound(l, s.table)

(* The files with the record that is about to be logged. *)
Logged == Apply(Recovered, pending)

(* Memory, program counter and counters. *)
ServerInv ==
  /\ pc \notin {"refused", "undefined"}
  /\ Sound(logsize, mem)
  /\ pc = "serving" => promised = View(mem)
  /\ pc = "log" => pending # NoRecord /\ (pending.op = "put" => Live(mem) # {})
  /\ Checkpointing => stt \in File
  /\ pc = "body" => snapshot # <<>>
  /\ requests <= MaxRequests

(* A log that never fills leads to no checkpoint. *)
NeverInv ==
  Never(logsize) =>
    /\ ~ Checkpointing
    /\ chk = NoFile /\ stt = NoFile /\ hits = 0
    /\ Len(log) <= requests
    /\ pc = "log" => Len(log) < requests

(* The crash that hits a checkpoint is the last one: after it no recovery  *)
(* needs the files any more.                                               *)
InScope == hits = 0 \/ pc = "down"

(* What the files say at each point of the program. *)
FileInv ==
  /\ \A i \in 1 .. Len(log) : log[i] # Length
  /\ Good(logsize, Recovered)
  /\ pc = "serving" => SameAs(logsize, Recovered.table, mem)
  /\ pc = "log" =>
       /\ View(Recovered.table) = promised
       /\ Good(logsize, Logged) /\ SameAs(logsize, Logged.table, mem)
  /\ Checkpointing => View(Recovered.table) = View(mem)
  /\ Checkpointing => mem.size = Cardinality(Live(mem))
  /\ pc \in {"store", "body"} => log # <<>>
  /\ pc = "store" => stt \o snapshot = Snapshot(mem)
  /\ pc = "body" => Front(stt) \o snapshot = Snapshot(mem)
  /\ pc \in {"rotate", "copy", "copied"} => log = <<>> /\ stt = Snapshot(mem)
  /\ pc = "copied" => chk = stt
  /\ pc = "down" => View(Recovered.table) \in {promised, View(mem)}
  /\ hits = 0 /\ ~ Checkpointing => stt = NoFile

IInv == TypeOK /\ ServerInv /\ NeverInv /\ (InScope => FileInv)

LEMMA InvAtStart == Init => IInv
<1> SUFFICES ASSUME Init
             PROVE  IInv
  OBVIOUS
<1>1. /\ pc = "serving" /\ mem = EmptyTable /\ log = <<>> /\ stt = NoFile
      /\ chk = NoFile /\ pending = NoRecord /\ snapshot = <<>>
      /\ promised = View(EmptyTable) /\ logsize \in LogSizes
      /\ requests = 0 /\ crashes = 0 /\ hits = 0
  BY DEF Init
<1>2. EmptyTable \in Tables /\ Live(EmptyTable) = {} /\ EmptyTable.size = 0
  BY DEF EmptyTable, Tables, Slot, Live, Present
<1>3. TypeOK
  BY <1>1, <1>2 DEF TypeOK, File, NoRecord, Length, Record
<1>4. Sound(logsize, EmptyTable)
  BY <1>2, FS_EmptySet DEF Sound
<1>5. ServerInv /\ NeverInv
  BY <1>1, <1>4, PersistenceAssumption DEF ServerInv, NeverInv, Checkpointing
<1>6. Recovered = Fresh
  BY <1>1, RunEmpty DEF Recovered, Replay
<1>7. Good(logsize, Recovered) /\ Recovered.table = EmptyTable
  BY <1>2, <1>4, <1>6 DEF Good, Fresh
<1>8. FileInv
  BY <1>1, <1>7 DEF FileInv, SameAs, Checkpointing
<1> QED
  BY <1>3, <1>5, <1>8 DEF IInv

(* A request: accepted, it is a change the files can follow; refused, it   *)
(* is none.                                                                *)
LEMMA RequestStep ==
  ASSUME IInv, NEW op \in {"put", "update", "del"}, NEW k \in Key, NEW v \in Value,
         NEW accepted, NEW t \in Tables, Request(op, k, v, accepted, t),
         ~ accepted => t.entry = mem.entry /\ t.size = mem.size,
         accepted => Sound(logsize, t) /\ (op = "put" => Live(t) # {}),
         accepted /\ InScope =>
           LET s == Apply(Recovered, [op |-> op, key |-> k, value |-> v])
           IN  Good(logsize, s) /\ SameAs(logsize, s.table, t)
  PROVE  IInv'
<1> DEFINE r == [op |-> op, key |-> k, value |-> v]
<1>1. /\ pc = "serving" /\ requests < MaxRequests /\ requests' = requests + 1
      /\ mem' = t /\ log' = log /\ stt' = stt /\ chk' = chk
      /\ snapshot' = snapshot /\ promised' = promised /\ logsize' = logsize
      /\ crashes' = crashes /\ hits' = hits
      /\ accepted => pc' = "log" /\ pending' = r
      /\ ~ accepted => pc' = "serving" /\ pending' = pending
  BY DEF Request, disk
<1>2. TypeOK /\ ServerInv /\ NeverInv /\ (InScope => FileInv)
  BY DEF IInv
<1>3. r \in Record /\ r # NoRecord /\ r.op = op
  BY DEF Record, NoRecord, Length
<1> HIDE DEF r
<1>4. ~ accepted => Live(t) = Live(mem) /\ View(t) = View(mem)
  BY DEF View, Live, Present
<1>5. TypeOK'
  BY <1>1, <1>2, <1>3 DEF TypeOK
<1>6. ServerInv'
  <2>1. Sound(logsize, t)
    BY <1>2, <1>4 DEF Sound, ServerInv
  <2>2. pc' = "serving" => promised' = View(mem')
    BY <1>1, <1>2, <1>4 DEF ServerInv
  <2>3. pc' \in {"serving", "log"} /\ ~ Checkpointing'
    BY <1>1 DEF Checkpointing
  <2>4. requests' <= MaxRequests
    BY <1>1, <1>2, PersistenceAssumption DEF TypeOK
  <2>5. pc' = "log" => pending' # NoRecord /\ (pending'.op = "put" => Live(mem') # {})
    BY <1>1, <1>3
  <2> QED
    BY <1>1, <2>1, <2>2, <2>3, <2>4, <2>5 DEF ServerInv
<1>7. NeverInv'
  <2> SUFFICES ASSUME Never(logsize)
               PROVE  /\ ~ Checkpointing' /\ chk' = NoFile /\ stt' = NoFile /\ hits' = 0
                      /\ Len(log') <= requests'
                      /\ pc' = "log" => Len(log') < requests'
    BY <1>1 DEF NeverInv
  <2>1. /\ chk = NoFile /\ stt = NoFile /\ hits = 0 /\ Len(log) <= requests
        /\ Len(log) \in Nat /\ requests \in Nat
    BY <1>2, LenProperties DEF NeverInv, TypeOK, File
  <2> QED
    BY <1>1, <2>1 DEF Checkpointing
<1>8. ASSUME InScope'
      PROVE  FileInv'
  <2>1. hits = 0 /\ FileInv
    BY <1>1, <1>2, <1>8 DEF InScope
  <2>2. Recovered' = Recovered
    BY <1>1 DEF Recovered
  <2>3. /\ \A i \in 1 .. Len(log) : log[i] # Length
        /\ Good(logsize, Recovered) /\ SameAs(logsize, Recovered.table, mem)
        /\ stt = NoFile /\ promised = View(mem)
    BY <1>1, <1>2, <2>1 DEF FileInv, Checkpointing, ServerInv
  <2>4. CASE accepted
    <3>1. Logged' = Apply(Recovered, r)
      BY <1>1, <2>2, <2>4 DEF Logged
    <3>2. Good(logsize, Apply(Recovered, r)) /\ SameAs(logsize, Apply(Recovered, r).table, t)
      BY <2>1, <2>4 DEF InScope, r
    <3>3. View(Recovered.table) = promised
      BY <2>3 DEF SameAs
    <3> QED
      BY <1>1, <2>2, <2>3, <2>4, <3>1, <3>2, <3>3 DEF FileInv, Checkpointing
  <2>5. CASE ~ accepted
    <3>1. SameAs(logsize, Recovered.table, t)
      BY <1>4, <2>3, <2>5 DEF SameAs
    <3> QED
      BY <1>1, <2>2, <2>3, <2>5, <3>1 DEF FileInv, Checkpointing
  <2> QED
    BY <2>4, <2>5
<1> QED
  BY <1>5, <1>6, <1>7, <1>8 DEF IInv

(* The files keep what is in memory before a request. *)
LEMMA Serving ==
  ASSUME IInv, pc = "serving"
  PROVE  /\ mem \in Tables /\ Sound(logsize, mem)
         /\ SameAs(logsize, mem, mem)
         /\ InScope => /\ Good(logsize, Recovered)
                       /\ SameAs(logsize, Recovered.table, mem)
BY DEF IInv, TypeOK, ServerInv, FileInv, SameAs

LEMMA PutStep ==
  ASSUME IInv, NEW k \in Key, NEW v \in PutValue, Put(k, v)
  PROVE  IInv'
<1> DEFINE t == TablePut(mem, k, v)
           r == [op |-> "put", key |-> k, value |-> v]
<1>1. Request("put", k, v, PutAccepts(mem, k), t) /\ pc = "serving" /\ v \in Value
  BY DEF Put, Request, PutValue
<1>2. t \in Tables
  BY <1>1, Serving, PutType
<1>3. ~ PutAccepts(mem, k) => t.entry = mem.entry /\ t.size = mem.size
  BY <1>1, Serving, RefusedSame
<1>4. PutAccepts(mem, k) => Sound(logsize, t) /\ Live(t) # {}
  BY <1>1, Serving, PutSame
<1>5. ASSUME PutAccepts(mem, k), InScope
      PROVE  Good(logsize, Apply(Recovered, r))
             /\ SameAs(logsize, Apply(Recovered, r).table, t)
  <2> DEFINE b == Recovered.table
  <2>1. Recovered.ok /\ b \in Tables /\ Sound(logsize, b) /\ SameAs(logsize, b, mem)
        /\ mem \in Tables
    BY <1>1, <1>5, Serving DEF Good
  <2>2. r \in Record /\ r # Length /\ r.op = "put" /\ r.key = k /\ r.value = v
    BY <1>1 DEF Record, Length
  <2>3. Apply(Recovered, r) = [table |-> TablePut(b, k, v), ok |-> PutAccepts(b, k)]
    BY <2>1, <2>2, Applied
  <2>4. /\ PutAccepts(b, k) /\ TablePut(b, k, v) \in Tables
        /\ Sound(logsize, TablePut(b, k, v)) /\ SameAs(logsize, TablePut(b, k, v), t)
    BY <1>5, <2>1, PutSame
  <2>5. Apply(Recovered, r).ok /\ Apply(Recovered, r).table = TablePut(b, k, v)
    BY <2>3, <2>4
  <2> QED
    BY <2>4, <2>5 DEF Good
<1> HIDE DEF t
<1> QED
  BY <1>1, <1>2, <1>3, <1>4, <1>5, RequestStep

LEMMA UpdateStep ==
  ASSUME IInv, NEW k \in Key, NEW v \in Value, Update(k, v)
  PROVE  IInv'
<1> DEFINE t == TableUpdate(mem, k, v)
           r == [op |-> "update", key |-> k, value |-> v]
<1>1. /\ Request("update", k, v, UpdateAccepts(mem, k, v), t) /\ pc = "serving"
      /\ Never(logsize) \/ k \in Live(mem)
  BY DEF Update, Request, NeverFull, Never
<1>2. t \in Tables
  BY <1>1, Serving, UpdateType
<1>3. ~ UpdateAccepts(mem, k, v) => t.entry = mem.entry /\ t.size = mem.size
  BY <1>1, Serving, RefusedSame
<1>4. UpdateAccepts(mem, k, v) => Sound(logsize, t)
  BY <1>1, Serving, UpdateSame
<1>5. ASSUME UpdateAccepts(mem, k, v), InScope
      PROVE  Good(logsize, Apply(Recovered, r))
             /\ SameAs(logsize, Apply(Recovered, r).table, t)
  <2> DEFINE b == Recovered.table
  <2>1. Recovered.ok /\ b \in Tables /\ Sound(logsize, b) /\ SameAs(logsize, b, mem)
        /\ mem \in Tables
    BY <1>1, <1>5, Serving DEF Good
  <2>2. r \in Record /\ r # Length /\ r.op = "update" /\ r.key = k /\ r.value = v
    BY DEF Record, Length
  <2>3. Apply(Recovered, r) =
          [table |-> TableUpdate(b, k, v), ok |-> UpdateAccepts(b, k, v)]
    BY <2>1, <2>2, Applied
  <2>4. /\ UpdateAccepts(b, k, v) /\ TableUpdate(b, k, v) \in Tables
        /\ Sound(logsize, TableUpdate(b, k, v))
        /\ SameAs(logsize, TableUpdate(b, k, v), t)
    BY <1>1, <1>5, <2>1, UpdateSame
  <2>5. Apply(Recovered, r).ok /\ Apply(Recovered, r).table = TableUpdate(b, k, v)
    BY <2>3, <2>4
  <2> QED
    BY <2>4, <2>5 DEF Good
<1> HIDE DEF t
<1> QED
  BY <1>1, <1>2, <1>3, <1>4, <1>5, RequestStep

LEMMA DelStep ==
  ASSUME IInv, NEW k \in Key, NEW v \in Value, Del(k, v)
  PROVE  IInv'
<1> DEFINE t == TableDel(mem, k)
           r == [op |-> "del", key |-> k, value |-> v]
<1>1. /\ Request("del", k, v, DelAccepts(mem, k), t) /\ pc = "serving"
      /\ Never(logsize)
  BY DEF Del, Request, NeverFull, Never
<1>2. t \in Tables
  BY <1>1, Serving, DelType
<1>3. ~ DelAccepts(mem, k) => t.entry = mem.entry /\ t.size = mem.size
  BY <1>1, Serving, RefusedSame
<1>4. DelAccepts(mem, k) => Sound(logsize, t)
  BY <1>1 DEF Sound
<1>5. ASSUME DelAccepts(mem, k), InScope
      PROVE  Good(logsize, Apply(Recovered, r))
             /\ SameAs(logsize, Apply(Recovered, r).table, t)
  <2> DEFINE b == Recovered.table
  <2>1. Recovered.ok /\ b \in Tables /\ SameAs(logsize, b, mem) /\ mem \in Tables
    BY <1>1, <1>5, Serving DEF Good
  <2>2. r \in Record /\ r # Length /\ r.op = "del" /\ r.key = k
    BY DEF Record, Length
  <2>3. Apply(Recovered, r) = [table |-> TableDel(b, k), ok |-> DelAccepts(b, k)]
    BY <2>1, <2>2, Applied
  <2>4. /\ DelAccepts(b, k) /\ TableDel(b, k) \in Tables
        /\ Sound(logsize, TableDel(b, k)) /\ SameAs(logsize, TableDel(b, k), t)
    BY <1>1, <1>5, <2>1, DelSame
  <2>5. Apply(Recovered, r).ok /\ Apply(Recovered, r).table = TableDel(b, k)
    BY <2>3, <2>4
  <2> QED
    BY <2>4, <2>5 DEF Good
<1> HIDE DEF t
<1> QED
  BY <1>1, <1>2, <1>3, <1>4, <1>5, RequestStep

(* The log is replayed on chk, unless a whole checkpoint is left. *)
LEMMA LogReplayed ==
  ASSUME NEW f \in File, \A i \in 1 .. Len(f) : f[i] # Length, NEW s
  PROVE  Replay(s, f) = Run(s, f)
<1>1. f # <<>> => Last(f) # Length
  BY LenProperties, EmptySeq DEF File, Last
<1> QED
  BY <1>1 DEF Replay

(* pmanager_log. *)
LEMMA WriteLogStep ==
  ASSUME IInv, WriteLog
  PROVE  IInv' /\ pc' \in {"serving", "store"}
<1>1. /\ pc = "log" /\ log' = Append(log, pending) /\ pending' = NoRecord
      /\ mem' = mem /\ chk' = chk /\ logsize' = logsize /\ requests' = requests
      /\ crashes' = crashes /\ hits' = hits
  BY DEF WriteLog, bounds
<1>2. TypeOK /\ ServerInv /\ NeverInv /\ (InScope => FileInv)
  BY DEF IInv
<1>3. /\ log \in Seq(Record) /\ pending \in Record /\ pending # Length
      /\ Len(log) \in Nat /\ mem \in Tables /\ requests \in Nat /\ logsize \in Nat
  BY <1>1, <1>2, LenProperties, PersistenceAssumption
     DEF TypeOK, File, ServerInv, NoRecord
<1>4. /\ log' \in Seq(Record) /\ log' # <<>> /\ Len(log') = Len(log) + 1
      /\ \A i \in 1 .. Len(log) : log'[i] = log[i]
      /\ log'[Len(log) + 1] = pending
  BY <1>1, <1>3, AppendProperties
<1> DEFINE full == pending.op = "put" /\ Len(log') >= logsize
<1>5. ~ full => /\ pc' = "serving" /\ promised' = View(mem')
                /\ stt' = stt /\ snapshot' = snapshot
  BY <1>3, <1>4 DEF WriteLog, Acknowledge
<1>6. ASSUME full
      PROVE  /\ ~ Never(logsize) /\ mem.size = Cardinality(Live(mem))
             /\ SnapshotDefined(mem)
             /\ pc' = "store" /\ snapshot' = Snapshot(mem) /\ promised' = promised
             /\ stt' = IF stt = NoFile THEN <<>> ELSE stt
  <2>1. ~ Never(logsize)
    BY <1>1, <1>2, <1>3, <1>4, <1>6, PersistenceAssumption
       DEF NeverInv, Never, ServerInv
  <2>2. mem.size = Cardinality(Live(mem))
    BY <1>2, <2>1 DEF ServerInv, Sound
  <2>3. Cardinality(Live(mem)) \in Nat /\ Cardinality(Live(mem)) # 0
    <3>1. IsFiniteSet(Live(mem)) /\ Cardinality(Live(mem)) \in Nat
      BY <1>3, LiveFinite
    <3>2. Live(mem) # {}
      BY <1>1, <1>2, <1>6 DEF ServerInv
    <3> QED
      BY <3>1, <3>2, FS_EmptySet
  <2>4. SnapshotDefined(mem)
    BY <2>2, <2>3 DEF SnapshotDefined
  <2> QED
    BY <1>3, <1>4, <1>6, <2>1, <2>2, <2>4 DEF WriteLog
<1>7. stt' \in File \cup {NoFile} /\ (full => stt' \in File)
  BY <1>2, <1>5, <1>6, EmptySeq DEF TypeOK, File
<1>8. snapshot' \in File
  BY <1>2, <1>3, <1>5, <1>6, SnapshotOf DEF TypeOK
<1>9. TypeOK'
  <2>1. pending' \in Record
    BY <1>1 DEF NoRecord, Length, Record
  <2> QED
    BY <1>1, <1>2, <1>4, <1>5, <1>6, <1>7, <1>8, <2>1 DEF TypeOK, File
<1> HIDE DEF full
<1>10. ServerInv'
  BY <1>1, <1>2, <1>5, <1>6, <1>7 DEF ServerInv, Checkpointing
<1>11. NeverInv'
  BY <1>1, <1>2, <1>3, <1>4, <1>5, <1>6 DEF NeverInv, Checkpointing
<1>12. ASSUME InScope'
       PROVE  FileInv'
  <2>1. hits = 0 /\ FileInv
    BY <1>1, <1>2, <1>5, <1>6, <1>12 DEF InScope
  <2>2. /\ \A i \in 1 .. Len(log) : log[i] # Length
        /\ Good(logsize, Logged) /\ SameAs(logsize, Logged.table, mem)
        /\ stt = NoFile
    BY <1>1, <2>1 DEF FileInv, Checkpointing
  <2>3. \A i \in 1 .. Len(log') : log'[i] # Length
    BY <1>3, <1>4, <2>2
  <2>4. Recovered' = Logged
    <3> DEFINE base == IF chk = NoFile THEN Fresh ELSE Replay(Fresh, chk)
    <3>1. Recovered = Run(base, log)
      BY <1>3, <2>2, LogReplayed DEF Recovered, File
    <3>2. Recovered' = Run(base, log')
      BY <1>1, <1>4, <2>3, LogReplayed DEF Recovered, File
    <3> HIDE DEF base
    <3> QED
      BY <1>1, <1>3, <3>1, <3>2, RunAppend DEF Logged, File
  <2>5. CASE full
    <3>1. stt' = <<>> /\ snapshot' = Snapshot(mem) /\ Snapshot(mem) \in Seq(Record)
      BY <1>3, <1>6, <2>2, <2>5, SnapshotOf DEF File
    <3>2. stt' \o snapshot' = Snapshot(mem)
      BY <3>1, ConcatEmptySeq
    <3>3. View(Recovered'.table) = View(mem)
      BY <2>2, <2>4 DEF SameAs
    <3> QED
      BY <1>1, <1>4, <1>6, <2>2, <2>3, <2>4, <2>5, <3>2, <3>3
         DEF FileInv, Checkpointing
  <2>6. CASE ~ full
    BY <1>1, <1>5, <2>2, <2>3, <2>4, <2>6 DEF FileInv, Checkpointing
  <2> QED
    BY <2>5, <2>6
<1> QED
  BY <1>5, <1>6, <1>9, <1>10, <1>11, <1>12 DEF IInv

(* The checkpoint.  stt is written behind a log that still holds all, and  *)
(* the log is removed once stt is complete.                                *)
LEMMA StoreLengthStep ==
  ASSUME IInv, StoreLength
  PROVE  IInv'
<1>1. /\ pc = "store" /\ snapshot # <<>> /\ stt' = Append(stt, Length) /\ pc' = "body"
      /\ mem' = mem /\ log' = log /\ chk' = chk /\ pending' = pending
      /\ snapshot' = snapshot /\ promised' = promised /\ logsize' = logsize
      /\ requests' = requests /\ crashes' = crashes /\ hits' = hits
  BY DEF StoreLength, bounds
<1>2. TypeOK /\ ServerInv /\ NeverInv /\ (InScope => FileInv)
  BY DEF IInv
<1>3. stt \in Seq(Record) /\ Length \in Record
  BY <1>1, <1>2 DEF ServerInv, Checkpointing, File, Length, Record
<1>4. stt' \in File /\ Front(stt') = stt
  <2>1. /\ stt' \in Seq(Record) /\ Len(stt') = Len(stt) + 1 /\ Len(stt) \in Nat
        /\ \A j \in 1 .. Len(stt) : stt'[j] = stt[j]
    BY <1>1, <1>3, AppendProperties, LenProperties
  <2>2. /\ SubSeq(stt', 1, Len(stt)) \in Seq(Record)
        /\ Len(SubSeq(stt', 1, Len(stt))) = Len(stt)
        /\ \A j \in 1 .. Len(stt) : SubSeq(stt', 1, Len(stt))[j] = stt'[j]
    BY <2>1, SubSeqProperties
  <2>3. SubSeq(stt', 1, Len(stt)) = stt
    BY <1>3, <2>1, <2>2, SeqEqual
  <2>4. Len(stt') - 1 = Len(stt)
    BY <2>1
  <2> QED
    BY <2>1, <2>3, <2>4 DEF Front, File
<1>5. TypeOK'
  BY <1>1, <1>2, <1>4 DEF TypeOK
<1>6. ServerInv' /\ NeverInv'
  BY <1>1, <1>2, <1>4 DEF ServerInv, NeverInv, Checkpointing
<1>7. ASSUME InScope'
      PROVE  FileInv'
  <2>1. InScope
    BY <1>1, <1>7 DEF InScope
  <2>2. Recovered' = Recovered
    BY <1>1, <1>2, <2>1 DEF Recovered, FileInv
  <2> QED
    BY <1>1, <1>2, <1>4, <2>1, <2>2 DEF FileInv, Checkpointing
<1> QED
  BY <1>5, <1>6, <1>7 DEF IInv

LEMMA StoreBodyStep ==
  ASSUME IInv, StoreBody
  PROVE  IInv'
<1>1. /\ pc = "body" /\ stt' = Append(Front(stt), Head(snapshot)) /\ pc' = "store"
      /\ snapshot' = Tail(snapshot)
      /\ mem' = mem /\ log' = log /\ chk' = chk /\ pending' = pending
      /\ promised' = promised /\ logsize' = logsize
      /\ requests' = requests /\ crashes' = crashes /\ hits' = hits
  BY DEF StoreBody, bounds
<1>2. TypeOK /\ ServerInv /\ NeverInv /\ (InScope => FileInv)
  BY DEF IInv
<1> DEFINE f == Front(stt)
<1>3. /\ f \in Seq(Record) /\ snapshot \in Seq(Record) /\ snapshot # <<>>
  <2>1. stt \in Seq(Record) /\ Len(stt) \in Nat
    BY <1>1, <1>2, LenProperties DEF ServerInv, Checkpointing, File
  <2>2. \A j \in 1 .. Len(stt) - 1 : stt[j] \in Record
    BY <2>1, ElementOfSeq
  <2> QED
    BY <1>1, <1>2, <2>1, <2>2, SubSeqProperties DEF Front, ServerInv, TypeOK, File
<1>4. Head(snapshot) \in Record /\ Tail(snapshot) \in Seq(Record)
      /\ snapshot = <<Head(snapshot)>> \o Tail(snapshot)
  BY <1>3, HeadTailProperties, ConcatProperties
<1> HIDE DEF f
<1>5. stt' \in File /\ stt' \o snapshot' = f \o snapshot
  <2>1. Append(f, Head(snapshot)) = f \o <<Head(snapshot)>>
    BY <1>3, <1>4, AppendIsConcat
  <2>2. <<Head(snapshot)>> \in Seq(Record)
    BY <1>4
  <2>3. (f \o <<Head(snapshot)>>) \o Tail(snapshot)
          = f \o (<<Head(snapshot)>> \o Tail(snapshot))
    BY <1>3, <1>4, <2>2, ConcatAssociative
  <2>4. Append(f, Head(snapshot)) \in Seq(Record)
    BY <1>3, <1>4, AppendProperties
  <2> QED
    BY <1>1, <1>4, <2>1, <2>3, <2>4 DEF f, File
<1>6. TypeOK'
  BY <1>1, <1>2, <1>4, <1>5 DEF TypeOK, File
<1>7. ServerInv' /\ NeverInv'
  BY <1>1, <1>2, <1>5 DEF ServerInv, NeverInv, Checkpointing
<1>8. ASSUME InScope'
      PROVE  FileInv'
  <2>1. InScope
    BY <1>1, <1>8 DEF InScope
  <2>2. Recovered' = Recovered
    BY <1>1, <1>2, <2>1 DEF Recovered, FileInv
  <2>3. stt' \o snapshot' = Snapshot(mem')
    BY <1>1, <1>2, <1>5, <2>1 DEF FileInv, f
  <2> QED
    BY <1>1, <1>2, <2>1, <2>2, <2>3 DEF FileInv, Checkpointing
<1> QED
  BY <1>6, <1>7, <1>8 DEF IInv

(* A complete checkpoint, read from stt or from chk. *)
LEMMA CheckpointGood ==
  ASSUME NEW l, NEW t \in Tables, t.size = Cardinality(Live(t)),
         NEW s, s = Replay(Fresh, Snapshot(t))
  PROVE  Good(l, s) /\ View(s.table) = View(t)
<1>1. Snapshot(t) \in File /\ \A i \in 1 .. Len(Snapshot(t)) : Snapshot(t)[i] # Length
  <2>1. PICK keys \in [1 .. t.size -> Live(t)] :
          \A i \in 1 .. t.size :
            Snapshot(t)[i] = [op |-> "put", key |-> keys[i], value |-> t.entry[keys[i]]]
    BY SnapshotOf
  <2>2. ASSUME NEW i \in 1 .. t.size
        PROVE  Snapshot(t)[i].op = "put"
    <3>1. Snapshot(t)[i] = [op |-> "put", key |-> keys[i], value |-> t.entry[keys[i]]]
      BY <2>1
    <3> QED
      BY <3>1
  <2> QED
    BY <2>2, SnapshotOf DEF Length
<1>2. s = Run(Fresh, Snapshot(t))
  BY <1>1, LogReplayed
<1> QED
  BY <1>2, SnapshotReplayed DEF Good, Sound

LEMMA RemoveLogStep ==
  ASSUME IInv, RemoveLog
  PROVE  IInv'
<1>1. /\ pc = "store" /\ snapshot = <<>> /\ log' = <<>> /\ pc' = "rotate"
      /\ mem' = mem /\ stt' = stt /\ chk' = chk /\ pending' = pending
      /\ snapshot' = snapshot /\ promised' = promised /\ logsize' = logsize
      /\ requests' = requests /\ crashes' = crashes /\ hits' = hits
  BY DEF RemoveLog, bounds
<1>2. TypeOK /\ ServerInv /\ NeverInv /\ (InScope => FileInv)
  BY DEF IInv
<1>3. stt \in Seq(Record) /\ mem \in Tables /\ stt # NoFile
  BY <1>1, <1>2, FileAssumption DEF ServerInv, Checkpointing, File, TypeOK
<1>4. TypeOK'
  BY <1>1, <1>2, EmptySeq DEF TypeOK, File
<1>5. ServerInv' /\ NeverInv'
  BY <1>1, <1>2 DEF ServerInv, NeverInv, Checkpointing
<1>6. ASSUME InScope'
      PROVE  FileInv'
  <2>1. InScope /\ FileInv
    BY <1>1, <1>2, <1>6 DEF InScope
  <2>2. stt = Snapshot(mem)
    BY <1>1, <1>3, <2>1, ConcatEmptySeq DEF FileInv
  <2>3. mem.size = Cardinality(Live(mem))
    BY <1>1, <2>1 DEF FileInv, Checkpointing
  <2>4. Recovered' = Replay(Fresh, Snapshot(mem))
    BY <1>1, <1>3, <2>2 DEF Recovered
  <2>5. Good(logsize, Recovered') /\ View(Recovered'.table) = View(mem)
    BY <1>3, <2>3, <2>4, CheckpointGood
  <2>6. \A i \in 1 .. Len(log') : log'[i] # Length
    BY <1>1
  <2> QED
    BY <1>1, <2>2, <2>3, <2>5, <2>6 DEF FileInv, Checkpointing
<1> QED
  BY <1>4, <1>5, <1>6 DEF IInv

LEMMA OpenChkStep ==
  ASSUME IInv, OpenChk
  PROVE  IInv'
<1>1. /\ pc = "rotate" /\ chk' = <<>> /\ pc' = "copy"
      /\ mem' = mem /\ stt' = stt /\ log' = log /\ pending' = pending
      /\ snapshot' = snapshot /\ promised' = promised /\ logsize' = logsize
      /\ requests' = requests /\ crashes' = crashes /\ hits' = hits
  BY DEF OpenChk, bounds
<1>2. TypeOK /\ ServerInv /\ NeverInv /\ (InScope => FileInv)
  BY DEF IInv
<1>3. stt # NoFile
  BY <1>1, <1>2, FileAssumption DEF ServerInv, Checkpointing
<1>4. TypeOK'
  BY <1>1, <1>2, EmptySeq DEF TypeOK, File
<1>5. ServerInv' /\ NeverInv'
  BY <1>1, <1>2 DEF ServerInv, NeverInv, Checkpointing
<1>6. ASSUME InScope'
      PROVE  FileInv'
  <2>1. InScope /\ FileInv
    BY <1>1, <1>2, <1>6 DEF InScope
  <2>2. Recovered' = Recovered
    BY <1>1, <1>3, <2>1 DEF Recovered, FileInv
  <2> QED
    BY <1>1, <2>1, <2>2 DEF FileInv, Checkpointing
<1> QED
  BY <1>4, <1>5, <1>6 DEF IInv

LEMMA CopySttStep ==
  ASSUME IInv, CopyStt
  PROVE  IInv'
<1>1. /\ pc = "copy" /\ chk' = stt /\ pc' = "copied"
      /\ mem' = mem /\ stt' = stt /\ log' = log /\ pending' = pending
      /\ snapshot' = snapshot /\ promised' = promised /\ logsize' = logsize
      /\ requests' = requests /\ crashes' = crashes /\ hits' = hits
  BY DEF CopyStt, bounds
<1>2. TypeOK /\ ServerInv /\ NeverInv /\ (InScope => FileInv)
  BY DEF IInv
<1>3. stt # NoFile
  BY <1>1, <1>2, FileAssumption DEF ServerInv, Checkpointing
<1>4. TypeOK'
  BY <1>1, <1>2 DEF TypeOK
<1>5. ServerInv' /\ NeverInv'
  BY <1>1, <1>2 DEF ServerInv, NeverInv, Checkpointing
<1>6. ASSUME InScope'
      PROVE  FileInv'
  <2>1. InScope /\ FileInv
    BY <1>1, <1>2, <1>6 DEF InScope
  <2>2. Recovered' = Recovered
    BY <1>1, <1>3, <2>1 DEF Recovered, FileInv
  <2> QED
    BY <1>1, <2>1, <2>2 DEF FileInv, Checkpointing
<1> QED
  BY <1>4, <1>5, <1>6 DEF IInv

(* chk has taken the place of stt. *)
LEMMA RemoveSttStep ==
  ASSUME IInv, RemoveStt
  PROVE  IInv'
<1>1. /\ pc = "copied" /\ stt' = NoFile /\ pc' = "serving" /\ promised' = View(mem')
      /\ mem' = mem /\ log' = log /\ chk' = chk /\ pending' = pending
      /\ snapshot' = snapshot /\ logsize' = logsize
      /\ requests' = requests /\ crashes' = crashes /\ hits' = hits
  BY DEF RemoveStt, Acknowledge, bounds
<1>2. TypeOK /\ ServerInv /\ NeverInv /\ (InScope => FileInv)
  BY DEF IInv
<1>3. stt # NoFile /\ ~ Never(logsize)
  BY <1>1, <1>2, FileAssumption DEF ServerInv, NeverInv, Checkpointing
<1>4. TypeOK'
  BY <1>1, <1>2 DEF TypeOK
<1>5. ServerInv' /\ NeverInv'
  BY <1>1, <1>2, <1>3 DEF ServerInv, NeverInv, Checkpointing
<1>6. ASSUME InScope'
      PROVE  FileInv'
  <2>1. InScope /\ FileInv
    BY <1>1, <1>2, <1>6 DEF InScope
  <2>2. log = <<>> /\ chk = stt
    BY <1>1, <2>1 DEF FileInv
  <2>3. Recovered = Replay(Fresh, stt)
    BY <1>3, <2>2 DEF Recovered
  <2>4. Recovered' = Replay(Replay(Fresh, stt), <<>>)
    BY <1>1, <1>3, <2>2 DEF Recovered
  <2>5. Recovered' = Recovered
    BY <2>3, <2>4, RunEmpty DEF Replay
  <2>6. SameAs(logsize, Recovered.table, mem)
    BY <1>1, <1>3, <2>1 DEF FileInv, SameAs, Checkpointing
  <2> QED
    BY <1>1, <2>1, <2>2, <2>5, <2>6 DEF FileInv, Checkpointing
<1> QED
  BY <1>4, <1>5, <1>6 DEF IInv

-----------------------------------------------------------------------------
(* A crash leaves the files as they are. *)
LEMMA CrashStep ==
  ASSUME IInv, MaxHits <= 1, Crash
  PROVE  IInv'
<1>1. /\ pc \notin {"down", "refused", "undefined"} /\ pc' = "down"
      /\ hits' = (IF Checkpointing \/ hits > 0 THEN hits + 1 ELSE 0) /\ hits' <= MaxHits
      /\ crashes' = crashes + 1 /\ pending' = NoRecord /\ snapshot' = <<>>
      /\ mem' = mem /\ log' = log /\ stt' = stt /\ chk' = chk
      /\ promised' = promised /\ logsize' = logsize /\ requests' = requests
  BY DEF Crash, disk
<1>2. TypeOK /\ ServerInv /\ NeverInv /\ (InScope => FileInv)
  BY DEF IInv
<1>3. hits \in Nat /\ crashes \in Nat
  BY <1>2 DEF TypeOK
<1>4. hits = 0 /\ FileInv
  <2>1. hits = 0
    BY <1>1, <1>3, PersistenceAssumption
  <2> QED
    BY <1>2, <2>1 DEF InScope
<1>5. hits' \in Nat
  BY <1>1, <1>3
<1>6. TypeOK'
  BY <1>1, <1>2, <1>3, <1>5, EmptySeq
     DEF TypeOK, File, NoRecord, Length, Record
<1>7. ServerInv'
  BY <1>1, <1>2 DEF ServerInv, Checkpointing
<1>8. NeverInv'
  BY <1>1, <1>2, <1>4 DEF NeverInv, Checkpointing
<1>9. FileInv'
  <2>1. Recovered' = Recovered
    BY <1>1 DEF Recovered
  <2>2. View(Recovered.table) \in {promised, View(mem)}
    BY <1>1, <1>2, <1>4 DEF FileInv, SameAs, Checkpointing, TypeOK
  <2>3. ~ Checkpointing' /\ (hits' = 0 => ~ Checkpointing)
    BY <1>1, <1>3 DEF Checkpointing
  <2> QED
    BY <1>1, <1>4, <2>1, <2>2, <2>3 DEF FileInv
<1> QED
  BY <1>6, <1>7, <1>8, <1>9 DEF IInv

(* table_server destroys its table: nothing is left, nothing is promised.  *)
LEMMA DestroyStep ==
  ASSUME IInv, Destroy
  PROVE  IInv'
<1>1. /\ Never(logsize) /\ pc = "serving" /\ pc' = "down" /\ log' = <<>>
      /\ mem' = EmptyTable /\ promised' = View(mem')
      /\ stt' = stt /\ chk' = chk /\ pending' = pending
      /\ snapshot' = snapshot /\ logsize' = logsize
      /\ requests' = requests /\ crashes' = crashes /\ hits' = hits
  BY DEF Destroy, bounds, NeverFull, Never
<1>2. TypeOK /\ ServerInv /\ NeverInv /\ (InScope => FileInv)
  BY DEF IInv
<1>3. EmptyTable \in Tables
  BY DEF EmptyTable, Tables, Slot
<1>4. TypeOK'
  BY <1>1, <1>2, <1>3, EmptySeq DEF TypeOK, File
<1>5. ServerInv'
  BY <1>1, <1>2 DEF ServerInv, Sound, Checkpointing
<1>6. NeverInv'
  BY <1>1, <1>2 DEF NeverInv, Checkpointing, TypeOK
<1>7. FileInv'
  <2>1. stt = NoFile /\ chk = NoFile
    BY <1>1, <1>2 DEF NeverInv
  <2>2. Recovered' = Fresh
    BY <1>1, <2>1, RunEmpty DEF Recovered, Replay
  <2>3. Good(logsize, Fresh) /\ View(Fresh.table) = View(EmptyTable)
    BY <1>1, <1>3 DEF Good, Fresh, Sound
  <2> QED
    BY <1>1, <2>1, <2>2, <2>3 DEF FileInv, Checkpointing
<1> QED
  BY <1>4, <1>5, <1>6, <1>7 DEF IInv

(* ptable_open finds files it can read to the end. *)
LEMMA RestartStep ==
  ASSUME IInv, Restart
  PROVE  /\ IInv'
         /\ pc = "down" /\ pc' = "serving" /\ promised' = View(mem')
         /\ View(mem') \in {promised, View(mem)}
<1>1. TypeOK /\ ServerInv /\ NeverInv /\ (InScope => FileInv)
  BY DEF IInv
<1>2. pc = "down" /\ FileInv
  BY <1>1 DEF Restart, ServerInv, InScope
<1>3. Recovered.ok /\ Recovered.table \in Tables /\ Sound(logsize, Recovered.table)
  BY <1>2 DEF FileInv, Good
<1>4. /\ pc' = "serving" /\ mem' = Recovered.table /\ promised' = View(mem')
      /\ log' = log /\ stt' = stt /\ chk' = chk /\ pending' = pending
      /\ snapshot' = snapshot /\ logsize' = logsize
      /\ requests' = requests /\ crashes' = crashes /\ hits' = hits
  BY <1>3 DEF Restart, bounds
<1>5. View(mem') \in {promised, View(mem)}
  BY <1>2, <1>4 DEF FileInv
<1>6. TypeOK'
  BY <1>1, <1>3, <1>4 DEF TypeOK
<1>7. ServerInv' /\ NeverInv'
  BY <1>1, <1>2, <1>3, <1>4 DEF ServerInv, NeverInv, Checkpointing
<1>8. ASSUME InScope'
      PROVE  FileInv'
  <2>1. hits = 0 /\ stt = NoFile
    BY <1>2, <1>4, <1>8 DEF InScope, FileInv, Checkpointing
  <2>2. Recovered' = Recovered
    BY <1>4 DEF Recovered
  <2>3. SameAs(logsize', Recovered'.table, mem')
    BY <1>4, <2>2 DEF SameAs
  <2> QED
    BY <1>2, <1>4, <2>1, <2>2, <2>3 DEF FileInv, Checkpointing
<1> QED
  BY <1>2, <1>4, <1>5, <1>6, <1>7, <1>8 DEF IInv

(* Every step keeps the invariant. *)
LEMMA StepKeepsInv ==
  ASSUME IInv, MaxHits <= 1, [Next]_vars
  PROVE  IInv'
<1>1. CASE UNCHANGED vars
  <2>1. /\ pc' = pc /\ mem' = mem /\ log' = log /\ stt' = stt /\ chk' = chk
        /\ pending' = pending /\ snapshot' = snapshot /\ promised' = promised
        /\ logsize' = logsize /\ requests' = requests /\ crashes' = crashes
        /\ hits' = hits
    BY <1>1 DEF vars, disk, bounds
  <2>2. Recovered' = Recovered /\ (Checkpointing' <=> Checkpointing)
    BY <2>1 DEF Recovered, Checkpointing
  <2>3. Logged' = Logged
    BY <2>1, <2>2 DEF Logged
  <2>4. TypeOK' /\ ServerInv' /\ NeverInv'
    BY <2>1, <2>2 DEF IInv, TypeOK, ServerInv, NeverInv
  <2>5. InScope' => FileInv'
    BY <2>1, <2>2, <2>3 DEF IInv, InScope, FileInv
  <2> QED
    BY <2>4, <2>5 DEF IInv
<1>2. ASSUME NEW k \in Key, NEW v \in PutValue, Put(k, v)
      PROVE  IInv'
  BY <1>2, PutStep
<1>3. ASSUME NEW k \in Key, NEW v \in Value, Update(k, v) \/ Del(k, v)
      PROVE  IInv'
  BY <1>3, UpdateStep, DelStep
<1>4. CASE WriteLog
  BY <1>4, WriteLogStep
<1>5. CASE StoreLength
  BY <1>5, StoreLengthStep
<1>6. CASE StoreBody
  BY <1>6, StoreBodyStep
<1>7. CASE RemoveLog
  BY <1>7, RemoveLogStep
<1>8. CASE OpenChk
  BY <1>8, OpenChkStep
<1>9. CASE CopyStt
  BY <1>9, CopySttStep
<1>10. CASE RemoveStt
  BY <1>10, RemoveSttStep
<1>11. CASE Crash
  BY <1>11, CrashStep
<1>12. CASE Destroy
  BY <1>12, DestroyStep
<1>13. CASE Restart
  BY <1>13, RestartStep
<1> QED
  BY <1>1, <1>2, <1>3, <1>4, <1>5, <1>6, <1>7, <1>8, <1>9, <1>10, <1>11,
     <1>12, <1>13 DEF Next

-----------------------------------------------------------------------------
(* A step of the server is a step of the store without files, or none.     *)
LEMMA PromiseAtStart == Init => Promise!Init
<1> SUFFICES ASSUME Init
             PROVE  Promise!Init
  OBVIOUS
<1>1. Live(EmptyTable) = {}
  BY DEF EmptyTable, Live, Present
<1>2. View(EmptyTable) = [k \in {} |-> k]
  BY <1>1 DEF View
<1> QED
  BY <1>2 DEF Init, Promise!Init

LEMMA RequestChanges ==
  ASSUME IInv, IInv', NEW k \in Key, pc = "serving", pc' \in {"serving", "log"},
         promised' = promised,
         \A h \in Key \ {k} : mem'.entry[h] = mem.entry[h]
  PROVE  Promise!Change
<1>1. mem \in Tables /\ mem' \in Tables /\ View(mem) = promised
  BY DEF IInv, TypeOK, ServerInv
<1>2. View(mem') \in Promise!Contents
  BY <1>1, ViewType DEF Promise!Contents
<1>3. \A h \in Key \ {k} :
        /\ h \in DOMAIN View(mem') <=> h \in DOMAIN View(mem)
        /\ h \in DOMAIN View(mem) => View(mem')[h] = View(mem)[h]
  BY <1>1, OneKey
<1> QED
  BY <1>1, <1>2, <1>3 DEF Promise!Change

LEMMA StepKeepsPromise ==
  ASSUME IInv, IInv', [Next]_vars
  PROVE  [Promise!Next]_(Promise!vars)
<1>1. mem \in Tables /\ mem.entry \in [Key -> Slot]
  BY DEF IInv, TypeOK, Tables
<1>2. ASSUME NEW k \in Key, NEW v \in Value, NEW op, NEW accepted, NEW t,
             Request(op, k, v, accepted, t),
             \A h \in Key \ {k} : t.entry[h] = mem.entry[h]
      PROVE  Promise!Change
  <2>1. /\ pc = "serving" /\ pc' \in {"serving", "log"} /\ promised' = promised
        /\ mem' = t
    BY <1>2 DEF Request
  <2> QED
    BY <1>2, <2>1, RequestChanges
<1>3. ASSUME NEW k \in Key, NEW v \in PutValue, Put(k, v)
      PROVE  Promise!Change
  <2>1. \A h \in Key \ {k} : TablePut(mem, k, v).entry[h] = mem.entry[h]
    BY <1>1 DEF TablePut, Tables
  <2> QED
    BY <1>2, <1>3, <2>1 DEF Put, PutValue
<1>4. ASSUME NEW k \in Key, NEW v \in Value, Update(k, v)
      PROVE  Promise!Change
  <2>1. \A h \in Key \ {k} : TableUpdate(mem, k, v).entry[h] = mem.entry[h]
    BY <1>1 DEF TableUpdate
  <2> QED
    BY <1>2, <1>4, <2>1 DEF Update
<1>5. ASSUME NEW k \in Key, NEW v \in Value, Del(k, v)
      PROVE  Promise!Change
  <2>1. \A h \in Key \ {k} : TableDel(mem, k).entry[h] = mem.entry[h]
    BY <1>1 DEF TableDel
  <2> QED
    BY <1>2, <1>5, <2>1 DEF Del
<1>6. CASE WriteLog
  <2>1. pc = "log" /\ mem' = mem /\ pc' \in {"serving", "store"}
    BY <1>6, WriteLogStep DEF WriteLog
  <2>2. CASE pc' = "serving"
    <3>1. promised' = View(mem)
      BY <1>6, <2>1, <2>2 DEF WriteLog, Acknowledge
    <3> QED
      BY <2>1, <2>2, <3>1 DEF Promise!Next, Promise!Answer
  <2>3. CASE pc' = "store"
    <3>1. promised' = promised
      BY <1>6, <2>3 DEF WriteLog, Acknowledge
    <3> QED
      BY <2>1, <2>3, <3>1 DEF Promise!vars
  <2> QED
    BY <2>1, <2>2, <2>3
<1>7. CASE StoreLength \/ StoreBody \/ RemoveLog \/ OpenChk \/ CopyStt
  BY <1>7 DEF StoreLength, StoreBody, RemoveLog, OpenChk, CopyStt, Promise!vars
<1>8. CASE RemoveStt
  BY <1>8 DEF RemoveStt, Acknowledge, Promise!Next, Promise!Answer
<1>9. CASE Crash
  BY <1>9 DEF Crash, Promise!Next, Promise!Die
<1>10. CASE Destroy
  <2>1. View(EmptyTable) = [k \in {} |-> k]
    <3>1. Live(EmptyTable) = {}
      BY DEF EmptyTable, Live, Present
    <3> QED
      BY <3>1 DEF View
  <2> QED
    BY <1>10, <2>1 DEF Destroy, Promise!Next, Promise!Wipe
<1>11. CASE Restart
  BY <1>11, RestartStep DEF Promise!Next, Promise!Recover
<1>12. CASE UNCHANGED vars
  BY <1>12 DEF vars, Promise!vars
<1> QED
  BY <1>3, <1>4, <1>5, <1>6, <1>7, <1>8, <1>9, <1>10, <1>11, <1>12
     DEF Next, Promise!Next

-----------------------------------------------------------------------------
(* Every variable and every file keeps its type. *)
THEOREM FilesTyped == ASSUME MaxHits <= 1 PROVE Spec => []TypeOK
<1>1. IInv /\ [Next]_vars => IInv'
  BY StepKeepsInv
<1>2. IInv => TypeOK
  BY DEF IInv
<1> QED
  BY InvAtStart, <1>1, <1>2, PTL DEF Spec

(* ptable_open never refuses the files that a crash has left: recovery     *)
(* replays chk and the log, or stt alone, to the end.                      *)
THEOREM FilesReadable == ASSUME MaxHits <= 1 PROVE Spec => []RestartSucceeds
<1>1. IInv /\ [Next]_vars => IInv'
  BY StepKeepsInv
<1>2. IInv => RestartSucceeds
  BY DEF IInv, ServerInv, RestartSucceeds
<1> QED
  BY InvAtStart, <1>1, <1>2, PTL DEF Spec

(* pmanager_store_table never reads an entry that table_get_entries did    *)
(* not write.                                                              *)
THEOREM CheckpointsDefined == ASSUME MaxHits <= 1 PROVE Spec => []CheckpointDefined
<1>1. IInv /\ [Next]_vars => IInv'
  BY StepKeepsInv
<1>2. IInv => CheckpointDefined
  BY DEF IInv, ServerInv, CheckpointDefined
<1> QED
  BY InvAtStart, <1>1, <1>2, PTL DEF Spec

(* What a restarted server serves is what clients were answered for, with  *)
(* or without the one request it had not answered yet.                     *)
THEOREM NothingAnsweredIsLost ==
  ASSUME MaxHits <= 1 PROVE Spec => RecoveryKeepsAnswered
<1> DEFINE Kept == pc' = "serving" /\ pc \in {"down", "refused"} =>
                     View(mem') \in {promised, View(mem)}
<1>1. IInv /\ [Next]_vars => IInv'
  BY StepKeepsInv
<1>2. IInv /\ [Next]_vars => [Kept]_vars
  <2> SUFFICES ASSUME IInv, Next, pc' = "serving", pc \in {"down", "refused"}
               PROVE  View(mem') \in {promised, View(mem)}
    OBVIOUS
  <2>1. Restart
    BY DEF Next, Put, Update, Del, Request, WriteLog, StoreLength, StoreBody,
           RemoveLog, OpenChk, CopyStt, RemoveStt, Crash, Destroy
  <2> QED
    BY <2>1, RestartStep
<1> QED
  BY InvAtStart, <1>1, <1>2, PTL DEF Spec, RecoveryKeepsAnswered

(* Log, checkpoint, rotation and recovery implement a store without files  *)
(* that forgets nothing it has answered for.                               *)
THEOREM FilesImplementStore ==
  ASSUME MaxHits <= 1 PROVE Spec => ImplementsDurableStore
<1>1. IInv /\ [Next]_vars => IInv'
  BY StepKeepsInv
<1>2. IInv /\ IInv' /\ [Next]_vars => [Promise!Next]_(Promise!vars)
  BY StepKeepsPromise
<1> QED
  BY InvAtStart, PromiseAtStart, <1>1, <1>2, PTL
     DEF Spec, ImplementsDurableStore, Promise!Spec

=============================================================================
