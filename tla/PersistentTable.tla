-------------------------- MODULE PersistentTable ---------------------------
(***************************************************************************)
(* The table of one server and its files (src/persistence): every accepted *)
(* request is appended to the log; a put that fills the log starts a       *)
(* checkpoint, which writes the table to the file "stt", removes the log,  *)
(* copies stt to "chk" and removes stt.  The server process may die        *)
(* between any two of these steps; ptable_open rebuilds the table from the *)
(* files that are left.                                                    *)
(*                                                                         *)
(* The table itself is TableOps.  A file is the sequence of its records.   *)
(* The crash is that of the process: what a write() has returned from is   *)
(* in the file.  A log record is one write(); a record of stt is two, its  *)
(* length and its body, so that a crash can leave a length with nothing    *)
(* behind it.                                                              *)
(***************************************************************************)
EXTENDS TableOps, Sequences, SequencesExt

CONSTANTS
  NoFile,         \* the file does not exist
  LogSizes,       \* the sizes of a full log, counted in records
  MaxRequests, MaxCrashes,
  MaxHits         \* bound on the crashes from the first that hits a checkpoint on

ASSUME PersistenceAssumption ==
  /\ LogSizes \subseteq Nat \ {0}
  /\ MaxRequests \in Nat /\ MaxCrashes \in Nat /\ MaxHits \in Nat

VARIABLES
  pc,        \* what the server is doing
  mem,       \* ptable->table; while the server is down, the table it lost
  log, stt, chk,
  pending,   \* the record about to be logged
  snapshot,  \* the entries still to be written to stt
  promised,  \* the live entries after the last answered request (history)
  logsize,   \* pmanager->logsize: this many records fill the log
  requests, crashes, hits

disk == <<log, stt, chk>>
bounds == <<logsize, requests, crashes, hits>>
vars == <<pc, mem, disk, pending, snapshot, promised, bounds>>

-----------------------------------------------------------------------------
PutValue == {v \in Value : v.data # NoData}

Record == [op : {"put", "update", "del"}, key : Key, value : Value]
            \cup [op : {"length"}]

(* A record of which only the length was written. *)
Length == [op |-> "length"]

NoRecord == Length

File == Seq(Record)

ASSUME FileAssumption == NoFile \notin File

(* The live entries of a table: what clients can tell of it.  (A deleted   *)
(* key and one that never was both read as empty.)                         *)
View(t) == [k \in Live(t) |-> t.entry[k]]

(***************************************************************************)
(* table_get_entries: the live entries, cut where the code writes the      *)
(* NULL, at [size].  (Their order, that of the chains, makes no            *)
(* difference to what is read back: they have different keys.)             *)
(* pmanager_store_table copes with at least one entry and at most the ones *)
(* there are; otherwise it reads array slots, or its variable msg, that    *)
(* nothing was stored in.                                                  *)
(***************************************************************************)
SnapshotDefined(t) == t.size \in 1 .. Cardinality(Live(t))

(* Mutant of Snapshot: the payload without its timestamp.                  *)
SnapshotWithoutStamp(t) ==
  LET keys == SetToSeq(Live(t))
  IN  [i \in 1 .. t.size |->
         [op |-> "put", key |-> keys[i], value |-> t.entry[keys[i]].data]]

Snapshot(t) ==
  LET keys == SetToSeq(Live(t))
  IN  [i \in 1 .. t.size |->
         [op |-> "put", key |-> keys[i], value |-> t.entry[keys[i]]]]

-----------------------------------------------------------------------------
Init ==
  /\ pc = "serving"
  /\ mem = EmptyTable
  /\ log = <<>> /\ stt = NoFile /\ chk = NoFile
  /\ pending = NoRecord /\ snapshot = <<>>
  /\ promised = View(EmptyTable)
  /\ logsize \in LogSizes
  /\ requests = 0 /\ crashes = 0 /\ hits = 0

(* The log is too large to fill: no put starts a checkpoint.  Only such a  *)
(* server is given requests that make size drift from the number of        *)
(* entries, for with them a checkpoint reads beyond its array.             *)
NeverFull == logsize > MaxRequests

(* A request changes the table in memory; only an accepted one goes on to  *)
(* the log, a refused one is answered -1 at once.                          *)
Request(op, k, v, accepted, table) ==
  /\ pc = "serving" /\ requests < MaxRequests
  /\ requests' = requests + 1
  /\ mem' = table
  /\ IF accepted
     THEN /\ pc' = "log"
          /\ pending' = [op |-> op, key |-> k, value |-> v]
     ELSE UNCHANGED <<pc, pending>>
  /\ UNCHANGED <<disk, snapshot, promised, logsize, crashes, hits>>

Put(k, v) == Request("put", k, v, PutAccepts(mem, k), TablePut(mem, k, v))

(* An update that reaches a deleted key, or carries an old stamp, makes    *)
(* size drift.                                                             *)
Update(k, v) ==
  /\ NeverFull \/ (k \in Live(mem) /\ mem.entry[k].ts < v.ts)
  /\ Request("update", k, v, UpdateAccepts(mem, k, v), TableUpdate(mem, k, v))

(* So does OC_DEL, which the quorum client never sends.                    *)
Del(k, v) ==
  /\ NeverFull
  /\ v = TableGet(mem, k)   \* not part of the record; kept for its type
  /\ Request("del", k, v, DelAccepts(mem, k), TableDel(mem, k))

(* The server answers 0. *)
Acknowledge == pc' = "serving" /\ promised' = View(mem)

(* pmanager_log; after a put, the test of the size of the log.  The        *)
(* checkpoint opens stt for appending: a file that is there is kept.       *)
WriteLog ==
  /\ pc = "log"
  /\ log' = Append(log, pending)
  /\ pending' = NoRecord
  /\ IF pending.op # "put" \/ Len(log') < logsize
     THEN Acknowledge /\ UNCHANGED <<stt, snapshot>>
     ELSE /\ IF SnapshotDefined(mem)
             THEN /\ pc' = "store"
                  /\ snapshot' = Snapshot(mem)
                  /\ stt' = IF stt = NoFile THEN <<>> ELSE stt
             ELSE pc' = "undefined" /\ UNCHANGED <<stt, snapshot>>
          /\ UNCHANGED promised
  /\ UNCHANGED <<mem, chk, bounds>>

(* write_all2: the length of the next record, then its body. *)
StoreLength ==
  /\ pc = "store" /\ snapshot # <<>>
  /\ stt' = Append(stt, Length)
  /\ pc' = "body"
  /\ UNCHANGED <<mem, log, chk, pending, snapshot, promised, bounds>>

StoreBody ==
  /\ pc = "body"
  /\ stt' = Append(Front(stt), Head(snapshot))
  /\ snapshot' = Tail(snapshot)
  /\ pc' = "store"
  /\ UNCHANGED <<mem, log, chk, pending, promised, bounds>>

(* Mutant of RemoveLog: the old log stays.                                 *)
RemoveLogNot ==
  /\ pc = "store" /\ snapshot = <<>>
  /\ pc' = "rotate"
  /\ UNCHANGED <<mem, disk, pending, snapshot, promised, bounds>>

(* pmanager_rotate_log: the log is removed, chk is opened for writing,     *)
(* which empties it, and gets its contents when it is closed.              *)
RemoveLog ==
  /\ pc = "store" /\ snapshot = <<>>
  /\ log' = <<>>
  /\ pc' = "rotate"
  /\ UNCHANGED <<mem, stt, chk, pending, snapshot, promised, bounds>>

OpenChk ==
  /\ pc = "rotate"
  /\ chk' = <<>>
  /\ pc' = "copy"
  /\ UNCHANGED <<mem, log, stt, pending, snapshot, promised, bounds>>

(* Mutant of CopyStt: chk stays as it was opened, empty.                   *)
CopyNothing ==
  /\ pc = "copy"
  /\ pc' = "copied"
  /\ UNCHANGED <<mem, disk, pending, snapshot, promised, bounds>>

CopyStt ==
  /\ pc = "copy"
  /\ chk' = stt
  /\ pc' = "copied"
  /\ UNCHANGED <<mem, log, stt, pending, snapshot, promised, bounds>>

(* stt is removed, the log opened again, and the put answered. *)
RemoveStt ==
  /\ pc = "copied"
  /\ stt' = NoFile
  /\ Acknowledge
  /\ UNCHANGED <<mem, log, chk, pending, snapshot, bounds>>

-----------------------------------------------------------------------------
Checkpointing == pc \in {"store", "body", "rotate", "copy", "copied"}

(* The process dies.  The files stay as they are.                          *)
Crash ==
  /\ pc \notin {"down", "refused", "undefined"}
  /\ crashes < MaxCrashes
  /\ crashes' = crashes + 1
  /\ hits' = IF Checkpointing \/ hits > 0 THEN hits + 1 ELSE 0
  /\ hits' <= MaxHits
  /\ pc' = "down"
  /\ pending' = NoRecord /\ snapshot' = <<>>
  /\ UNCHANGED <<mem, disk, promised, logsize, requests>>

(* poll failed: the server leaves its loop and destroys the table with its *)
(* log.  (A checkpoint would stay, and with it what was deleted since.)    *)
Destroy ==
  /\ NeverFull
  /\ pc = "serving"
  /\ pc' = "down"
  /\ log' = <<>>
  /\ mem' = EmptyTable /\ promised' = View(mem')
  /\ UNCHANGED <<stt, chk, pending, snapshot, bounds>>

(* pmanager_restore_table and pmanager_fill_state replay a file; the first *)
(* record the table refuses makes them fail.  A length at the end of the   *)
(* file is read as the end; anything after it is taken for its body, which *)
(* no operation begins like.                                               *)
Apply(s, r) ==
  CASE ~ s.ok -> s
    [] r.op = "length" -> [s EXCEPT !.ok = FALSE]
    [] r.op = "put" ->
         [table |-> TablePut(s.table, r.key, r.value),
          ok |-> PutAccepts(s.table, r.key)]
    [] r.op = "update" ->
         [table |-> TableUpdate(s.table, r.key, r.value),
          ok |-> UpdateAccepts(s.table, r.key, r.value)]
    [] OTHER ->
         [table |-> TableDel(s.table, r.key), ok |-> DelAccepts(s.table, r.key)]

(* The records of a file one after the other, from s on.                   *)
Run(s, file) ==
  LET run[i \in 0 .. Len(file)] ==
        IF i = 0 THEN s ELSE Apply(run[i - 1], file[i])
  IN  run[Len(file)]

(* Mutant of Replay: the last record is always left out.                   *)
ReplayButLast(s, file) == Run(s, IF file # <<>> THEN Front(file) ELSE file)

Replay(s, file) ==
  Run(s, IF file # <<>> /\ Last(file) = Length THEN Front(file) ELSE file)

Fresh == [table |-> EmptyTable, ok |-> TRUE]

(* ptable_open: which files are read, in which order. *)
Recovered ==
  IF stt # NoFile /\ log = <<>> THEN Replay(Fresh, stt)
  ELSE IF chk # NoFile THEN Replay(Replay(Fresh, chk), log)
  ELSE Replay(Fresh, log)

(* A file that cannot be replayed: the table is destroyed, and its log     *)
(* removed, unless the second fclose of the same FILE, on most of these    *)
(* paths, kills the process first.  The server can be started again.       *)
Restart ==
  /\ pc \in {"down", "refused"}
  /\ IF Recovered.ok
     THEN /\ pc' = "serving"
          /\ mem' = Recovered.table
          /\ promised' = View(mem')
          /\ UNCHANGED log
     ELSE /\ pc' = "refused"
          /\ log' \in {log, <<>>}
          /\ UNCHANGED <<mem, promised>>
  /\ UNCHANGED <<stt, chk, pending, snapshot, bounds>>

Next ==
  \/ \E k \in Key :
       \/ \E v \in PutValue : Put(k, v)
       \/ \E v \in Value : Update(k, v) \/ Del(k, v)
  \/ WriteLog
  \/ StoreLength \/ StoreBody
  \/ RemoveLog \/ OpenChk \/ CopyStt \/ RemoveStt
  \/ Crash \/ Destroy \/ Restart

Spec == Init /\ [][Next]_vars

-----------------------------------------------------------------------------
(* Type invariant. *)
TypeOK ==
  /\ pc \in {"serving", "log", "store", "body", "rotate", "copy", "copied",
             "down", "refused", "undefined"}
  /\ mem \in Tables
  /\ log \in File /\ stt \in File \cup {NoFile} /\ chk \in File \cup {NoFile}
  /\ pending \in Record /\ snapshot \in File
  /\ logsize \in LogSizes
  /\ requests \in Nat /\ crashes \in Nat /\ hits \in Nat

(***************************************************************************)
(* After a restart clients see what they had been answered for, with or    *)
(* without the one request that was being served when the server died:     *)
(* nothing acknowledged is lost, nothing deleted comes back.               *)
(***************************************************************************)
RecoveryKeepsAnswered ==
  [][pc' = "serving" /\ pc \in {"down", "refused"} =>
       View(mem') \in {promised, View(mem)}]_vars

(* The files left by a crash can be replayed to the end: no record in them *)
(* is refused by the table it is replayed on.                              *)
RestartSucceeds == pc # "refused"

(* A checkpoint starts from a table whose size counts its entries.         *)
CheckpointDefined == pc # "undefined"

(***************************************************************************)
(* The same, step by step: log, checkpoint and recovery together behave as *)
(* a store that has no files and forgets nothing it has answered for.      *)
(***************************************************************************)
Promise == INSTANCE DurableStore
             WITH Keys <- Key, Values <- PutValue,
                  answered <- promised, current <- View(mem),
                  up <- pc \notin {"down", "refused"}

ImplementsDurableStore == Promise!Spec

(***************************************************************************)
(* What the repository says and the code does not do.                      *)
(***************************************************************************)

(* pmanager_store_table: stt holds "o estado atual da tabela table"        *)
(* (persistence_manager.c:213) once it is written.                         *)
SttIsCurrent ==
  pc = "rotate" => /\ Replay(Fresh, stt).ok
                   /\ View(Replay(Fresh, stt).table) = View(mem)

=============================================================================
