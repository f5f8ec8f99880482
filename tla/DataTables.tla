----------------------------- MODULE DataTables ------------------------------
(***************************************************************************)
(* One table of the data warehouse: its row in the database                *)
(* (engine/storage/_table.py), the table of the standalone engine it       *)
(* stands for, and the sessions of those who use it                        *)
(* (engine/storage/_session.py).  Clients are the processes of the upload  *)
(* and download components and the server, which deletes tables, binds a   *)
(* path to a name, and drops a row before a transformer fills the name     *)
(* anew.  Each reads and writes the row, the engine's record of the table  *)
(* and its partitions one after the other, nothing keeps two of them apart,*)
(* and each may be killed between two steps.                               *)
(*                                                                         *)
(* A file is a set of keys, its lines; every line carries the file it is   *)
(* from.  BadFile cannot be read to its end.                               *)
(***************************************************************************)
EXTENDS Naturals, FiniteSets

CONSTANTS
  Clients, Files, BadFile, LinesOf(_),
  Uploads,    \* what uploads ask for: a file and a number of partitions
  MaxParts,   \* bound: partitions
  MaxOps,     \* bound: operations
  MaxCrashes, \* bound: processes killed
  NoTable, Bound, Uncertain, None

ASSUME BoundsAssumption ==
  /\ MaxOps \in Nat /\ MaxCrashes \in Nat /\ MaxParts \in Nat
  /\ Uploads \subseteq (Files \cup {BadFile}) \X (1..MaxParts)

VARIABLES
  row,     \* the row: None or its engine, data type and count
  parts,   \* the engine's record of the table: its partitions, 0 if none
  files,   \* the directory of each partition: the lines in it
  pc, op,  \* where a client is, and what it does
  at,      \* the partition its upload fills next
  handle,  \* partitions its table object has; 0 for an object that is not
           \* a number
  records, \* rows of sessions: the session and the engine
  ops, crashes,
  \* What clients did and saw, for the properties only:
  dirty,   \* a write has begun and none has ended since with success
  mixed,   \* two writes have overlapped
  view,    \* the table when a client began to read
  answer,  \* what its last read returned
  failed   \* uploads that failed in a row on a table that is not bound

tableVars == <<row, parts, files>>
clientVars == <<pc, op, at, handle, ops, crashes>>
seenVars == <<dirty, mixed, view, answer, failed>>
vars == <<tableVars, clientVars, records, seenVars>>

Partitions == 1..MaxParts
Content(file) == {<<k, file>> : k \in LinesOf(file)}
Contents == {NoTable, Bound} \cup {Content(f) : f \in Files \cup {BadFile}}
Lines == UNION {Content(f) : f \in Files \cup {BadFile}}
Rows ==
  [engine : {"standalone", "path"}, type : {None, "table"}, count : {None} \cup Nat]

\* Files have finitely many lines, and what stands for no value is no value.
ASSUME ContentsAssumption ==
  /\ IsFiniteSet(Lines) /\ \A f \in Files \cup {BadFile} : LinesOf(f) \subseteq Nat
  /\ None \notin Contents \cup Rows \cup {Uncertain, "table"}

Writes == {"upload", "delete", "bind", "drop"}

Writing(c) == pc[c] \notin {"idle", "close"} /\ op[c].kind \in Writes
Stored(n) == UNION {files[p] : p \in 1..n}

Visible ==
  CASE row = None -> NoTable
    [] row # None /\ row.engine = "path" -> Bound
    [] OTHER -> IF row.type = None THEN {} ELSE Stored(parts)

Held == IF dirty \/ mixed THEN Uncertain ELSE Visible

Asks(c) ==
  CASE op[c].kind = "upload" -> Content(op[c].file)
    [] op[c].kind = "bind" -> Bound
    [] OTHER -> NoTable

Init ==
  /\ row = None /\ parts = 0 /\ files = [p \in Partitions |-> {}]
  /\ pc = [c \in Clients |-> "idle"]
  /\ op = [c \in Clients |-> None]
  /\ handle = [c \in Clients |-> 0] /\ at = handle
  /\ records = {} /\ ops = 0 /\ crashes = 0
  /\ dirty = FALSE /\ mixed = FALSE /\ failed = 0
  /\ view = [c \in Clients |-> None]
  /\ answer = [c \in Clients |-> None]

(***************************************************************************)
(* A client begins, in a session of its own, and ends.                     *)
(***************************************************************************)
Goto(c, place) == pc' = [pc EXCEPT ![c] = place]

Begin(c, kind, upload) ==
  /\ pc[c] = "idle" /\ ops < MaxOps
  /\ ops' = ops + 1
  /\ op' = [op EXCEPT ![c] = [kind |-> kind, file |-> upload[1],
                              parts |-> upload[2], session |-> ops']]
  /\ Goto(c, IF kind = "bind" THEN "unrow" ELSE "look")
  /\ IF kind \in Writes
     THEN /\ dirty' = TRUE
          /\ mixed' = (mixed \/ \E d \in Clients : Writing(d))
          /\ view' = [d \in Clients |->
                       IF view[d] = None THEN None ELSE Uncertain]
     ELSE /\ view' = [view EXCEPT ![c] = Held]
          /\ UNCHANGED <<dirty, mixed>>
  /\ answer' = [answer EXCEPT ![c] = None]
  /\ UNCHANGED <<tableVars, at, handle, crashes, records, failed>>

Leave(c) ==
  /\ Goto(c, "idle")
  /\ op' = [op EXCEPT ![c] = None]
  /\ handle' = [handle EXCEPT ![c] = 0] /\ at' = [at EXCEPT ![c] = 0]

SaveRecord(c, engine) == records' = records \cup {<<op[c].session, engine>>}

Proceed(c, place) == Goto(c, place) /\ UNCHANGED <<dirty, failed, view, answer>>

Succeed(c) ==
  /\ Goto(c, "close")
  /\ dirty' = FALSE /\ failed' = 0
  /\ UNCHANGED <<view, answer>>

Fail(c) ==
  /\ Goto(c, "close")
  /\ failed' = IF /\ op[c].kind = "upload" /\ op[c].file # BadFile
                  /\ row # None => row.engine # "path"
               THEN failed + 1 ELSE failed
  /\ UNCHANGED <<dirty, view, answer>>

Answer(c, x) ==
  /\ Goto(c, "close")
  /\ answer' = [answer EXCEPT ![c] = x]
  /\ view' = [view EXCEPT ![c] = None]
  /\ UNCHANGED <<dirty, failed>>

\* The session is left: whatever is recorded of it is destroyed.
Close(c) ==
  /\ pc[c] = "close"
  /\ records' = {r \in records : r[1] # op[c].session}
  /\ Leave(c)
  /\ UNCHANGED <<tableVars, ops, crashes, seenVars>>

(***************************************************************************)
(* Finding the table: the row, and then what the engine knows of it.       *)
(***************************************************************************)
NoRow(c) ==
  CASE op[c].kind = "upload" -> Proceed(c, "create")
    [] op[c].kind = "read" -> Answer(c, NoTable)
    [] OTHER -> Succeed(c)

\* There is no storage session of the engine of a bound path.
Look(c) ==
  /\ pc[c] = "look"
  /\ \/ row = None /\ NoRow(c) /\ UNCHANGED records
     \/ /\ row # None /\ op[c].kind = "drop"
        /\ Proceed(c, "unrow") /\ UNCHANGED records
     \/ /\ row # None /\ op[c].kind # "drop"
        /\ SaveRecord(c, row.engine)
        /\ \/ row.engine # "path" /\ Proceed(c, "load")
           \/ row.engine = "path" /\ op[c].kind = "read" /\ Answer(c, Bound)
           \/ row.engine = "path" /\ op[c].kind # "read" /\ Fail(c)
  /\ UNCHANGED <<tableVars, op, at, handle, ops, crashes, mixed>>

Load(c) ==
  /\ pc[c] = "load"
  /\ \/ /\ row # None /\ parts # 0
        /\ handle' = [handle EXCEPT ![c] = parts]
        /\ Proceed(c, IF op[c].kind = "read" THEN "collect" ELSE "unrow")
     \/ row = None /\ NoRow(c) /\ UNCHANGED handle
     \/ /\ row # None /\ parts = 0
        /\ IF op[c].kind = "read" THEN Answer(c, NoTable) ELSE Fail(c)
        /\ UNCHANGED handle
  /\ UNCHANGED <<tableVars, op, at, ops, crashes, records, mixed>>

(***************************************************************************)
(* destroy: the row, then the directory of the table and the engine's      *)
(* record.                                                                 *)
(***************************************************************************)
DestroyMetas(c) ==
  /\ pc[c] = "unrow"
  /\ row' = None
  /\ CASE op[c].kind = "bind" -> Proceed(c, "enter")
       [] op[c].kind = "drop" -> Succeed(c)
       [] OTHER -> Proceed(c, "wipe")
  /\ UNCHANGED <<parts, files, op, at, handle, ops, crashes, records, mixed>>

\* Mutants: the directories are forgotten; the engine's record is.
M_KeepsFiles(c) ==
  /\ pc[c] = "wipe"
  /\ parts' = 0 /\ UNCHANGED files
  /\ IF op[c].kind = "delete" THEN Succeed(c) ELSE Proceed(c, "create")
  /\ UNCHANGED <<row, op, at, handle, ops, crashes, records, mixed>>
M_KeepsRecord(c) ==
  /\ pc[c] = "wipe"
  /\ files' = [p \in Partitions |-> {}] /\ UNCHANGED parts
  /\ IF op[c].kind = "delete" THEN Succeed(c) ELSE Proceed(c, "create")
  /\ UNCHANGED <<row, op, at, handle, ops, crashes, records, mixed>>

Destroy(c) ==
  /\ pc[c] = "wipe"
  /\ parts' = 0
  /\ files' = [p \in Partitions |-> {}]
  /\ IF op[c].kind = "delete" THEN Succeed(c) ELSE Proceed(c, "create")
  /\ UNCHANGED <<row, op, at, handle, ops, crashes, records, mixed>>

(***************************************************************************)
(* create_table: the engine's record first; one that is there is kept, and *)
(* then the object of the new table holds that record for a number of      *)
(* partitions.  Then the row, in the place of any other.                   *)
(***************************************************************************)
CreateTable(c) ==
  /\ pc[c] = "create"
  /\ parts' = IF parts = 0 THEN op[c].parts ELSE parts
  /\ handle' = [handle EXCEPT ![c] = IF parts = 0 THEN op[c].parts ELSE 0]
  /\ SaveRecord(c, "standalone")
  /\ Goto(c, "clear")
  /\ UNCHANGED <<row, files, op, at, ops, crashes, seenVars>>

DestroyIfExists(c) ==
  /\ pc[c] = "clear"
  /\ row' = None
  /\ Goto(c, "enter")
  /\ UNCHANGED <<parts, files, op, at, handle, ops, crashes, records, seenVars>>

\* A row that came in between is left as it is.
CreateMeta(c) ==
  /\ pc[c] = "enter"
  /\ row' = IF row # None THEN row
            ELSE [engine |-> IF op[c].kind = "bind" THEN "path"
                             ELSE "standalone",
                  type |-> None, count |-> None]
  /\ IF op[c].kind = "bind" THEN Succeed(c) ELSE Proceed(c, "put")
  /\ UNCHANGED <<parts, files, op, at, handle, ops, crashes, records, mixed>>

(***************************************************************************)
(* put_all commits partition by partition; then the count and the type.    *)
(***************************************************************************)
Part(k, n) == (k % n) + 1

Store(c, p) ==
  [files EXCEPT ![p] =
     {x \in @ : x[1] \notin LinesOf(op[c].file)}
     \cup {<<k, op[c].file>> :
             k \in {j \in LinesOf(op[c].file) : Part(j, handle[c]) = p}}]

Put(c) ==
  /\ pc[c] = "put"
  /\ IF handle[c] = 0 \/ op[c].file = BadFile THEN Fail(c)
     ELSE Proceed(c, "commit")
  /\ at' = [at EXCEPT ![c] = 1]
  /\ UNCHANGED <<tableVars, op, handle, ops, crashes, records, mixed>>

Commit(c) ==
  /\ pc[c] = "commit"
  /\ files' = Store(c, at[c])
  /\ at' = [at EXCEPT ![c] = IF @ < handle[c] THEN @ + 1 ELSE 0]
  /\ Goto(c, IF at[c] < handle[c] THEN "commit" ELSE "count")
  /\ UNCHANGED <<row, parts, op, handle, ops, crashes, records, seenVars>>

Count(c) ==
  /\ pc[c] = "count"
  /\ row' = IF row = None THEN None
            ELSE [row EXCEPT !.count = Cardinality(Stored(handle[c]))]
  /\ Goto(c, "type")
  /\ UNCHANGED <<parts, files, op, at, handle, ops, crashes, records, seenVars>>

SetType(c) ==
  /\ pc[c] = "type"
  /\ row' = IF row = None THEN None ELSE [row EXCEPT !.type = "table"]
  /\ Succeed(c)
  /\ UNCHANGED <<parts, files, op, at, handle, ops, crashes, records, mixed>>

\* A table whose type is not set yet gives no lines.
Collect(c) ==
  /\ pc[c] = "collect"
  /\ Answer(c, IF row # None /\ row.type = "table" THEN Stored(handle[c])
               ELSE {})
  /\ UNCHANGED <<tableVars, op, at, handle, ops, crashes, records, mixed>>

(***************************************************************************)
(* Killed processes, and the detector, which destroys sessions whose       *)
(* records are too old.  It may destroy one that is still in use, with no  *)
(* effect on its user, and only the others are looked at.                  *)
(***************************************************************************)
Crash(c) ==
  /\ pc[c] # "idle" /\ crashes < MaxCrashes
  /\ crashes' = crashes + 1
  /\ Leave(c)
  /\ view' = [view EXCEPT ![c] = None]
  /\ failed' = 0
  /\ UNCHANGED <<tableVars, ops, records, dirty, mixed, answer>>

\* Mutant: a record of an engine without sessions stays when one cannot be made.
M_Detect ==
  \E r \in records :
    /\ \A c \in Clients : op[c] # None => op[c].session # r[1]
    /\ records' = {x \in records : x[1] # r[1] \/ x[2] = "path"}
    /\ UNCHANGED <<tableVars, clientVars, seenVars>>

DetectExpiredSession ==
  \E r \in records :
    /\ \A c \in Clients : op[c] # None => op[c].session # r[1]
    /\ records' = {x \in records : x[1] # r[1]}
    /\ UNCHANGED <<tableVars, clientVars, seenVars>>

Step(c) ==
  \/ Look(c) \/ Load(c) \/ DestroyMetas(c) \/ Destroy(c)
  \/ CreateTable(c) \/ DestroyIfExists(c) \/ CreateMeta(c)
  \/ Put(c) \/ Commit(c) \/ Count(c) \/ SetType(c)
  \/ Collect(c) \/ Close(c)

Next ==
  \/ \E c \in Clients :
       \/ \E upload \in Uploads : Begin(c, "upload", upload)
       \/ \E kind \in (Writes \cup {"read"}) \ {"upload"} :
            Begin(c, kind, <<None, None>>)
  \/ \E c \in Clients : Step(c)
  \/ \E c \in Clients : Crash(c)
  \/ DetectExpiredSession

Spec == Init /\ [][Next]_vars

\* The processes run, and the detector comes round again.
FairSpec ==
  /\ Spec
  /\ \A c \in Clients : WF_vars(Step(c))
  /\ WF_vars(DetectExpiredSession)

(***************************************************************************)
(* Properties                                                              *)
(***************************************************************************)
\* Every step, of whatever many steps a write is made and wherever its
\* process is killed, is one the users of the warehouse are promised: a write
\* that ends leaves the table as it asks, and a read with no write near it
\* returns that.
Promise == INSTANCE Warehouse WITH
  content <- Held,
  writing <- [c \in Clients |-> IF Writing(c) THEN Asks(c) ELSE None]
KeepsPromise == Promise!Spec

\* The count in the row, which users see for the size of the data, is that of
\* the lines kept, once the upload is over.
CountIsContent ==
  (row # None /\ row.type # None /\ ~mixed) => row.count = Cardinality(Visible)

\* What a killed upload, or a row dropped from under it, leaves in the engine
\* makes the next upload fail, and never the one after it.
OneUploadFails == ~mixed => failed <= 1

\* Trouble leaves a table that tells its size truly and can be uploaded again.
TableRecovers == CountIsContent /\ OneUploadFails

\* No row of a session stays in the database, that of a killed process
\* included.
EverySessionGoes ==
  \A s \in 1..MaxOps :
    (\E r \in records : r[1] = s) ~> ~ \E r \in records : r[1] = s

==============================================================================
