--------------------------- MODULE DataTablesProofs ---------------------------
(***************************************************************************)
(* For any number of clients, files, partitions, operations and kills: the *)
(* steps of the clients keep the promise of the abstract warehouse, the    *)
(* count of a table is that of its lines, and what a write that was killed *)
(* leaves costs one upload.                                                *)
(***************************************************************************)
EXTENDS DataTables, TLAPS, FiniteSetTheorems

Kinds == Writes \cup {"read"}
Places ==
  {"idle", "look", "load", "unrow", "wipe", "create", "clear", "enter", "put",
   "commit", "count", "type", "collect", "close"}
Ops ==
  [kind : Kinds, file : Files \cup {BadFile, None}, parts : Partitions \cup {None},
   session : Nat]

TypeOK ==
  /\ row \in Rows \cup {None}
  /\ parts \in 0..MaxParts
  /\ files \in [Partitions -> SUBSET Lines]
  /\ pc \in [Clients -> Places]
  /\ op \in [Clients -> Ops \cup {None}]
  /\ at \in [Clients -> Nat] /\ handle \in [Clients -> 0..MaxParts]
  /\ dirty \in BOOLEAN /\ mixed \in BOOLEAN
  /\ view \in [Clients -> Contents \cup {Uncertain, None}]
  /\ DOMAIN answer = Clients
  /\ ops \in Nat /\ failed \in Nat

\* Which operations come to a place, and with what.
InPlace(c) ==
  /\ pc[c] # "idle" => op[c] \in Ops
  /\ pc[c] = "look" => op[c].kind # "bind"
  /\ pc[c] = "load" => op[c].kind \in {"upload", "delete", "read"}
  /\ pc[c] = "unrow" => op[c].kind \in Writes
  /\ pc[c] = "wipe" => op[c].kind \in {"upload", "delete"}
  /\ pc[c] \in {"create", "clear", "put", "commit", "count", "type"} => op[c].kind = "upload"
  /\ pc[c] = "enter" => op[c].kind \in {"upload", "bind"}
  /\ pc[c] = "collect" => op[c].kind = "read"
  /\ pc[c] # "idle" /\ op[c].kind = "upload" =>
       op[c].file \in Files \cup {BadFile} /\ op[c].parts \in Partitions

Reading(c) == pc[c] \notin {"idle", "close"} /\ op[c].kind = "read"
InEngine == row # None /\ row.engine = "standalone"

\* The table while nobody writes and no two have written at a time.
Clean == ~dirty /\ ~mixed

\* A reader no write has disturbed sees the table of when it began.
Reads(c) ==
  /\ Reading(c) <=> view[c] # None
  /\ view[c] \notin {None, Uncertain} =>
       /\ Clean /\ view[c] = Visible
       /\ pc[c] \in {"load", "collect"} => InEngine
       /\ pc[c] = "collect" => handle[c] = parts

\* How far a write has come that has the table to itself.
Blank == [engine |-> "standalone", type |-> None, count |-> None]
Share(c, p) ==
  {<<k, op[c].file>> : k \in {j \in LinesOf(op[c].file) : Part(j, handle[c]) = p}}
FilledTo(c, n) ==
  \A p \in Partitions : files[p] = IF p <= n THEN Share(c, p) ELSE {}
Empty == \A p \in Partitions : files[p] = {}

\* The upload has made the engine's record and not yet put anything.
Fills(c) ==
  pc[c] \in {"clear", "enter", "put"} /\ op[c].kind = "upload"

Doing(c) ==
  /\ pc[c] = "load" => InEngine
  /\ pc[c] = "unrow" /\ op[c].kind \in {"upload", "delete"} =>
       InEngine /\ handle[c] = parts
  /\ pc[c] \in {"wipe", "create", "clear", "enter"} => row = None
  /\ pc[c] = "wipe" => handle[c] = parts
  /\ pc[c] = "create" /\ parts = 0 => Empty
  /\ Fills(c) =>
       parts # 0 /\ (handle[c] # 0 => handle[c] = parts /\ Empty)
  /\ pc[c] = "put" => row = Blank
  /\ pc[c] = "commit" =>
       /\ row = Blank /\ handle[c] = parts /\ at[c] \in 1..parts
       /\ FilledTo(c, at[c] - 1)
  /\ pc[c] \in {"count", "type"} =>
       /\ InEngine /\ row.type = None
       /\ handle[c] = parts /\ parts # 0 /\ FilledTo(c, parts)
  /\ pc[c] = "type" => row.count = Cardinality(Stored(parts))

\* A failed upload leaves a row and an engine's record, so that the next begins by
\* destroying them.
AfterFailure(c) ==
  /\ pc[c] \in {"look", "load", "unrow"} => InEngine
  /\ pc[c] = "create" => parts = 0
  /\ Fills(c) =>
       handle[c] # 0

Table ==
  /\ \A p \in Partitions : p > parts => files[p] = {}
  /\ InEngine => parts # 0
  /\ ~dirty => (InEngine => row.type # None) /\ Visible \in Contents
  /\ row # None /\ row.type # None =>
       InEngine /\ row.count = Cardinality(Stored(parts))

Alone ==
  /\ \A c, d \in Clients : Writing(c) /\ Writing(d) => c = d
  /\ \A c \in Clients : Writing(c) => dirty /\ Doing(c)
  /\ failed <= 1
  /\ failed # 0 =>
       /\ \A c \in Clients : Writing(c) => AfterFailure(c)
       /\ (\A c \in Clients : ~Writing(c)) => InEngine

IInv ==
  /\ TypeOK
  /\ \A c \in Clients : InPlace(c) /\ Reads(c)
  /\ mixed \/ (Table /\ Alone)

-----------------------------------------------------------------------------
(* Lines and contents *)

LEMMA ContentFacts ==
  ASSUME NEW f \in Files \cup {BadFile}
  PROVE  Content(f) \in Contents /\ Content(f) \subseteq Lines
BY DEF Contents, Lines

LEMMA StoredFinite ==
  ASSUME TypeOK, NEW n \in 0..MaxParts
  PROVE  Stored(n) \in SUBSET Lines /\ Cardinality(Stored(n)) \in Nat
<1>1. Stored(n) \in SUBSET Lines
  BY BoundsAssumption DEF TypeOK, Stored, Partitions
<1> QED
  BY <1>1, ContentsAssumption, FS_Subset, FS_CardinalityType

\* The partitions an upload fills hold all of its file's lines.
LEMMA PartInRange ==
  ASSUME NEW k \in Nat, NEW n \in Nat \ {0}
  PROVE  Part(k, n) \in 1..n
BY DEF Part

LEMMA FilledIsWhole ==
  ASSUME TypeOK, NEW c \in Clients, op[c] \in Ops,
         op[c].file \in Files \cup {BadFile},
         handle[c] = parts, parts # 0, FilledTo(c, parts)
  PROVE  Stored(parts) = Content(op[c].file)
<1> DEFINE f == op[c].file
<1>1. parts \in Nat \ {0} /\ 1..parts \subseteq Partitions
  BY BoundsAssumption DEF TypeOK, Partitions
<1>2. \A p \in 1..parts : files[p] = Share(c, p)
  BY <1>1 DEF FilledTo
<1>3. Stored(parts) \subseteq Content(f)
  BY <1>2 DEF Stored, Share, Content
<1>4. ASSUME NEW x \in Content(f) PROVE x \in Stored(parts)
  <2>1. PICK k \in LinesOf(f) : x = <<k, f>>
    BY <1>4 DEF Content
  <2>2. k \in Nat
    BY <2>1, ContentsAssumption
  <2>3. Part(k, parts) \in 1..parts
    BY <1>1, <2>2, PartInRange
  <2>4. x \in Share(c, Part(k, parts))
    BY <2>1 DEF Share
  <2> QED
    BY <1>2, <2>3, <2>4 DEF Stored
<1> QED
  BY <1>3, <1>4

\* What a partition is given stays a set of lines, whatever it is.
LEMMA StoreTyped ==
  ASSUME TypeOK, NEW c \in Clients, InPlace(c), pc[c] = "commit", NEW p
  PROVE  Store(c, p) \in [Partitions -> SUBSET Lines]
<1> DEFINE f == op[c].file
<1>1. f \in Files \cup {BadFile}
  BY DEF InPlace
<1>2. {<<k, f>> : k \in {j \in LinesOf(f) : Part(j, handle[c]) = p}} \subseteq Lines
  BY <1>1, ContentFacts DEF Content
<1> QED
  BY <1>2 DEF TypeOK, Store

-----------------------------------------------------------------------------
(* What one client's step leaves of the invariant: that of a client that   *)
(* does not write, and that of one that does                               *)

Apart(c) ==
  \A d \in Clients \ {c} :
    /\ pc'[d] = pc[d] /\ op'[d] = op[d] /\ view'[d] = view[d]
    /\ handle'[d] = handle[d] /\ at'[d] = at[d]

LEMMA VisibleStays ==
  ASSUME UNCHANGED tableVars
  PROVE  Visible' = Visible /\ InEngine' = InEngine /\ Stored(parts)' = Stored(parts)
BY DEF tableVars, Visible, InEngine, Stored

LEMMA OthersInPlace ==
  ASSUME \A d \in Clients : InPlace(d), NEW c \in Clients, Apart(c), InPlace(c)'
  PROVE  \A d \in Clients : InPlace(d)'
BY DEF Apart, InPlace

LEMMA BystanderKeeps ==
  ASSUME IInv, TypeOK', NEW c \in Clients, ~Writing(c), ~Writing(c)', Apart(c),
         UNCHANGED <<tableVars, dirty, mixed>>, failed' \in {0, failed},
         InPlace(c)', Reads(c)'
  PROVE  IInv'
<1>1. \A d \in Clients : InPlace(d)'
  BY OthersInPlace DEF IInv
<1>2. \A d \in Clients : Reads(d)'
  BY VisibleStays DEF IInv, Apart, Reads, Reading, Clean, tableVars
<1>3. CASE ~mixed
  <2>1. Table /\ Alone
    BY <1>3 DEF IInv
  <2>2. Table'
    BY <2>1, VisibleStays DEF Table, InEngine, tableVars
  <2>3. \A d \in Clients : Writing(d)' <=> Writing(d)
    BY DEF Apart, Writing
  <2>4. ASSUME NEW d \in Clients, Writing(d)
        PROVE  Doing(d)' <=> Doing(d)
    <3>1. d # c
      BY <2>4
    <3>2. /\ pc'[d] = pc[d] /\ op'[d] = op[d] /\ handle'[d] = handle[d] /\ at'[d] = at[d]
          /\ row' = row /\ parts' = parts /\ files' = files
      BY <3>1 DEF Apart, tableVars
    <3> QED
      BY <3>2 DEF Doing, Fills, InEngine, Empty, FilledTo, Share, Stored
  <2>5. ASSUME NEW d \in Clients, Writing(d)
        PROVE  AfterFailure(d)' <=> AfterFailure(d)
    BY <2>5 DEF Apart, tableVars, AfterFailure, Fills, InEngine
  <2>6. Alone'
    BY <2>1, <2>3, <2>4, <2>5, VisibleStays DEF Alone, TypeOK
  <2> QED
    BY <1>1, <1>2, <2>2, <2>6 DEF IInv
<1> QED
  BY <1>1, <1>2, <1>3 DEF IInv

\* Of the client that writes alone.
Left(c) ==
  /\ Table /\ failed <= 1
  /\ Writing(c) => dirty /\ Doing(c)
  /\ failed # 0 => IF Writing(c) THEN AfterFailure(c) ELSE InEngine

LEMMA WriterFacts ==
  ASSUME IInv, NEW c \in Clients, Writing(c)
  PROVE  /\ ~Clean
         /\ \A d \in Clients : view[d] \in {None, Uncertain}
         /\ view[c] = None
         /\ ~mixed => Left(c) /\ \A d \in Clients \ {c} : ~Writing(d)
<1>1. ~Clean
  BY DEF IInv, Clean, Alone
<1>2. \A d \in Clients : view[d] \in {None, Uncertain}
  BY <1>1 DEF IInv, Reads
<1>3. view[c] = None
  BY DEF IInv, Reads, Reading, Writing, Writes
<1>4. ~mixed => Left(c) /\ \A d \in Clients \ {c} : ~Writing(d)
  BY DEF IInv, Alone, Left
<1> QED
  BY <1>1, <1>2, <1>3, <1>4

LEMMA WriterKeeps ==
  ASSUME IInv, TypeOK', NEW c \in Clients, Writing(c), Apart(c),
         ~Reading(c)', view'[c] = None, mixed' = mixed,
         InPlace(c)', ~mixed => Left(c)'
  PROVE  IInv'
<1>1. \A d \in Clients : InPlace(d)'
  BY OthersInPlace DEF IInv
<1>2. \A d \in Clients : Reads(d)'
  <2> TAKE d \in Clients
  <2>1. CASE d = c
    BY <2>1 DEF Reads
  <2>2. CASE d # c
    <3>1. view'[d] = view[d] /\ view[d] \in {None, Uncertain} /\ Reading(d)' = Reading(d)
      BY <2>2, WriterFacts DEF Apart, Reading
    <3> QED
      BY <3>1 DEF IInv, Reads
  <2> QED
    BY <2>1, <2>2
<1>3. CASE ~mixed
  <2>1. Left(c)' /\ \A d \in Clients \ {c} : ~Writing(d)
    BY <1>3, WriterFacts
  <2>2. \A d \in Clients \ {c} : ~Writing(d)'
    BY <2>1 DEF Apart, Writing
  <2>3. Alone'
    BY <2>1, <2>2 DEF Left, Alone
  <2> QED
    BY <1>1, <1>2, <2>1, <2>3 DEF IInv, Left
<1> QED
  BY <1>1, <1>2, <1>3 DEF IInv

-----------------------------------------------------------------------------
(* Init, and each action *)

LEMMA InitSound == Init => IInv
<1> SUFFICES ASSUME Init PROVE IInv
  OBVIOUS
<1>1. TypeOK
  <2>1. /\ row = None /\ parts = 0 /\ files = [p \in Partitions |-> {}]
        /\ pc = [c \in Clients |-> "idle"] /\ op = [c \in Clients |-> None]
        /\ handle = [c \in Clients |-> 0] /\ at = [c \in Clients |-> 0]
        /\ view = [c \in Clients |-> None]
    BY DEF Init
  <2>2. pc \in [Clients -> Places] /\ parts \in 0..MaxParts
    BY <2>1, BoundsAssumption DEF Places
  <2>3. handle \in [Clients -> 0..MaxParts] /\ at \in [Clients -> Nat]
    BY <2>1, BoundsAssumption
  <2>4. /\ files \in [Partitions -> SUBSET Lines] /\ op \in [Clients -> Ops \cup {None}]
        /\ view \in [Clients -> Contents \cup {Uncertain, None}]
    BY <2>1
  <2> QED
    BY <2>1, <2>2, <2>3, <2>4 DEF Init, TypeOK
<1>2. \A c \in Clients : InPlace(c) /\ Reads(c)
  BY DEF Init, InPlace, Reads, Reading
<1>3. Table /\ Alone
  BY DEF Init, Table, Alone, InEngine, Visible, Contents, Writing
<1> QED
  BY <1>1, <1>2, <1>3 DEF IInv

LEMMA HeldTyped ==
  ASSUME IInv
  PROVE  Held \in Contents \cup {Uncertain} /\ (Held # Uncertain => Clean /\ Held = Visible)
BY DEF IInv, Table, Held, Clean, TypeOK

LEMMA BeginKeeps ==
  ASSUME IInv, NEW c \in Clients, NEW kind \in Kinds, NEW upload,
         IF kind = "upload" THEN upload \in Uploads ELSE upload = <<None, None>>,
         Begin(c, kind, upload)
  PROVE  IInv'
<1> DEFINE place == IF kind = "bind" THEN "unrow" ELSE "look"
<1>0. /\ pc[c] = "idle" /\ pc' = [pc EXCEPT ![c] = place]
      /\ op' = [op EXCEPT ![c] = [kind |-> kind, file |-> upload[1],
                                  parts |-> upload[2], session |-> ops']]
      /\ ops' = ops + 1
      /\ UNCHANGED <<row, parts, files, at, handle, failed>>
      /\ answer' = [answer EXCEPT ![c] = None]
  BY DEF Begin, Goto, tableVars
<1>1. op'[c] \in Ops /\ op'[c].kind = kind
      /\ (kind = "upload" => op'[c].file \in Files \cup {BadFile} /\ op'[c].parts \in Partitions)
  BY <1>0, BoundsAssumption DEF IInv, TypeOK, Ops, Partitions
<1>2. InPlace(c)' /\ pc'[c] = place
  BY <1>0, <1>1 DEF IInv, TypeOK, InPlace, Writes, Kinds
<1>3. CASE kind \in Writes
  <2>1. /\ dirty' = TRUE /\ mixed' = (mixed \/ \E d \in Clients : Writing(d))
        /\ view' = [d \in Clients |-> IF view[d] = None THEN None ELSE Uncertain]
    BY <1>3 DEF Begin
  <2>2. TypeOK'
    BY <1>0, <1>1, <2>1 DEF IInv, TypeOK, Places
  <2>3. \A d \in Clients : InPlace(d)'
    <3>1. \A d \in Clients \ {c} : pc'[d] = pc[d] /\ op'[d] = op[d]
      BY <1>0 DEF IInv, TypeOK
    <3> QED
      BY <1>2, <3>1 DEF IInv, InPlace
  <2>4. \A d \in Clients : Reads(d)'
    <3> TAKE d \in Clients
    <3>1. view'[d] \in {None, Uncertain} /\ (view'[d] = None <=> view[d] = None)
      BY <2>1, ContentsAssumption
    <3>2. Reading(d)' <=> Reading(d)
      BY <1>0, <1>1, <1>3 DEF IInv, TypeOK, Reading, Writes
    <3> QED
      BY <3>1, <3>2 DEF IInv, Reads
  <2>5. CASE ~mixed'
    <3>1. ~mixed /\ \A d \in Clients : ~Writing(d)
      BY <2>1, <2>5 DEF IInv, TypeOK
    <3>2. Table /\ Alone
      BY <3>1 DEF IInv
    <3>3. Table'
      BY <1>0, <2>1, <3>2 DEF Table, InEngine, Stored
    <3>4. \A d \in Clients \ {c} : ~Writing(d)'
      BY <1>0, <3>1 DEF IInv, TypeOK, Writing
    <3>5. Doing(c)'
      BY <1>1, <1>2 DEF Doing, Fills
    <3>6. failed' # 0 => AfterFailure(c)'
      BY <1>0, <1>2, <3>1, <3>2 DEF Alone, AfterFailure, Fills, InEngine
    <3>7. Alone'
      BY <1>0, <2>1, <3>2, <3>4, <3>5, <3>6, <1>2, <1>1, <1>3 DEF Alone, Writing
    <3> QED
      BY <2>2, <2>3, <2>4, <3>3, <3>7 DEF IInv
  <2> QED
    BY <2>2, <2>3, <2>4, <2>5 DEF IInv
<1>4. CASE kind = "read"
  <2>1. view' = [view EXCEPT ![c] = Held] /\ UNCHANGED <<dirty, mixed>>
    BY <1>4 DEF Begin, Writes
  <2>2. TypeOK'
    BY <1>0, <1>1, <2>1, HeldTyped DEF IInv, TypeOK, Places
  <2>3. ~Writing(c) /\ ~Writing(c)'
    BY <1>0, <1>1, <1>4 DEF Writing, Writes
  <2>4. Apart(c)
    BY <1>0, <2>1 DEF IInv, TypeOK, Apart
  <2>5. UNCHANGED tableVars
    BY <1>0 DEF tableVars
  <2>6. Reads(c)'
    <3>1. view'[c] = Held /\ pc'[c] = "look" /\ Reading(c)'
      BY <1>1, <1>2, <1>4, <2>1 DEF IInv, TypeOK, Reading
    <3>2. Held # None
      BY HeldTyped, ContentsAssumption
    <3> QED
      BY <3>1, <3>2, <2>1, <2>5, HeldTyped, VisibleStays DEF Reads, Clean
  <2> QED
    BY <1>0, <1>2, <2>1, <2>2, <2>3, <2>4, <2>5, <2>6, BystanderKeeps
<1> QED
  BY <1>3, <1>4 DEF Kinds

LEMMA CloseKeeps ==
  ASSUME IInv, NEW c \in Clients, Close(c)
  PROVE  IInv'
<1>0. /\ pc[c] = "close" /\ pc' = [pc EXCEPT ![c] = "idle"] /\ op' = [op EXCEPT ![c] = None]
      /\ handle' = [handle EXCEPT ![c] = 0] /\ at' = [at EXCEPT ![c] = 0]
      /\ UNCHANGED <<row, parts, files, ops, crashes, dirty, mixed, view, answer, failed>>
  BY DEF Close, Leave, Goto, tableVars, seenVars
<1>1. TypeOK'
  BY <1>0, BoundsAssumption DEF IInv, TypeOK, Places
<1>2. ~Writing(c) /\ ~Writing(c)' /\ InPlace(c)' /\ pc'[c] = "idle"
  BY <1>0 DEF IInv, TypeOK, Writing, InPlace
<1>3. Apart(c)
  BY <1>0 DEF IInv, TypeOK, Apart
<1>4. Reads(c)'
  BY <1>0, <1>2 DEF IInv, Reads, Reading
<1> QED
  BY <1>0, <1>1, <1>2, <1>3, <1>4, BystanderKeeps DEF tableVars

LEMMA CrashKeeps ==
  ASSUME IInv, NEW c \in Clients, Crash(c)
  PROVE  IInv'
<1>0. /\ pc' = [pc EXCEPT ![c] = "idle"] /\ op' = [op EXCEPT ![c] = None]
      /\ handle' = [handle EXCEPT ![c] = 0] /\ at' = [at EXCEPT ![c] = 0]
      /\ view' = [view EXCEPT ![c] = None] /\ failed' = 0
      /\ UNCHANGED <<row, parts, files, ops, dirty, mixed, answer>>
  BY DEF Crash, Leave, Goto, tableVars
<1>1. TypeOK'
  BY <1>0, BoundsAssumption DEF IInv, TypeOK, Places
<1>2. InPlace(c)' /\ ~Writing(c)' /\ ~Reading(c)' /\ view'[c] = None
  BY <1>0 DEF IInv, TypeOK, Writing, Reading, InPlace
<1>3. Apart(c)
  BY <1>0 DEF IInv, TypeOK, Apart
<1>4. CASE ~Writing(c)
  BY <1>0, <1>1, <1>2, <1>3, <1>4, BystanderKeeps DEF tableVars, Reads
<1>5. CASE Writing(c)
  <2>1. ~mixed => Left(c)'
    <3> HAVE ~mixed
    <3>1. Left(c)
      BY <1>5, WriterFacts
    <3>2. Table'
      BY <1>0, <3>1, VisibleStays DEF Left, Table, tableVars, InEngine
    <3> QED
      BY <1>0, <1>2, <3>2 DEF Left
  <2> QED
    BY <1>0, <1>1, <1>2, <1>3, <1>5, <2>1, WriterKeeps
<1> QED
  BY <1>4, <1>5

\* Whatever a write's step comes to.
LEMMA OutcomeTyped ==
  ASSUME TypeOK, NEW c \in Clients,
         (\E place : Proceed(c, place)) \/ Succeed(c) \/ Fail(c)
  PROVE  UNCHANGED <<view, answer>> /\ dirty' \in BOOLEAN /\ failed' \in Nat
<1>1. \/ UNCHANGED <<dirty, failed, view, answer>>
      \/ dirty' = FALSE /\ failed' = 0 /\ UNCHANGED <<view, answer>>
      \/ failed' \in {failed, failed + 1} /\ UNCHANGED <<dirty, view, answer>>
  BY DEF Proceed, Succeed, Fail
<1>2. dirty \in BOOLEAN /\ failed \in Nat
  BY DEF TypeOK
<1>3. dirty' \in BOOLEAN
  BY <1>1, <1>2, Zenon
<1>4. failed' \in Nat
  BY <1>1, <1>2
<1> QED
  BY <1>1, <1>3, <1>4

LEMMA LookKeeps ==
  ASSUME IInv, NEW c \in Clients, Look(c)
  PROVE  IInv'
<1>0. /\ pc[c] = "look" /\ InPlace(c) /\ Reads(c) /\ TypeOK
      /\ UNCHANGED <<row, parts, files, op, at, handle, ops, mixed>>
  BY DEF Look, IInv, tableVars
<1>r. CASE op[c].kind = "read"
  <2>1. \/ row = None /\ Answer(c, NoTable)
        \/ row # None /\ row.engine = "path" /\ Answer(c, Bound)
        \/ row # None /\ row.engine # "path" /\ Proceed(c, "load")
    <3>1. NoRow(c) => Answer(c, NoTable)
      BY <1>r DEF NoRow
    <3> QED
      BY <1>r, <3>1 DEF Look
  <2>2. /\ ~Writing(c) /\ UNCHANGED <<dirty, failed>>
        /\ TypeOK' /\ Apart(c) /\ ~Writing(c)' /\ InPlace(c)' /\ Reads(c)'
    <3>1. CASE \E x : Answer(c, x)
      <4>1. PICK x : Answer(c, x)
        BY <3>1
      <4>2. /\ pc' = [pc EXCEPT ![c] = "close"] /\ answer' = [answer EXCEPT ![c] = x]
            /\ view' = [view EXCEPT ![c] = None] /\ UNCHANGED <<dirty, failed>>
        BY <4>1 DEF Answer, Goto
      <4> QED
        BY <1>0, <1>r, <4>2
           DEF TypeOK, Places, Apart, InPlace, Reads, Reading, Writing, Writes
    <3>2. CASE row # None /\ row.engine # "path" /\ Proceed(c, "load")
      <4>1. pc' = [pc EXCEPT ![c] = "load"] /\ UNCHANGED <<dirty, failed, view, answer>>
        BY <3>2 DEF Proceed, Goto
      <4>2. InEngine'
        BY <1>0, <3>2 DEF TypeOK, Rows, InEngine
      <4>3. TypeOK' /\ Apart(c) /\ InPlace(c)' /\ ~Writing(c) /\ ~Writing(c)'
        BY <1>0, <1>r, <4>1 DEF TypeOK, Places, Apart, InPlace, Writing, Writes
      <4>4. Reads(c)'
        BY <1>0, <1>r, <4>1, <4>2, VisibleStays
           DEF TypeOK, Reads, Reading, Clean, tableVars
      <4> QED
        BY <4>1, <4>3, <4>4
    <3> QED
      BY <2>1, <3>1, <3>2
  <2> QED
    BY <1>0, <2>2, BystanderKeeps DEF tableVars
<1>w. CASE op[c].kind # "read"
  <2>0. Writing(c) /\ op[c].kind \in {"upload", "delete", "drop"} /\ op[c] \in Ops
    BY <1>0, <1>w DEF InPlace, Ops, Kinds, Writes, Writing
  <2>1. \/ row = None /\ op[c].kind = "upload" /\ Proceed(c, "create")
        \/ row = None /\ op[c].kind \in {"delete", "drop"} /\ Succeed(c)
        \/ row # None /\ op[c].kind = "drop" /\ Proceed(c, "unrow")
        \/ row # None /\ row.engine # "path" /\ op[c].kind # "drop" /\ Proceed(c, "load")
        \/ row # None /\ row.engine = "path" /\ Fail(c)
    BY <2>0 DEF Look, NoRow
  <2>2. PICK place \in {"create", "close", "unrow", "load"} : pc' = [pc EXCEPT ![c] = place]
    BY <2>1 DEF Proceed, Succeed, Fail, Goto
  <2>3. /\ UNCHANGED <<view, answer>> /\ dirty' \in BOOLEAN /\ failed' \in Nat
    BY <1>0, <2>1, OutcomeTyped
  <2>a. TypeOK' /\ Apart(c)
    BY <1>0, <2>2, <2>3 DEF TypeOK, Places, Apart
  <2>b. \/ place = "create" /\ op[c].kind = "upload"
        \/ place = "load" /\ op[c].kind # "drop"
        \/ place \in {"close", "unrow"}
    BY <1>0, <2>1, <2>2 DEF Proceed, Succeed, Fail, Goto, TypeOK
  <2>4. InPlace(c)' /\ ~Reading(c)'
    BY <1>0, <2>0, <2>2, <2>b DEF TypeOK, InPlace, Reading, Writes
  <2>5. view'[c] = None
    BY <2>0, <2>3, WriterFacts
  <2>6. ~mixed => Left(c)'
    <3> HAVE ~mixed
    <3>1. Left(c) /\ dirty /\ Doing(c) /\ Table
      BY <2>0, WriterFacts DEF Left
    <3>2. CASE row = None /\ op[c].kind = "upload" /\ Proceed(c, "create")
      <4>1. pc'[c] = "create" /\ UNCHANGED <<dirty, failed>> /\ failed = 0
        BY <1>0, <2>0, <3>1, <3>2 DEF Proceed, Goto, TypeOK, Left, AfterFailure, InEngine
      <4>2. Table' /\ Doing(c)'
        BY <1>0, <3>1, <3>2, <4>1, BoundsAssumption
           DEF Table, Doing, Fills, InEngine, Empty, Stored, TypeOK, Partitions
      <4> QED
        BY <3>1, <4>1, <4>2 DEF Left
    <3>3. CASE row = None /\ op[c].kind \in {"delete", "drop"} /\ Succeed(c)
      <4>1. pc'[c] = "close" /\ failed' = 0 /\ Table'
        BY <1>0, <3>1, <3>3
           DEF Succeed, Goto, TypeOK, Table, InEngine, Visible, Contents
      <4> QED
        BY <4>1 DEF Left, Writing
    <3>4. CASE row # None /\ op[c].kind = "drop" /\ Proceed(c, "unrow")
      <4>1. pc'[c] = "unrow" /\ UNCHANGED <<dirty, failed>>
        BY <1>0, <3>4 DEF Proceed, Goto, TypeOK
      <4>2. Table' /\ Doing(c)' /\ (AfterFailure(c) => AfterFailure(c)')
        BY <1>0, <3>1, <3>4, <4>1
           DEF Table, Doing, Fills, InEngine, Stored, AfterFailure
      <4> QED
        BY <1>0, <2>0, <3>1, <4>1, <4>2 DEF Left, Writing
    <3>5. CASE row # None /\ row.engine # "path" /\ op[c].kind # "drop" /\ Proceed(c, "load")
      <4>1. pc'[c] = "load" /\ UNCHANGED <<dirty, failed>>
        BY <1>0, <3>5 DEF Proceed, Goto, TypeOK
      <4>2. InEngine'
        BY <1>0, <3>5 DEF TypeOK, Rows, InEngine
      <4>3. Table' /\ Doing(c)' /\ AfterFailure(c)'
        BY <1>0, <3>1, <4>1, <4>2 DEF Table, Doing, Fills, InEngine, Stored, AfterFailure
      <4> QED
        BY <1>0, <2>0, <3>1, <4>1, <4>2, <4>3 DEF Left, Writing
    <3>6. CASE row # None /\ row.engine = "path" /\ Fail(c)
      <4>1. pc'[c] = "close" /\ failed' = failed /\ dirty' = dirty
        BY <1>0, <3>6 DEF Fail, Goto, TypeOK
      <4>2. failed = 0
        BY <1>0, <2>0, <3>1, <3>6 DEF Left, AfterFailure, InEngine
      <4>3. Table'
        BY <1>0, <3>1, <4>1 DEF Table, InEngine, Stored
      <4> QED
        BY <4>1, <4>2, <4>3 DEF Left, Writing
    <3> QED
      BY <2>1, <3>2, <3>3, <3>4, <3>5, <3>6
  <2> QED
    BY <1>0, <2>0, <2>a, <2>4, <2>5, <2>6, WriterKeeps
<1> QED
  BY <1>r, <1>w

LEMMA CollectKeeps ==
  ASSUME IInv, NEW c \in Clients, Collect(c)
  PROVE  IInv'
<1>0. /\ pc[c] = "collect" /\ InPlace(c) /\ Reads(c) /\ TypeOK
      /\ UNCHANGED <<row, parts, files, op, at, handle, ops, mixed, dirty, failed>>
      /\ pc' = [pc EXCEPT ![c] = "close"] /\ view' = [view EXCEPT ![c] = None]
      /\ DOMAIN answer' = DOMAIN answer
  BY DEF Collect, IInv, tableVars, Answer, Goto
<1>1. /\ ~Writing(c) /\ TypeOK' /\ Apart(c) /\ ~Writing(c)' /\ InPlace(c)' /\ Reads(c)'
  BY <1>0 DEF TypeOK, Places, Apart, InPlace, Reads, Reading, Writing, Writes
<1> QED
  BY <1>0, <1>1, BystanderKeeps DEF tableVars

LEMMA LoadKeeps ==
  ASSUME IInv, NEW c \in Clients, Load(c)
  PROVE  IInv'
<1>0. /\ pc[c] = "load" /\ InPlace(c) /\ Reads(c) /\ TypeOK /\ op[c] \in Ops
      /\ UNCHANGED <<row, parts, files, op, at, ops, mixed>>
  BY DEF Load, IInv, tableVars, InPlace
<1>1. parts \in 0..MaxParts /\ handle' \in [Clients -> 0..MaxParts]
      /\ \A d \in Clients \ {c} : handle'[d] = handle[d]
  BY <1>0 DEF Load, TypeOK
<1>r. CASE op[c].kind = "read"
  <2>0. NoRow(c) => Answer(c, NoTable)
    BY <1>r DEF NoRow
  <2>1. \/ /\ row # None /\ parts # 0 /\ handle' = [handle EXCEPT ![c] = parts]
           /\ Proceed(c, "collect")
        \/ Answer(c, NoTable)
    BY <1>r, <2>0 DEF Load
  <2>2. CASE Answer(c, NoTable)
    <3>1. /\ pc' = [pc EXCEPT ![c] = "close"] /\ DOMAIN answer' = DOMAIN answer
          /\ view' = [view EXCEPT ![c] = None] /\ UNCHANGED <<dirty, failed>>
      BY <2>2 DEF Answer, Goto
    <3>2. /\ ~Writing(c) /\ TypeOK' /\ Apart(c) /\ ~Writing(c)' /\ InPlace(c)' /\ Reads(c)'
      BY <1>0, <1>1, <1>r, <3>1
         DEF TypeOK, Places, Apart, InPlace, Reads, Reading, Writing, Writes
    <3> QED
      BY <1>0, <3>1, <3>2, BystanderKeeps DEF tableVars
  <2>3. CASE /\ row # None /\ parts # 0 /\ handle' = [handle EXCEPT ![c] = parts]
             /\ Proceed(c, "collect")
    <3>1. pc' = [pc EXCEPT ![c] = "collect"] /\ UNCHANGED <<dirty, failed, view, answer>>
      BY <2>3 DEF Proceed, Goto
    <3>2. TypeOK' /\ Apart(c) /\ InPlace(c)' /\ ~Writing(c) /\ ~Writing(c)'
      BY <1>0, <1>1, <1>r, <3>1 DEF TypeOK, Places, Apart, InPlace, Writing, Writes
    <3>3. Reads(c)'
      BY <1>0, <1>r, <2>3, <3>1, VisibleStays
         DEF TypeOK, Reads, Reading, Clean, tableVars
    <3> QED
      BY <1>0, <3>1, <3>2, <3>3, BystanderKeeps DEF tableVars
  <2> QED
    BY <2>1, <2>2, <2>3
<1>w. CASE op[c].kind # "read"
  <2>0. Writing(c) /\ op[c].kind \in {"upload", "delete"}
    BY <1>0, <1>w DEF InPlace, Writes, Writing
  <2>1. \/ /\ row # None /\ parts # 0 /\ handle' = [handle EXCEPT ![c] = parts]
           /\ Proceed(c, "unrow")
        \/ row = None /\ op[c].kind = "upload" /\ Proceed(c, "create") /\ handle' = handle
        \/ row = None /\ op[c].kind = "delete" /\ Succeed(c)
        \/ row # None /\ parts = 0 /\ Fail(c)
    BY <2>0 DEF Load, NoRow
  <2>2. PICK place \in {"create", "close", "unrow"} : pc' = [pc EXCEPT ![c] = place]
    BY <2>1 DEF Proceed, Succeed, Fail, Goto
  <2>3. /\ UNCHANGED <<view, answer>> /\ dirty' \in BOOLEAN /\ failed' \in Nat
    BY <1>0, <2>1, OutcomeTyped
  <2>4. TypeOK' /\ Apart(c)
    BY <1>0, <1>1, <2>2, <2>3 DEF TypeOK, Places, Apart
  <2>5. place = "create" => op[c].kind = "upload"
    BY <1>0, <2>1, <2>2 DEF Proceed, Succeed, Fail, Goto, TypeOK
  <2>6. InPlace(c)' /\ ~Reading(c)'
    BY <1>0, <2>0, <2>2, <2>5 DEF TypeOK, InPlace, Reading, Writes
  <2>7. view'[c] = None
    BY <2>0, <2>3, WriterFacts
  <2>8. ~mixed => Left(c)'
    <3> HAVE ~mixed
    <3>1. Left(c) /\ dirty /\ Table /\ InEngine
      BY <1>0, <2>0, WriterFacts DEF Left, Doing
    <3>2. /\ handle' = [handle EXCEPT ![c] = parts] /\ Proceed(c, "unrow")
      BY <2>1, <3>1 DEF InEngine, Table
    <3>3. pc'[c] = "unrow" /\ handle'[c] = parts /\ UNCHANGED <<dirty, failed>>
      BY <1>0, <3>2 DEF Proceed, Goto, TypeOK
    <3>4. Table' /\ Doing(c)' /\ AfterFailure(c)'
      BY <1>0, <3>1, <3>3 DEF Table, Doing, Fills, InEngine, Stored, AfterFailure
    <3> QED
      BY <1>0, <2>0, <3>1, <3>3, <3>4 DEF Left, Writing
  <2> QED
    BY <1>0, <2>0, <2>4, <2>6, <2>7, <2>8, WriterKeeps
<1> QED
  BY <1>r, <1>w

LEMMA DestroyMetasKeeps ==
  ASSUME IInv, NEW c \in Clients, DestroyMetas(c)
  PROVE  IInv'
<1>0. /\ pc[c] = "unrow" /\ InPlace(c) /\ TypeOK /\ op[c] \in Ops
      /\ row' = None /\ UNCHANGED <<parts, files, op, at, handle, ops, mixed>>
  BY DEF DestroyMetas, IInv, InPlace
<1>1. Writing(c) /\ op[c].kind \in Writes
  BY <1>0 DEF InPlace, Writing
<1>2. \/ op[c].kind = "bind" /\ Proceed(c, "enter")
      \/ op[c].kind = "drop" /\ Succeed(c)
      \/ op[c].kind \in {"upload", "delete"} /\ Proceed(c, "wipe")
  BY <1>1 DEF DestroyMetas, Writes
<1>3. /\ UNCHANGED <<view, answer>> /\ view'[c] = None
      /\ dirty' \in BOOLEAN /\ failed' \in Nat
  BY <1>0, <1>1, <1>2, WriterFacts, OutcomeTyped
<1>4. PICK place \in {"enter", "close", "wipe"} : pc' = [pc EXCEPT ![c] = place]
  BY <1>2 DEF Proceed, Succeed, Goto
<1>5. TypeOK' /\ Apart(c)
  BY <1>0, <1>3, <1>4 DEF TypeOK, Places, Apart
<1>6. InPlace(c)' /\ ~Reading(c)'
  BY <1>0, <1>1, <1>2, <1>4 DEF Proceed, Succeed, Goto, TypeOK, InPlace, Reading, Writes
<1>7. ~mixed => Left(c)'
  <2> HAVE ~mixed
  <2>1. Left(c) /\ Table /\ Doing(c) /\ dirty
    BY <1>1, WriterFacts DEF Left
  <2>2. Table'
    BY <1>0, <2>1 DEF Table, InEngine, Visible, Contents
  <2>3. CASE place = "close"
    <3>1. failed' = 0 /\ pc'[c] = "close"
      BY <1>0, <1>2, <1>4, <2>3 DEF Proceed, Succeed, Goto, TypeOK
    <3> QED
      BY <2>2, <3>1 DEF Left, Writing
  <2>4. CASE place # "close"
    <3>1. UNCHANGED <<dirty, failed>> /\ pc'[c] = place
          /\ (op[c].kind = "bind" <=> place = "enter")
          /\ (place = "wipe" => op[c].kind \in {"upload", "delete"})
      BY <1>0, <1>2, <1>4, <2>4 DEF Proceed, Succeed, Goto, TypeOK
    <3>2. op'[c] = op[c] /\ handle'[c] = handle[c] /\ (place = "wipe" => handle[c] = parts)
      BY <1>0, <1>1, <1>4, <2>1, <2>4, <3>1 DEF Doing, Writes
    <3>3. Doing(c)'
      BY <1>0, <1>4, <2>4, <3>1, <3>2 DEF Doing, Fills
    <3>4. AfterFailure(c)'
      BY <1>4, <2>4, <3>1, <3>2 DEF AfterFailure, Fills
    <3> QED
      BY <2>1, <2>2, <3>1, <3>3, <3>4, <1>0, <1>1, <1>4, <2>4 DEF Left, Writing
  <2> QED
    BY <2>3, <2>4
<1> QED
  BY <1>0, <1>1, <1>3, <1>5, <1>6, <1>7, WriterKeeps

LEMMA DestroyKeeps ==
  ASSUME IInv, NEW c \in Clients, Destroy(c)
  PROVE  IInv'
<1>0. /\ pc[c] = "wipe" /\ InPlace(c) /\ TypeOK /\ op[c] \in Ops
      /\ parts' = 0 /\ files' = [p \in Partitions |-> {}]
      /\ UNCHANGED <<row, op, at, handle, ops, mixed>>
  BY DEF Destroy, IInv, InPlace
<1>1. Writing(c) /\ op[c].kind \in {"upload", "delete"}
  BY <1>0 DEF InPlace, Writing, Writes
<1>2. \/ op[c].kind = "delete" /\ Succeed(c)
      \/ op[c].kind = "upload" /\ Proceed(c, "create")
  BY <1>1 DEF Destroy
<1>3. /\ UNCHANGED <<view, answer>> /\ view'[c] = None
      /\ dirty' \in BOOLEAN /\ failed' \in Nat
  BY <1>0, <1>1, <1>2, WriterFacts, OutcomeTyped
<1>4. \/ op[c].kind = "delete" /\ pc' = [pc EXCEPT ![c] = "close"] /\ failed' = 0
      \/ /\ op[c].kind = "upload" /\ pc' = [pc EXCEPT ![c] = "create"]
         /\ UNCHANGED <<dirty, failed>>
  BY <1>2 DEF Proceed, Succeed, Goto
<1>5. TypeOK' /\ Apart(c)
  <2>1. files' \in [Partitions -> SUBSET Lines] /\ parts' \in 0..MaxParts
    BY <1>0, BoundsAssumption DEF TypeOK
  <2> QED
    BY <1>0, <1>3, <1>4, <2>1 DEF TypeOK, Places, Apart
<1>6. InPlace(c)' /\ ~Reading(c)'
  BY <1>0, <1>1, <1>4 DEF TypeOK, InPlace, Reading
<1>7. ~mixed => Left(c)'
  <2> HAVE ~mixed
  <2>1. Left(c) /\ Table /\ dirty /\ row = None /\ handle[c] = parts
    BY <1>0, <1>1, WriterFacts DEF Left, Doing
  <2>2. \A p \in Partitions : files'[p] = {}
    BY <1>0
  <2>3. Table'
    BY <1>0, <2>1, <2>2 DEF Table, InEngine, Visible, Contents
  <2>4. CASE op[c].kind = "delete"
    BY <1>0, <1>4, <2>3, <2>4 DEF Left, Writing, TypeOK
  <2>5. CASE op[c].kind = "upload"
    <3>1. pc'[c] = "create" /\ UNCHANGED <<dirty, failed>>
      BY <1>0, <1>4, <2>5 DEF TypeOK
    <3>2. Doing(c)' /\ AfterFailure(c)'
      BY <1>0, <2>1, <2>2, <3>1 DEF Doing, AfterFailure, Fills, Empty
    <3> QED
      BY <1>0, <2>1, <2>3, <2>5, <3>1, <3>2 DEF Left, Writing, Writes
  <2> QED
    BY <1>1, <2>4, <2>5
<1> QED
  BY <1>0, <1>1, <1>3, <1>5, <1>6, <1>7, WriterKeeps

LEMMA CreateTableKeeps ==
  ASSUME IInv, NEW c \in Clients, CreateTable(c)
  PROVE  IInv'
<1>0. /\ pc[c] = "create" /\ InPlace(c) /\ TypeOK /\ op[c] \in Ops
      /\ parts' = IF parts = 0 THEN op[c].parts ELSE parts
      /\ handle' = [handle EXCEPT ![c] = IF parts = 0 THEN op[c].parts ELSE 0]
      /\ pc' = [pc EXCEPT ![c] = "clear"]
      /\ UNCHANGED <<row, files, op, at, ops, mixed, dirty, view, answer, failed>>
  BY DEF CreateTable, IInv, InPlace, Goto, seenVars
<1>1. Writing(c) /\ op[c].kind = "upload" /\ op[c].parts \in 1..MaxParts
  BY <1>0 DEF InPlace, Writing, Writes, Partitions
<1>2. TypeOK' /\ Apart(c)
  <2>1. parts' \in 0..MaxParts /\ handle' \in [Clients -> 0..MaxParts] /\ parts' # 0
    BY <1>0, <1>1, BoundsAssumption DEF TypeOK
  <2> QED
    BY <1>0, <2>1 DEF TypeOK, Places, Apart
<1>3. InPlace(c)' /\ ~Reading(c)' /\ view'[c] = None
  BY <1>0, <1>1, WriterFacts DEF TypeOK, InPlace, Reading
<1>4. ~mixed => Left(c)'
  <2> HAVE ~mixed
  <2>1. Left(c) /\ Table /\ dirty /\ row = None /\ (parts = 0 => Empty)
        /\ (failed # 0 => parts = 0)
    BY <1>0, <1>1, WriterFacts DEF Left, Doing, AfterFailure
  <2>2. Table'
    BY <1>0, <1>1, <2>1, BoundsAssumption DEF Table, InEngine, TypeOK, Empty, Partitions
  <2>3. Doing(c)' /\ (failed' # 0 => AfterFailure(c)')
    BY <1>0, <1>1, <2>1, BoundsAssumption DEF Doing, AfterFailure, Fills, Empty, TypeOK
  <2> QED
    BY <1>0, <1>1, <2>1, <2>2, <2>3 DEF Left, Writing, TypeOK, Writes
<1> QED
  BY <1>0, <1>1, <1>2, <1>3, <1>4, WriterKeeps

LEMMA DestroyIfExistsKeeps ==
  ASSUME IInv, NEW c \in Clients, DestroyIfExists(c)
  PROVE  IInv'
<1>0. /\ pc[c] = "clear" /\ InPlace(c) /\ TypeOK /\ op[c] \in Ops
      /\ row' = None /\ pc' = [pc EXCEPT ![c] = "enter"]
      /\ UNCHANGED <<parts, files, op, at, handle, ops, mixed, dirty, view, answer, failed>>
  BY DEF DestroyIfExists, IInv, InPlace, Goto, seenVars
<1>1. Writing(c) /\ op[c].kind = "upload"
  BY <1>0 DEF InPlace, Writing, Writes
<1>2. TypeOK' /\ Apart(c) /\ InPlace(c)' /\ ~Reading(c)' /\ view'[c] = None
  BY <1>0, <1>1, WriterFacts DEF TypeOK, Places, Apart, InPlace, Reading
<1>3. ~mixed => Left(c)'
  <2> HAVE ~mixed
  <2>1. Left(c) /\ Table /\ dirty /\ Doing(c)
    BY <1>1, WriterFacts DEF Left
  <2>2. Table'
    BY <1>0, <2>1 DEF Table, InEngine
  <2>3. Doing(c)' /\ (AfterFailure(c) => AfterFailure(c)')
    BY <1>0, <1>1, <2>1 DEF Doing, AfterFailure, Fills, Empty, TypeOK
  <2> QED
    BY <1>0, <1>1, <2>1, <2>2, <2>3 DEF Left, Writing, TypeOK, Writes
<1> QED
  BY <1>0, <1>1, <1>2, <1>3, WriterKeeps

LEMMA CreateMetaKeeps ==
  ASSUME IInv, NEW c \in Clients, CreateMeta(c)
  PROVE  IInv'
<1> DEFINE new == [engine |-> IF op[c].kind = "bind" THEN "path" ELSE "standalone",
                   type |-> None, count |-> None]
<1>0. /\ pc[c] = "enter" /\ InPlace(c) /\ TypeOK /\ op[c] \in Ops
      /\ row' = IF row # None THEN row ELSE new
      /\ UNCHANGED <<parts, files, op, at, handle, ops, mixed>>
  BY DEF CreateMeta, IInv, InPlace
<1>1. Writing(c) /\ op[c].kind \in {"upload", "bind"}
  BY <1>0 DEF InPlace, Writing, Writes
<1>2. \/ op[c].kind = "bind" /\ Succeed(c)
      \/ op[c].kind = "upload" /\ Proceed(c, "put")
  BY <1>1 DEF CreateMeta
<1>3. /\ UNCHANGED <<view, answer>> /\ view'[c] = None
      /\ dirty' \in BOOLEAN /\ failed' \in Nat
  BY <1>0, <1>1, <1>2, WriterFacts, OutcomeTyped
<1>4. \/ op[c].kind = "bind" /\ pc' = [pc EXCEPT ![c] = "close"] /\ failed' = 0
      \/ /\ op[c].kind = "upload" /\ pc' = [pc EXCEPT ![c] = "put"]
         /\ UNCHANGED <<dirty, failed>>
  BY <1>2 DEF Proceed, Succeed, Goto
<1>5. new \in Rows /\ new # None
  BY ContentsAssumption DEF Rows
<1>6. TypeOK' /\ Apart(c)
  <2>1. row' \in Rows \cup {None}
    BY <1>0, <1>5 DEF TypeOK
  <2> QED
    BY <1>0, <1>3, <1>4, <2>1 DEF TypeOK, Places, Apart
<1>7. InPlace(c)' /\ ~Reading(c)'
  BY <1>0, <1>1, <1>4 DEF TypeOK, InPlace, Reading
<1>8. ~mixed => Left(c)'
  <2> HAVE ~mixed
  <2>1. Left(c) /\ Table /\ dirty /\ Doing(c) /\ row' = new
    BY <1>0, <1>1, WriterFacts DEF Left, Doing
  <2>2. CASE op[c].kind = "bind"
    <3>1. Table'
      BY <1>0, <1>5, <2>1, <2>2 DEF Table, InEngine, Visible, Contents
    <3> QED
      BY <1>0, <1>4, <2>2, <3>1 DEF Left, Writing, TypeOK
  <2>3. CASE op[c].kind = "upload"
    <3>1. /\ pc'[c] = "put" /\ UNCHANGED <<dirty, failed>> /\ row' = Blank
          /\ parts # 0
      BY <1>0, <1>4, <2>1, <2>3 DEF TypeOK, Blank, Doing, Fills
    <3>2. Table'
      BY <1>0, <2>1, <3>1 DEF Table, InEngine, Blank
    <3>3. Doing(c)' /\ (AfterFailure(c) => AfterFailure(c)')
      BY <1>0, <2>1, <2>3, <3>1 DEF Doing, AfterFailure, Fills, Empty
    <3> QED
      BY <1>0, <2>1, <2>3, <3>1, <3>2, <3>3 DEF Left, Writing, Writes
  <2> QED
    BY <1>1, <2>2, <2>3
<1> QED
  BY <1>0, <1>1, <1>3, <1>6, <1>7, <1>8, WriterKeeps

LEMMA PutKeeps ==
  ASSUME IInv, NEW c \in Clients, Put(c)
  PROVE  IInv'
<1>0. /\ pc[c] = "put" /\ InPlace(c) /\ TypeOK /\ op[c] \in Ops
      /\ at' = [at EXCEPT ![c] = 1]
      /\ UNCHANGED <<row, parts, files, op, handle, ops, mixed>>
  BY DEF Put, IInv, InPlace, tableVars
<1>1. Writing(c) /\ op[c].kind = "upload"
  BY <1>0 DEF InPlace, Writing, Writes
<1>2. \/ (handle[c] = 0 \/ op[c].file = BadFile) /\ Fail(c)
      \/ handle[c] # 0 /\ Proceed(c, "commit")
  BY DEF Put
<1>3. /\ UNCHANGED <<view, answer>> /\ view'[c] = None
      /\ dirty' \in BOOLEAN /\ failed' \in Nat
  BY <1>0, <1>1, <1>2, WriterFacts, OutcomeTyped
<1>4. PICK place \in {"close", "commit"} : pc' = [pc EXCEPT ![c] = place]
  BY <1>2 DEF Proceed, Fail, Goto
<1>5. TypeOK' /\ Apart(c) /\ InPlace(c)' /\ ~Reading(c)'
  BY <1>0, <1>1, <1>3, <1>4 DEF TypeOK, Places, Apart, InPlace, Reading
<1>6. ~mixed => Left(c)'
  <2> HAVE ~mixed
  <2>1. Left(c) /\ Table /\ dirty /\ Doing(c) /\ row = Blank
        /\ (failed # 0 => handle[c] # 0)
    BY <1>0, <1>1, WriterFacts DEF Left, Doing, AfterFailure, Fills
  <2>2. dirty' /\ Table'
    <3>1. dirty' = dirty
      BY <1>2 DEF Proceed, Fail
    <3>2. dirty'
      BY <2>1, <3>1, Zenon
    <3> QED
      BY <1>0, <2>1, <3>2 DEF Table, InEngine, Stored
  <2>3. InEngine'
    BY <1>0, <2>1, ContentsAssumption DEF Blank, InEngine, Rows
  <2>4. CASE (handle[c] = 0 \/ op[c].file = BadFile) /\ Fail(c)
    <3>1. failed' <= 1 /\ pc'[c] = "close"
      <4>1. op[c].file = BadFile => failed' = failed
        BY <2>4 DEF Fail
      <4>2. handle[c] = 0 => failed = 0
        BY <2>1
      <4>3. failed' \in {failed, failed + 1} /\ failed <= 1
        BY <2>1, <2>4 DEF Fail, Left
      <4> QED
        BY <1>0, <2>4, <4>1, <4>2, <4>3 DEF Fail, Goto, TypeOK
    <3> QED
      BY <2>2, <2>3, <3>1 DEF Left, Writing
  <2>5. CASE handle[c] # 0 /\ Proceed(c, "commit")
    <3>1. pc'[c] = "commit" /\ at'[c] = 1 /\ failed' = failed
      BY <1>0, <2>5 DEF Proceed, Goto, TypeOK
    <3>2. handle[c] = parts /\ Empty /\ parts \in Nat \ {0}
      BY <1>0, <1>1, <2>1, <2>5, BoundsAssumption DEF Doing, Fills, TypeOK
    <3>3. FilledTo(c, at[c] - 1)'
      <4>1. \A q \in Partitions : ~(q <= at'[c] - 1) /\ files'[q] = {}
        BY <1>0, <3>1, <3>2, BoundsAssumption DEF Empty, Partitions
      <4> QED
        BY <4>1 DEF FilledTo
    <3>4. Doing(c)' /\ AfterFailure(c)'
      BY <1>0, <2>1, <3>1, <3>2, <3>3 DEF Doing, AfterFailure, Fills
    <3> QED
      BY <2>1, <2>2, <2>3, <3>1, <3>4 DEF Left
  <2> QED
    BY <1>2, <2>4, <2>5
<1> QED
  BY <1>0, <1>1, <1>3, <1>5, <1>6, WriterKeeps

LEMMA CommitKeeps ==
  ASSUME IInv, NEW c \in Clients, Commit(c)
  PROVE  IInv'
<1> DEFINE p == at[c]
<1>0. /\ pc[c] = "commit" /\ InPlace(c) /\ TypeOK /\ op[c] \in Ops
      /\ files' = Store(c, p)
      /\ at' = [at EXCEPT ![c] = IF p < handle[c] THEN p + 1 ELSE 0]
      /\ pc' = [pc EXCEPT ![c] = IF p < handle[c] THEN "commit" ELSE "count"]
      /\ UNCHANGED <<row, parts, op, handle, ops, mixed, dirty, view, answer, failed>>
  BY DEF Commit, IInv, InPlace, Goto, seenVars
<1>1. Writing(c) /\ op[c].kind = "upload" /\ op[c].file \in Files \cup {BadFile}
  BY <1>0 DEF InPlace, Writing, Writes
<1>2. TypeOK' /\ Apart(c) /\ InPlace(c)' /\ ~Reading(c)' /\ view'[c] = None
  <2>1. files' \in [Partitions -> SUBSET Lines]
    BY <1>0, StoreTyped
  <2> QED
    BY <1>0, <1>1, <2>1, WriterFacts DEF TypeOK, Places, Apart, InPlace, Reading
<1>3. ~mixed => Left(c)'
  <2> HAVE ~mixed
  <2>1. /\ Left(c) /\ Table /\ dirty /\ row = Blank /\ handle[c] = parts /\ p \in 1..parts
        /\ FilledTo(c, p - 1)
    BY <1>0, <1>1, WriterFacts DEF Left, Doing
  <2>2. parts \in 1..MaxParts /\ p \in Partitions /\ p \in Nat
    BY <1>0, <2>1, BoundsAssumption DEF TypeOK, Partitions
  <2>3. files' = [files EXCEPT ![p] = Share(c, p)]
    <3>1. files[p] = {}
      BY <2>1, <2>2 DEF FilledTo
    <3> QED
      BY <1>0, <3>1 DEF Store, Share
  <2>4. \A q \in Partitions : Share(c, q)' = Share(c, q)
    BY <1>0 DEF Share
  <2>5. \A q \in Partitions : files'[q] = IF q <= p THEN Share(c, q)' ELSE {}
    <3> TAKE q \in Partitions
    <3>1. CASE q = p
      BY <1>0, <2>2, <2>3, <2>4, <3>1 DEF TypeOK
    <3>2. CASE q # p
      <4>1. files'[q] = files[q] /\ files[q] = IF q <= p - 1 THEN Share(c, q) ELSE {}
        BY <1>0, <2>1, <2>3, <3>2 DEF FilledTo, TypeOK
      <4>2. q <= p - 1 <=> q <= p
        BY <2>2, <3>2, BoundsAssumption DEF Partitions
      <4> QED
        BY <2>4, <4>1, <4>2
    <3> QED
      BY <3>1, <3>2
  <2>6. InEngine' /\ row' = Blank
    BY <1>0, <2>1, ContentsAssumption DEF Blank, InEngine, Rows
  <2>7. Table'
    BY <1>0, <2>1, <2>2, <2>5, <2>6 DEF Table, Blank, Partitions
  <2>8. CASE p < handle[c]
    <3>1. pc'[c] = "commit" /\ at'[c] = p + 1 /\ p + 1 \in 1..parts
      BY <1>0, <2>1, <2>2, <2>8 DEF TypeOK
    <3>2. FilledTo(c, at[c] - 1)'
      BY <2>2, <2>5, <3>1 DEF FilledTo
    <3>3. Doing(c)' /\ AfterFailure(c)'
      BY <1>0, <2>1, <2>6, <3>1, <3>2 DEF Doing, AfterFailure, Fills
    <3> QED
      BY <1>0, <2>1, <2>7, <2>6, <3>1, <3>3 DEF Left
  <2>9. CASE ~(p < handle[c])
    <3>1. pc'[c] = "count" /\ p = parts
      BY <1>0, <2>1, <2>2, <2>9 DEF TypeOK
    <3>2. FilledTo(c, parts)'
      BY <1>0, <2>2, <2>5, <3>1 DEF FilledTo
    <3>3. Doing(c)' /\ AfterFailure(c)'
      BY <1>0, <2>1, <2>2, <2>6, <3>1, <3>2 DEF Doing, AfterFailure, Fills, Blank
    <3> QED
      BY <1>0, <2>1, <2>7, <2>6, <3>1, <3>3 DEF Left
  <2> QED
    BY <2>8, <2>9
<1> QED
  BY <1>0, <1>1, <1>2, <1>3, WriterKeeps

LEMMA CountKeeps ==
  ASSUME IInv, NEW c \in Clients, Count(c)
  PROVE  IInv'
<1> DEFINE size == Cardinality(Stored(handle[c]))
<1>0. /\ pc[c] = "count" /\ InPlace(c) /\ TypeOK /\ op[c] \in Ops
      /\ row' = IF row = None THEN None ELSE [row EXCEPT !.count = size]
      /\ pc' = [pc EXCEPT ![c] = "type"]
      /\ UNCHANGED <<parts, files, op, at, handle, ops, mixed, dirty, view, answer, failed>>
  BY DEF Count, IInv, InPlace, Goto, seenVars
<1>1. Writing(c) /\ op[c].kind = "upload"
  BY <1>0 DEF InPlace, Writing, Writes
<1>2. size \in Nat
  BY <1>0, StoredFinite DEF TypeOK
<1>3. TypeOK' /\ Apart(c) /\ InPlace(c)' /\ ~Reading(c)' /\ view'[c] = None
  <2>1. row' \in Rows \cup {None}
    BY <1>0, <1>2 DEF TypeOK, Rows
  <2> QED
    BY <1>0, <1>1, <2>1, WriterFacts DEF TypeOK, Places, Apart, InPlace, Reading
<1>4. ~mixed => Left(c)'
  <2> HAVE ~mixed
  <2>1. /\ Left(c) /\ Table /\ dirty /\ InEngine /\ row.type = None /\ handle[c] = parts
        /\ parts # 0 /\ FilledTo(c, parts)
    BY <1>0, <1>1, WriterFacts DEF Left, Doing
  <2>2. row \in Rows /\ row' = [row EXCEPT !.count = size] /\ row' \in Rows
    BY <1>0, <1>2, <2>1 DEF TypeOK, InEngine, Rows
  <2>3. InEngine' /\ row'.type = None /\ row'.count = Cardinality(Stored(parts))'
    <3>1. InEngine' /\ row'.type = None /\ row'.count = size
      BY <2>1, <2>2, ContentsAssumption DEF InEngine, Rows
    <3>2. Stored(parts)' = Stored(handle[c])
      BY <1>0, <2>1 DEF Stored
    <3> QED
      BY <3>1, <3>2
  <2>4. Table'
    BY <1>0, <2>1, <2>3 DEF Table
  <2>5. FilledTo(c, parts)'
    BY <1>0, <2>1 DEF FilledTo, Share
  <2>6. Doing(c)' /\ AfterFailure(c)'
    BY <1>0, <2>1, <2>3, <2>5 DEF Doing, AfterFailure, Fills, TypeOK
  <2>7. Writing(c)'
    BY <1>0, <1>1 DEF Writing, Writes, TypeOK
  <2> QED
    BY <1>0, <2>1, <2>3, <2>4, <2>6, <2>7 DEF Left
<1> QED
  BY <1>0, <1>1, <1>3, <1>4, WriterKeeps

\* What the table is when an upload with the table to itself ends.
LEMMA UploadIsWhole ==
  ASSUME IInv, NEW c \in Clients, SetType(c), ~mixed
  PROVE  /\ row'.type = "table" /\ InEngine' /\ parts # 0
         /\ row'.count = Cardinality(Stored(parts))'
         /\ Visible' = Content(op[c].file) /\ Visible' \in Contents
<1>0. /\ pc[c] = "type" /\ InPlace(c) /\ TypeOK /\ op[c] \in Ops
      /\ row' = IF row = None THEN None ELSE [row EXCEPT !.type = "table"]
      /\ UNCHANGED <<parts, files>>
  BY DEF SetType, IInv, InPlace
<1>1. Writing(c) /\ op[c].kind = "upload" /\ op[c].file \in Files \cup {BadFile}
  BY <1>0 DEF InPlace, Writing, Writes
<1>2. /\ InEngine /\ handle[c] = parts /\ parts # 0 /\ FilledTo(c, parts)
      /\ row.count = Cardinality(Stored(parts))
  BY <1>0, <1>1, WriterFacts DEF Left, Doing
<1>3. row \in Rows /\ row' = [row EXCEPT !.type = "table"] /\ row' \in Rows
  BY <1>0, <1>2 DEF TypeOK, InEngine, Rows
<1>4. Stored(parts)' = Stored(parts)
  BY <1>0 DEF Stored
<1>5. row'.type = "table" /\ InEngine' /\ row'.count = row.count
  BY <1>2, <1>3, ContentsAssumption DEF InEngine, Rows
<1>6. Stored(parts) = Content(op[c].file)
  BY <1>0, <1>1, <1>2, FilledIsWhole
<1>7. Visible' = Stored(parts)'
  BY <1>5, ContentsAssumption DEF Visible, InEngine
<1> QED
  BY <1>1, <1>2, <1>4, <1>5, <1>6, <1>7, ContentFacts

LEMMA SetTypeKeeps ==
  ASSUME IInv, NEW c \in Clients, SetType(c)
  PROVE  IInv'
<1>0. /\ pc[c] = "type" /\ InPlace(c) /\ TypeOK /\ op[c] \in Ops
      /\ row' = IF row = None THEN None ELSE [row EXCEPT !.type = "table"]
      /\ pc' = [pc EXCEPT ![c] = "close"] /\ dirty' = FALSE /\ failed' = 0
      /\ UNCHANGED <<parts, files, op, at, handle, ops, mixed, view, answer>>
  BY DEF SetType, IInv, InPlace, Succeed, Goto
<1>1. Writing(c)
  BY <1>0 DEF InPlace, Writing, Writes
<1>2. TypeOK' /\ Apart(c) /\ InPlace(c)' /\ ~Reading(c)' /\ view'[c] = None
  <2>1. row' \in Rows \cup {None}
    BY <1>0 DEF TypeOK, Rows
  <2> QED
    BY <1>0, <1>1, <2>1, WriterFacts DEF TypeOK, Places, Apart, InPlace, Reading
<1>3. ~mixed => Left(c)'
  <2> HAVE ~mixed
  <2>1. Table
    BY <1>1, WriterFacts DEF Left
  <2>2. Table'
    BY <1>0, <2>1, UploadIsWhole, ContentsAssumption DEF Table
  <2> QED
    BY <1>0, <2>2 DEF Left, Writing, TypeOK
<1> QED
  BY <1>0, <1>1, <1>2, <1>3, WriterKeeps

\* Sessions' records are no part of it, and nothing else is in a step of the detector.
LEMMA NothingSeenKeeps ==
  ASSUME IInv, UNCHANGED <<tableVars, clientVars, seenVars>>
  PROVE  IInv'
<1>0. UNCHANGED <<row, parts, files, pc, op, at, handle, ops, dirty, mixed, view, answer, failed>>
  BY DEF tableVars, clientVars, seenVars
<1>1. TypeOK'
  BY <1>0 DEF IInv, TypeOK
<1>2. \A c \in Clients : InPlace(c)' /\ Reads(c)'
  BY <1>0, VisibleStays DEF IInv, InPlace, Reads, Reading, Clean, tableVars
<1>3. mixed' \/ (Table' /\ Alone')
  <2>1. Table => Table'
    BY <1>0, VisibleStays DEF Table, tableVars
  <2>2. \A c \in Clients : Doing(c)' = Doing(c) /\ AfterFailure(c)' = AfterFailure(c)
    BY <1>0 DEF Doing, AfterFailure, Fills, InEngine, Empty, FilledTo, Share, Stored
  <2>3. Alone => Alone'
    BY <1>0, <2>2 DEF Alone, Writing, InEngine
  <2> QED
    BY <1>0, <2>1, <2>3 DEF IInv
<1> QED
  BY <1>1, <1>2, <1>3 DEF IInv

LEMMA StepKeeps ==
  ASSUME IInv, NEW c \in Clients, Step(c)
  PROVE  IInv'
BY LookKeeps, LoadKeeps, DestroyMetasKeeps, DestroyKeeps, CreateTableKeeps,
   DestroyIfExistsKeeps, CreateMetaKeeps, PutKeeps, CommitKeeps, CountKeeps,
   SetTypeKeeps, CollectKeeps, CloseKeeps DEF Step

LEMMA NextKeeps ==
  ASSUME IInv, [Next]_vars
  PROVE  IInv'
<1>1. CASE UNCHANGED vars
  BY <1>1, NothingSeenKeeps DEF vars
<1>2. ASSUME NEW c \in Clients, NEW upload \in Uploads, Begin(c, "upload", upload)
      PROVE  IInv'
  BY <1>2, BeginKeeps DEF Kinds, Writes
<1>3. ASSUME NEW c \in Clients, NEW kind \in (Writes \cup {"read"}) \ {"upload"},
             Begin(c, kind, <<None, None>>)
      PROVE  IInv'
  BY <1>3, BeginKeeps DEF Kinds
<1>4. ASSUME NEW c \in Clients, Step(c) \/ Crash(c)
      PROVE  IInv'
  BY <1>4, StepKeeps, CrashKeeps
<1>5. CASE DetectExpiredSession
  BY <1>5, NothingSeenKeeps DEF DetectExpiredSession
<1> QED
  BY <1>1, <1>2, <1>3, <1>4, <1>5 DEF Next

THEOREM TableInvariant == Spec => []IInv
<1> QED
  BY InitSound, NextKeeps, PTL DEF Spec

\* A failed or killed upload costs one more upload at most, and the count users see for
\* the size of a table is that of its lines, however many processes are killed.
THEOREM TablesRecover == Spec => []TableRecovers
<1>1. ASSUME IInv PROVE TableRecovers
  <2>1. CountIsContent
    <3> SUFFICES ASSUME row # None, row.type # None, ~mixed
                 PROVE  row.count = Cardinality(Visible)
      BY DEF CountIsContent
    <3>1. Table
      BY <1>1 DEF IInv
    <3>2. InEngine /\ row.count = Cardinality(Stored(parts))
      BY <3>1 DEF Table
    <3> QED
      BY <3>2 DEF Visible, InEngine
  <2>2. OneUploadFails
    BY <1>1 DEF IInv, Alone, OneUploadFails
  <2> QED
    BY <2>1, <2>2 DEF TableRecovers
<1> QED
  BY <1>1, TableInvariant, PTL

-----------------------------------------------------------------------------
(* The promise: every step is one of the warehouse, or none                *)

Kept == Promise!Next \/ UNCHANGED Promise!vars

LEMMA AsksTyped ==
  ASSUME IInv, NEW c \in Clients, Writing(c)
  PROVE  Asks(c) \in Contents /\ Asks(c) # None
<1>1. op[c] \in Ops /\ InPlace(c)
  BY DEF IInv, InPlace, Writing
<1>2. op[c].kind = "upload" => op[c].file \in Files \cup {BadFile}
  BY <1>1 DEF InPlace, Writing
<1>3. Asks(c) \in Contents
  BY <1>2, ContentFacts DEF Asks, Contents
<1> QED
  BY <1>3, ContentsAssumption

\* While somebody writes the table holds anything.
LEMMA HeldWhileWriting ==
  ASSUME IInv, NEW c \in Clients, Writing(c)
  PROVE  Held = Uncertain
BY DEF IInv, Alone, Held

LEMMA StillWriting ==
  ASSUME IInv, NEW c \in Clients, Writing(c), Writing(c)', Apart(c),
         UNCHANGED <<op, dirty, mixed, view, answer>>
  PROVE  Kept
<1>1. \A d \in Clients : Writing(d)' <=> Writing(d)
  BY DEF Apart, Writing
<1>2. \A d \in Clients : Asks(d)' = Asks(d)
  BY DEF Asks
<1>3. Held = Uncertain /\ Held' = Uncertain
  <2>1. mixed \/ dirty
    BY DEF IInv, Alone
  <2> QED
    BY <2>1, HeldWhileWriting DEF Held
<1> QED
  BY <1>1, <1>2, <1>3 DEF Kept, Promise!vars

LEMMA WriteGivenUp ==
  ASSUME IInv, NEW c \in Clients, Writing(c), ~Writing(c)', Apart(c),
         UNCHANGED <<dirty, mixed, view, answer>>
  PROVE  Kept
<1> DEFINE W == [d \in Clients |-> IF Writing(d) THEN Asks(d) ELSE None]
<1>1. W[c] # None
  BY AsksTyped
<1>2. \A d \in Clients \ {c} : (Writing(d)' <=> Writing(d)) /\ Asks(d)' = Asks(d)
  BY DEF Apart, Writing, Asks
<1>3. W' = [W EXCEPT ![c] = None]
  BY <1>2
<1>4. Held' = Held
  <2>1. mixed \/ dirty
    BY DEF IInv, Alone
  <2> QED
    BY <2>1, HeldWhileWriting DEF Held
<1>5. Promise!GiveUp(c)
  BY <1>1, <1>3, <1>4 DEF Promise!GiveUp
<1> QED
  BY <1>5 DEF Kept, Promise!Next

LEMMA WriteEnds ==
  ASSUME IInv, NEW c \in Clients, Writing(c), Succeed(c), Apart(c),
         UNCHANGED <<op, mixed>>, ~mixed => Visible' = Asks(c)
  PROVE  Kept
<1> DEFINE W == [d \in Clients |-> IF Writing(d) THEN Asks(d) ELSE None]
<1>0. /\ dirty' = FALSE /\ UNCHANGED <<view, answer>> /\ ~Writing(c)'
  BY DEF Succeed, Goto, Writing, IInv, TypeOK
<1>1. W[c] # None /\ W[c] = Asks(c)
  BY AsksTyped
<1>2. \A d \in Clients \ {c} : (Writing(d)' <=> Writing(d)) /\ Asks(d)' = Asks(d)
  BY DEF Apart, Writing, Asks
<1>3. W' = [W EXCEPT ![c] = None]
  BY <1>0, <1>2
<1>4. Held' = IF mixed THEN Uncertain ELSE Asks(c)
  BY <1>0 DEF Held
<1>5. Promise!EndWrite(c)
  BY <1>0, <1>1, <1>3, <1>4 DEF Promise!EndWrite
<1> QED
  BY <1>5 DEF Kept, Promise!Next

\* A write's step, whichever it is.
LEMMA WriteKept ==
  ASSUME IInv, NEW c \in Clients, Writing(c), Apart(c), UNCHANGED <<op, mixed>>,
         \/ \E place \in Places \ {"idle", "close"} : Proceed(c, place)
         \/ \E place \in Places \ {"idle", "close"} : Goto(c, place) /\ UNCHANGED seenVars
         \/ Fail(c)
         \/ Succeed(c) /\ (~mixed => Visible' = Asks(c))
  PROVE  Kept
<1>1. ASSUME NEW place \in Places \ {"idle", "close"},
             Goto(c, place), UNCHANGED <<dirty, view, answer>>
      PROVE  Kept
  <2>1. Writing(c)'
    BY <1>1 DEF Goto, Writing, IInv, TypeOK
  <2> QED
    BY <1>1, <2>1, StillWriting
<1>2. CASE Fail(c)
  <2>1. ~Writing(c)' /\ UNCHANGED <<dirty, view, answer>>
    BY <1>2 DEF Fail, Goto, Writing, IInv, TypeOK
  <2> QED
    BY <2>1, WriteGivenUp
<1> QED
  BY <1>1, <1>2, WriteEnds DEF Proceed, seenVars

LEMMA NobodyWrites ==
  ASSUME IInv, NEW c \in Clients, ~Writing(c), ~Writing(c)', Apart(c),
         UNCHANGED <<tableVars, dirty, mixed>>
  PROVE  /\ Held' = Held
         /\ [d \in Clients |-> IF Writing(d) THEN Asks(d) ELSE None]'
              = [d \in Clients |-> IF Writing(d) THEN Asks(d) ELSE None]
<1>1. \A d \in Clients : Writing(d)' <=> Writing(d)
  BY DEF Apart, Writing
<1>2. \A d \in Clients : Writing(d) => Asks(d)' = Asks(d)
  BY DEF Apart, Asks
<1>3. Held' = Held
  BY VisibleStays DEF Held
<1> QED
  BY <1>1, <1>2, <1>3

\* A read that returns the table, or what it holds anyway.
LEMMA ReadEnds ==
  ASSUME IInv, NEW c \in Clients, Reading(c), Apart(c), UNCHANGED <<tableVars, mixed, op>>,
         NEW x, Answer(c, x), view[c] # Uncertain => x = view[c]
  PROVE  Kept
<1>0. /\ pc' = [pc EXCEPT ![c] = "close"] /\ answer' = [answer EXCEPT ![c] = x]
      /\ view' = [view EXCEPT ![c] = None] /\ UNCHANGED <<dirty, failed>>
  BY DEF Answer, Goto
<1>1. ~Writing(c) /\ ~Writing(c)'
  BY <1>0 DEF Reading, Writing, Writes, IInv, TypeOK
<1>2. view[c] # None
  BY DEF IInv, Reads
<1>3. answer'[c] = x /\ answer' = [answer EXCEPT ![c] = answer'[c]]
  BY <1>0 DEF IInv, TypeOK
<1>4. Promise!EndRead(c)
  BY <1>0, <1>1, <1>2, <1>3, NobodyWrites DEF Promise!EndRead
<1> QED
  BY <1>4 DEF Kept, Promise!Next

LEMMA StillReading ==
  ASSUME IInv, NEW c \in Clients, ~Writing(c), ~Writing(c)', Apart(c),
         UNCHANGED <<tableVars, dirty, mixed, view, answer>>
  PROVE  Kept
BY NobodyWrites DEF Kept, Promise!vars

LEMMA GoesApart ==
  ASSUME TypeOK, NEW c \in Clients, UNCHANGED <<op, view>>,
         \E place : Goto(c, place),
         \A d \in Clients \ {c} : handle'[d] = handle[d] /\ at'[d] = at[d]
  PROVE  Apart(c)
BY DEF TypeOK, Goto, Apart

\* A client that reads changes nothing but what it has seen itself.
LEMMA ReadsApart ==
  ASSUME TypeOK, NEW c \in Clients, NEW x, Answer(c, x), UNCHANGED <<op, handle, at>>
  PROVE  Apart(c)
BY DEF TypeOK, Answer, Goto, Apart

LEMMA LookKept ==
  ASSUME IInv, NEW c \in Clients, Look(c)
  PROVE  Kept
<1>0. /\ pc[c] = "look" /\ InPlace(c) /\ Reads(c) /\ TypeOK /\ op[c] \in Ops
      /\ UNCHANGED <<tableVars, op, at, handle, mixed>>
  BY DEF Look, IInv, InPlace
<1>r. CASE op[c].kind = "read"
  <2>0. Reading(c) /\ ~Writing(c)
    BY <1>0, <1>r DEF Reading, Writing, Writes
  <2>1. NoRow(c) => Answer(c, NoTable)
    BY <1>r DEF NoRow
  <2>2. \/ row = None /\ Answer(c, NoTable)
        \/ row # None /\ row.engine = "path" /\ Answer(c, Bound)
        \/ Proceed(c, "load")
    BY <1>r, <2>1 DEF Look
  <2>3. view[c] # Uncertain => view[c] = Visible
    BY <1>0, <2>0 DEF Reads
  <2>4. CASE row = None /\ Answer(c, NoTable)
    BY <1>0, <2>0, <2>3, <2>4, ReadsApart, ReadEnds DEF Visible
  <2>5. CASE row # None /\ row.engine = "path" /\ Answer(c, Bound)
    <3>1. Visible = Bound
      BY <2>5 DEF Visible
    <3> QED
      BY <1>0, <2>0, <2>3, <2>5, <3>1, ReadsApart, ReadEnds
  <2>6. CASE Proceed(c, "load")
    <3>1. Apart(c) /\ ~Writing(c)' /\ UNCHANGED <<dirty, view, answer>>
      BY <1>0, <1>r, <2>6, GoesApart DEF Proceed, Writing, Writes
    <3> QED
      BY <1>0, <2>0, <3>1, StillReading
  <2> QED
    BY <2>2, <2>4, <2>5, <2>6
<1>w. CASE op[c].kind # "read"
  <2>0. Writing(c) /\ op[c].kind \in {"upload", "delete", "drop"}
    BY <1>0, <1>w DEF InPlace, Ops, Kinds, Writes, Writing
  <2>1. \/ Proceed(c, "create") \/ Proceed(c, "unrow") \/ Proceed(c, "load")
        \/ row = None /\ op[c].kind \in {"delete", "drop"} /\ Succeed(c)
        \/ Fail(c)
    BY <2>0 DEF Look, NoRow
  <2>2. Apart(c)
    BY <1>0, <2>1, GoesApart DEF Proceed, Succeed, Fail
  <2>3. row = None /\ op[c].kind \in {"delete", "drop"} => Visible' = Asks(c)
    BY <1>0 DEF Visible, Asks, tableVars
  <2> QED
    BY <1>0, <2>0, <2>1, <2>2, <2>3, WriteKept DEF Places
<1> QED
  BY <1>r, <1>w

LEMMA LoadKept ==
  ASSUME IInv, NEW c \in Clients, Load(c)
  PROVE  Kept
<1>0. /\ pc[c] = "load" /\ InPlace(c) /\ Reads(c) /\ TypeOK /\ op[c] \in Ops
      /\ UNCHANGED <<tableVars, op, at, mixed>>
      /\ \A d \in Clients \ {c} : handle'[d] = handle[d]
  BY DEF Load, IInv, InPlace, TypeOK
<1>r. CASE op[c].kind = "read"
  <2>0. Reading(c) /\ ~Writing(c)
    BY <1>0, <1>r DEF Reading, Writing, Writes
  <2>1. NoRow(c) => Answer(c, NoTable)
    BY <1>r DEF NoRow
  <2>2. \/ /\ Answer(c, NoTable) /\ UNCHANGED handle
           /\ row = None \/ parts = 0
        \/ Proceed(c, "collect")
    BY <1>r, <2>1 DEF Load
  <2>3. CASE Answer(c, NoTable) /\ UNCHANGED handle /\ (row = None \/ parts = 0)
    <3>1. view[c] = Uncertain
      <4> SUFFICES ASSUME view[c] # Uncertain PROVE FALSE
        OBVIOUS
      <4>1. Clean /\ InEngine
        BY <1>0, <2>0 DEF Reads
      <4>2. parts # 0
        BY <4>1 DEF IInv, Table, Clean
      <4> QED
        BY <2>3, <4>1, <4>2 DEF InEngine
    <3> QED
      BY <1>0, <2>0, <2>3, <3>1, ReadsApart, ReadEnds
  <2>4. CASE Proceed(c, "collect")
    <3>1. Apart(c) /\ ~Writing(c)' /\ UNCHANGED <<dirty, view, answer>>
      BY <1>0, <1>r, <2>4, GoesApart DEF Proceed, Writing, Writes
    <3> QED
      BY <1>0, <2>0, <3>1, StillReading
  <2> QED
    BY <2>2, <2>3, <2>4
<1>w. CASE op[c].kind # "read"
  <2>0. Writing(c) /\ op[c].kind \in {"upload", "delete"}
    BY <1>0, <1>w DEF InPlace, Writes, Writing
  <2>1. \/ Proceed(c, "unrow") \/ Proceed(c, "create") \/ Fail(c)
        \/ row = None /\ op[c].kind = "delete" /\ Succeed(c)
    BY <2>0 DEF Load, NoRow
  <2>2. Apart(c)
    BY <1>0, <2>1, GoesApart DEF Proceed, Succeed, Fail
  <2>3. row = None /\ op[c].kind = "delete" => Visible' = Asks(c)
    BY <1>0 DEF Visible, Asks, tableVars
  <2> QED
    BY <1>0, <2>0, <2>1, <2>2, <2>3, WriteKept DEF Places
<1> QED
  BY <1>r, <1>w

LEMMA CollectKept ==
  ASSUME IInv, NEW c \in Clients, Collect(c)
  PROVE  Kept
<1>0. /\ pc[c] = "collect" /\ InPlace(c) /\ Reads(c) /\ TypeOK /\ op[c] \in Ops
      /\ UNCHANGED <<tableVars, op, at, handle, mixed>>
  BY DEF Collect, IInv, InPlace
<1>1. Reading(c)
  BY <1>0 DEF InPlace, Reading
<1> DEFINE x == IF row # None /\ row.type = "table" THEN Stored(handle[c]) ELSE {}
<1>2. Answer(c, x)
  BY DEF Collect
<1>3. view[c] # Uncertain => x = view[c]
  <2> HAVE view[c] # Uncertain
  <2>1. Clean /\ view[c] = Visible /\ InEngine /\ handle[c] = parts
    BY <1>0, <1>1 DEF Reads
  <2>2. row.type # None /\ row \in Rows
    BY <1>0, <2>1 DEF IInv, Table, Clean, InEngine, TypeOK
  <2>3. row.type = "table"
    BY <2>2 DEF Rows
  <2> QED
    BY <2>1, <2>2, <2>3 DEF Visible, InEngine
<1> QED
  BY <1>0, <1>1, <1>2, <1>3, ReadsApart, ReadEnds

LEMMA WritesKept ==
  ASSUME IInv, NEW c \in Clients,
         \/ DestroyMetas(c) \/ Destroy(c) \/ CreateTable(c) \/ DestroyIfExists(c)
         \/ CreateMeta(c) \/ Put(c) \/ Commit(c) \/ Count(c) \/ SetType(c)
  PROVE  Kept
<1>0. TypeOK /\ InPlace(c) /\ UNCHANGED <<op, mixed>>
  BY DEF IInv, DestroyMetas, Destroy, CreateTable, DestroyIfExists, CreateMeta, Put, Commit,
         Count, SetType, seenVars
<1>1. Writing(c) /\ op[c].kind \in Writes
  BY <1>0 DEF InPlace, Writing, Writes, DestroyMetas, Destroy, CreateTable, DestroyIfExists,
              CreateMeta, Put, Commit, Count, SetType
<1>2. \A d \in Clients \ {c} : handle'[d] = handle[d] /\ at'[d] = at[d]
  BY <1>0 DEF TypeOK, DestroyMetas, Destroy, CreateTable, DestroyIfExists, CreateMeta, Put,
              Commit, Count, SetType
<1>3. ~mixed => Left(c)
  BY <1>1, WriterFacts
<1>4. CASE DestroyMetas(c)
  <2>1. \/ Proceed(c, "enter") \/ Proceed(c, "wipe")
        \/ op[c].kind = "drop" /\ Succeed(c) /\ row' = None
    BY <1>1, <1>4 DEF DestroyMetas, Writes
  <2>2. row' = None /\ op[c].kind = "drop" => Visible' = Asks(c)
    BY DEF Visible, Asks
  <2> QED
    BY <1>0, <1>1, <1>2, <2>1, <2>2, GoesApart, WriteKept DEF Places, Proceed, Succeed
<1>5. CASE Destroy(c)
  <2>1. \/ Proceed(c, "create")
        \/ op[c].kind = "delete" /\ Succeed(c) /\ row' = row /\ pc[c] = "wipe"
    BY <1>5 DEF Destroy
  <2>2. pc[c] = "wipe" /\ ~mixed => row = None
    BY <1>1, <1>3 DEF Left, Doing
  <2>3. row' = None /\ op[c].kind = "delete" => Visible' = Asks(c)
    BY DEF Visible, Asks
  <2> QED
    BY <1>0, <1>1, <1>2, <2>1, <2>2, <2>3, GoesApart, WriteKept DEF Places, Proceed, Succeed
<1>6. CASE CreateTable(c) \/ DestroyIfExists(c) \/ Commit(c) \/ Count(c)
  <2>1. /\ UNCHANGED seenVars
        /\ Goto(c, "clear") \/ Goto(c, "enter") \/ Goto(c, "commit") \/ Goto(c, "count")
             \/ Goto(c, "type")
    BY <1>6 DEF CreateTable, DestroyIfExists, Commit, Count
  <2>2. Apart(c)
    BY <1>0, <1>2, <2>1, GoesApart DEF seenVars
  <2> QED
    BY <1>0, <1>1, <2>1, <2>2, WriteKept DEF Places
<1>7. CASE CreateMeta(c)
  <2>1. \/ Proceed(c, "put")
        \/ op[c].kind = "bind" /\ Succeed(c)
    BY <1>7 DEF CreateMeta
  <2>2. ~mixed => row = None
    BY <1>1, <1>3, <1>7 DEF CreateMeta, Left, Doing
  <2>3. ~mixed /\ op[c].kind = "bind" => Visible' = Asks(c)
    <3> HAVE ~mixed /\ op[c].kind = "bind"
    <3>1. row' = [engine |-> "path", type |-> None, count |-> None]
      BY <1>7, <2>2 DEF CreateMeta
    <3>2. row' # None
      BY <3>1, ContentsAssumption DEF Rows
    <3> QED
      BY <3>1, <3>2 DEF Visible, Asks
  <2> QED
    BY <1>0, <1>1, <1>2, <2>1, <2>3, GoesApart, WriteKept DEF Places, Proceed, Succeed
<1>8. CASE Put(c)
  <2>1. Fail(c) \/ Proceed(c, "commit")
    BY <1>8 DEF Put
  <2> QED
    BY <1>0, <1>1, <1>2, <2>1, GoesApart, WriteKept DEF Places, Proceed, Fail
<1>9. CASE SetType(c)
  <2>1. Succeed(c) /\ op[c].kind = "upload"
    BY <1>0, <1>9 DEF SetType, InPlace
  <2>2. ~mixed => Visible' = Asks(c)
    BY <1>9, <2>1, UploadIsWhole DEF Asks
  <2> QED
    BY <1>0, <1>1, <1>2, <2>1, <2>2, GoesApart, WriteKept DEF Succeed
<1> QED
  BY <1>4, <1>5, <1>6, <1>7, <1>8, <1>9

LEMMA BeginKept ==
  ASSUME IInv, NEW c \in Clients, NEW kind \in Kinds, NEW upload,
         IF kind = "upload" THEN upload \in Uploads ELSE upload = <<None, None>>,
         Begin(c, kind, upload)
  PROVE  Kept
<1> DEFINE W == [d \in Clients |-> IF Writing(d) THEN Asks(d) ELSE None]
<1>0. /\ TypeOK /\ Reads(c) /\ pc[c] = "idle" /\ ~Writing(c) /\ ~Reading(c)
      /\ pc' = [pc EXCEPT ![c] = IF kind = "bind" THEN "unrow" ELSE "look"]
      /\ op' = [op EXCEPT ![c] = [kind |-> kind, file |-> upload[1],
                                  parts |-> upload[2], session |-> ops']]
      /\ UNCHANGED tableVars /\ answer' = [answer EXCEPT ![c] = None]
  BY DEF Begin, Goto, IInv, Writing, Reading
<1>1. op'[c].kind = kind /\ pc'[c] \notin {"idle", "close"}
  BY <1>0 DEF TypeOK
<1>2. \A d \in Clients \ {c} : (Writing(d)' <=> Writing(d)) /\ Asks(d)' = Asks(d)
  BY <1>0 DEF TypeOK, Writing, Asks
<1>3. CASE kind \in Writes
  <2>1. /\ dirty' = TRUE /\ mixed' = (mixed \/ \E d \in Clients : Writing(d))
        /\ view' = [d \in Clients |-> IF view[d] = None THEN None ELSE Uncertain]
    BY <1>3 DEF Begin
  <2>2. Writing(c)'
    BY <1>1, <1>3 DEF Writing
  <2>3. Asks(c)' \in Contents
    <3>1. kind = "upload" => upload[1] \in Files \cup {BadFile}
      BY BoundsAssumption
    <3>2. op'[c].file = upload[1]
      BY <1>0 DEF TypeOK
    <3> QED
      BY <1>1, <3>1, <3>2, ContentFacts DEF Asks, Contents
  <2>4. W[c] = None /\ W' = [W EXCEPT ![c] = Asks(c)']
    BY <1>0, <1>2, <2>2
  <2>5. \A d \in Clients : W[d] # None <=> Writing(d)
    BY AsksTyped
  <2>6. Held' = Uncertain
    BY <2>1 DEF Held
  <2>7. mixed' = (mixed \/ \E d \in Clients : W[d] # None)
    BY <2>1, <2>5
  <2>8. Promise!StartWrite(c)
    BY <1>0, <2>1, <2>3, <2>4, <2>6, <2>7 DEF Promise!StartWrite
  <2> QED
    BY <2>8 DEF Kept, Promise!Next
<1>4. CASE kind = "read"
  <2>1. view' = [view EXCEPT ![c] = Held] /\ UNCHANGED <<dirty, mixed>>
    BY <1>4 DEF Begin, Writes
  <2>2. ~Writing(c)' /\ view[c] = None
    BY <1>0, <1>1, <1>4 DEF Writing, Writes, Reads
  <2>3. W' = W /\ Held' = Held
    BY <1>0, <1>2, <2>1, <2>2, VisibleStays DEF Held
  <2>4. Promise!StartRead(c)
    BY <1>0, <2>1, <2>2, <2>3 DEF Promise!StartRead
  <2> QED
    BY <2>4 DEF Kept, Promise!Next
<1> QED
  BY <1>3, <1>4 DEF Kinds

LEMMA CloseKept ==
  ASSUME IInv, NEW c \in Clients, Close(c)
  PROVE  Kept
<1>1. ~Writing(c) /\ ~Writing(c)' /\ Apart(c)
  BY DEF Close, Leave, Goto, IInv, TypeOK, Writing, Apart, seenVars
<1>2. UNCHANGED <<tableVars, dirty, mixed, view, answer>>
  BY DEF Close, seenVars
<1> QED
  BY <1>1, <1>2, StillReading

LEMMA CrashKept ==
  ASSUME IInv, NEW c \in Clients, Crash(c)
  PROVE  Kept
<1>1. ~Writing(c)' /\ Apart(c) /\ view' = [view EXCEPT ![c] = None]
  BY DEF Crash, Leave, Goto, IInv, TypeOK, Writing, Apart
<1>2. UNCHANGED <<tableVars, dirty, mixed, answer>>
  BY DEF Crash
<1>3. CASE view[c] = None
  <2>1. UNCHANGED view
    BY <1>1, <1>3 DEF IInv, TypeOK
  <2> QED
    BY <1>1, <1>2, <2>1, WriteGivenUp, StillReading
<1>4. CASE view[c] # None
  <2>1. ~Writing(c)
    BY <1>4, WriterFacts
  <2>2. Promise!StopRead(c)
    BY <1>1, <1>2, <1>4, <2>1, NobodyWrites DEF Promise!StopRead
  <2> QED
    BY <2>2 DEF Kept, Promise!Next
<1> QED
  BY <1>3, <1>4

LEMMA NothingSeenKept ==
  ASSUME UNCHANGED <<tableVars, clientVars, seenVars>>
  PROVE  Kept
<1>1. /\ \A d \in Clients : (Writing(d)' <=> Writing(d)) /\ Asks(d)' = Asks(d)
      /\ Held' = Held
  BY VisibleStays DEF clientVars, seenVars, Writing, Asks, Held
<1> QED
  BY <1>1 DEF Kept, Promise!vars, seenVars

LEMMA StepKept ==
  ASSUME IInv, NEW c \in Clients, Step(c)
  PROVE  Kept
BY LookKept, LoadKept, WritesKept, CollectKept, CloseKept DEF Step

LEMMA NextKept ==
  ASSUME IInv, [Next]_vars
  PROVE  Kept
<1>1. CASE UNCHANGED vars
  BY <1>1, NothingSeenKept DEF vars
<1>2. ASSUME NEW c \in Clients, NEW upload \in Uploads, Begin(c, "upload", upload)
      PROVE  Kept
  BY <1>2, BeginKept DEF Kinds, Writes
<1>3. ASSUME NEW c \in Clients, NEW kind \in (Writes \cup {"read"}) \ {"upload"},
             Begin(c, kind, <<None, None>>)
      PROVE  Kept
  BY <1>3, BeginKept DEF Kinds
<1>4. ASSUME NEW c \in Clients, Step(c) \/ Crash(c)
      PROVE  Kept
  BY <1>4, StepKept, CrashKept
<1>5. CASE DetectExpiredSession
  BY <1>5, NothingSeenKept DEF DetectExpiredSession
<1> QED
  BY <1>1, <1>2, <1>3, <1>4, <1>5 DEF Next

\* Every behaviour of the clients, killed wherever they are, is one the warehouse
\* promises.
THEOREM PromiseKept == Spec => KeepsPromise
<1>1. Init => Promise!Init
  BY DEF Init, Promise!Init, Held, Visible, Writing, Contents
<1>2. IInv /\ [Next]_vars => [Promise!Next]_(Promise!vars)
  BY NextKept DEF Kept
<1> QED
  BY <1>1, <1>2, TableInvariant, PTL DEF Spec, KeepsPromise, Promise!Spec

=============================================================================
