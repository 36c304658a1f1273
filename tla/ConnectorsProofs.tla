--------------------------- MODULE ConnectorsProofs ---------------------------
(***************************************************************************)
(* Proofs about Connectors, for any number of places, collections,           *)
(* documents, contents, jobs, leases, requests and workers, any checkpoints  *)
(* that operators give, and any bounds.                                      *)
(***************************************************************************)
EXTENDS Connectors, WellFoundedInduction, TLAPS

-----------------------------------------------------------------------------
(* The inductive invariant. *)

Hashes == [Doc -> Content]
ConnectionRow ==
  [kind : {"none", "slack", "github"}, on : BOOLEAN, place : Place \cup {"none"},
   target : Collection \cup {"none"}, cursor : Nat, hash : Hashes, synced : Nat, floor : Nat,
   told : Hashes]
KeyRecord == [place : Place \cup {"none"}, cursor : Nat, hash : Hashes, window : Nat]
RequestRecord == [at : {"idle", "write", "due", "enqueue"}, row : ConnectionRow, key : KeyRecord]
Working == {"dispatch", "fetch", "docs", "state", "save"}
RunRecord ==
  [at : {"free", "load", "return", "error"} \cup Working, job : Job \cup {0}, lease : Nat,
   row : ConnectionRow, todo : SUBSET Doc, got : Hashes, cursor : Nat, hash : Hashes,
   live : SUBSET Doc, looked : BOOLEAN, save : BOOLEAN, failed : BOOLEAN, lack : SUBSET Doc]

Types ==
  /\ conn \in ConnectionRow
  /\ up \in Hashes /\ stored \in [Collection -> Hashes]
  /\ home \in [Doc -> Place \cup {"none"}]
  /\ req \in [Request -> RequestRecord]
  /\ run \in [Worker -> RunRecord]
  /\ window \in Nat /\ edits \in Nat
  /\ leases \in [Job -> Nat]

\* What a checkpoint may say of the place and the collection of a row.
Hashed(h, row) ==
  \A d \in Doc : h[d] \in {0, row.told[d]} \/ <<row.target, d, h[d]>> \in uploaded
Reached(row, d) == <<row.target, d, 1>> \in uploaded \/ <<row.target, d>> \in missed
Passed(row, c) == {d \in Doc : row.floor < d /\ d <= c}
Covered(c, row) ==
  \A d \in Passed(row, c) : up[d] # 0 /\ (home[d] = row.place => Reached(row, d))

Row ==
  /\ Hashed(conn.hash, conn)
  /\ Covered(conn.cursor, conn)
  /\ IF Exists THEN conn.target \in Collection ELSE conn = Absent

\* Messages are posted in the order of their timestamps and are not edited.
Posted ==
  conn.kind = "slack" =>
    /\ \A d \in Doc : up[d] # 0 => up[d] = 1 /\ \A e \in Doc : e < d => up[e] # 0
    /\ \A c \in Collection : \A d \in Doc : stored[c][d] # 0 => <<c, d, 1>> \in uploaded

\* Before the source is created nothing has happened, and it is created once.
Fresh ==
  ~Exists /\ edits = 0 =>
    /\ up = NoHashes /\ \A c \in Collection : stored[c] = NoHashes
    /\ \A r \in Request : req[r].at # "write"
    /\ \A w \in Worker : run[w].at \in {"free", "load", "error"}

\* A row read before agrees with the connection, if that is still there.
Agrees(row) ==
  /\ row.target \in Collection
  /\ Hashed(row.hash, row)
  /\ Exists => row.kind = conn.kind /\ Covered(row.cursor, row)

Patched(q) == q.at = "write" => Agrees(q.row)

\* Up to the cursor of an attempt everything is reached or still to be done.
Advanced(x) ==
  /\ x.at \in Working => Agrees(x.row) /\ Hashed(x.hash, x.row)
  /\ x.at \in {"load", "dispatch", "fetch", "docs"} => ~x.failed
  /\ x.at = "load" => x.live = {}
  /\ x.at = "docs" =>
       \A d \in x.todo : x.got[d] # 0 /\ (Exists /\ conn.kind = "slack" => x.got[d] = 1)
  /\ x.at \in Working /\ Exists /\ conn.kind = "slack" =>
       \A d \in x.live : <<x.row.target, d, 1>> \in uploaded
  /\ x.at \in {"state", "save", "return"} /\ ~x.failed => x.todo = {}
  /\ x.at \in {"save", "return"} => ~x.failed
  /\ x.at \in {"docs", "state", "save"} /\ ~x.failed /\ Exists =>
       \A d \in Passed(x.row, x.cursor) :
         /\ up[d] # 0
         /\ home[d] = x.row.place =>
              Reached(x.row, d) \/ (d \in x.todo /\ conn.kind = "slack")

\* What it fetched was in the collection since it began or is still to be done.
Present(x) ==
  /\ x.row.target \in Collection =>
       \A d \in Doc : stored[x.row.target][d] # 0 => d \notin x.lack
  /\ \A d \in x.live : d \notin x.lack
  /\ x.at \in {"docs", "state", "save", "return"} /\ ~x.failed =>
       \A d \in Doc : x.got[d] # 0 => d \in x.todo \/ d \notin x.lack

Sound(x) == Advanced(x) /\ Present(x)

IInv ==
  /\ Types /\ Row /\ Posted /\ Fresh
  /\ \A r \in Request : Patched(req[r])
  /\ \A w \in Worker : Sound(run[w])

-----------------------------------------------------------------------------
(* Who does not move stays as he is. *)

Widens ==
  /\ uploaded \subseteq uploaded' /\ missed \subseteq missed'
  /\ \A d \in Doc : up[d] # 0 => up'[d] # 0 /\ home'[d] = home[d]
  /\ Exists' => Exists /\ conn'.kind = conn.kind

Grows ==
  Widens /\ \A c \in Collection : \A d \in Doc : stored'[c][d] # 0 => stored[c][d] # 0

LEMMA Stays ==
  ASSUME Types, Widens
  PROVE  /\ \A h \in Hashes, row \in ConnectionRow : Hashed(h, row) => Hashed(h, row)'
         /\ \A c \in Nat, row \in ConnectionRow : Covered(c, row) => Covered(c, row)'
         /\ \A row \in ConnectionRow : Agrees(row) => Agrees(row)'
         /\ \A q \in RequestRecord : Patched(q) => Patched(q)'
         /\ \A x \in RunRecord : Advanced(x) => Advanced(x)'
<1>1. \A h \in Hashes, row \in ConnectionRow : Hashed(h, row) => Hashed(h, row)'
  BY DEF Hashed, Widens
<1>2. \A row \in ConnectionRow : \A d \in Doc : Reached(row, d) => Reached(row, d)'
  BY DEF Reached, Widens
<1>3. \A c \in Nat, row \in ConnectionRow : Covered(c, row) => Covered(c, row)'
  BY <1>2 DEF Covered, Passed, Widens
<1>4. \A row \in ConnectionRow : Agrees(row) => Agrees(row)'
  <2>. SUFFICES ASSUME NEW row \in ConnectionRow, Agrees(row) PROVE Agrees(row)'
    OBVIOUS
  <2>1. row.hash \in Hashes /\ row.cursor \in Nat
    BY DEF ConnectionRow
  <2>. QED  BY <1>1, <1>3, <2>1 DEF Agrees, Widens
<1>5. \A q \in RequestRecord : Patched(q) => Patched(q)'
  BY <1>4 DEF Patched, RequestRecord
<1>6. ASSUME NEW x \in RunRecord, Advanced(x) PROVE Advanced(x)'
  <2>1. x.row \in ConnectionRow /\ x.hash \in Hashes /\ x.cursor \in Nat
    BY DEF RunRecord
  <2>2. x.at \in Working => Agrees(x.row)' /\ Hashed(x.hash, x.row)'
    BY <1>1, <1>4, <1>6, <2>1 DEF Advanced
  <2>3. ASSUME x.at \in {"docs", "state", "save"}, ~x.failed, Exists',
               NEW d \in Passed(x.row, x.cursor)
        PROVE  /\ up'[d] # 0
               /\ home'[d] = x.row.place =>
                    Reached(x.row, d)' \/ (d \in x.todo /\ conn'.kind = "slack")
    <3>1. Exists /\ conn'.kind = conn.kind
      BY <2>3 DEF Widens
    <3>2. /\ up[d] # 0
          /\ home[d] = x.row.place =>
               Reached(x.row, d) \/ (d \in x.todo /\ conn.kind = "slack")
      BY <1>6, <2>3, <3>1 DEF Advanced
    <3>3. d \in Doc
      BY DEF Passed
    <3>. QED  BY <1>2, <2>1, <3>1, <3>2, <3>3 DEF Widens
  <2>4. Exists' => Exists /\ conn'.kind = conn.kind
    BY DEF Widens
  <2>5. /\ x.at \in {"load", "dispatch", "fetch", "docs"} => ~x.failed
        /\ x.at = "load" => x.live = {}
        /\ x.at \in {"state", "save", "return"} /\ ~x.failed => x.todo = {}
        /\ x.at \in {"save", "return"} => ~x.failed
    BY <1>6 DEF Advanced
  <2>6. x.at = "docs" =>
          \A d \in x.todo : x.got[d] # 0 /\ (Exists' /\ conn'.kind = "slack" => x.got[d] = 1)
    BY <1>6, <2>4 DEF Advanced
  <2>7. x.at \in Working /\ Exists' /\ conn'.kind = "slack" =>
          \A d \in x.live : <<x.row.target, d, 1>> \in uploaded'
    <3>1. uploaded \subseteq uploaded'
      BY DEF Widens
    <3>. QED  BY <1>6, <2>4, <3>1 DEF Advanced
  <2>8. Passed(x.row, x.cursor)' = Passed(x.row, x.cursor)
    BY DEF Passed
  <2>. QED  BY <2>2, <2>3, <2>5, <2>6, <2>7, <2>8 DEF Advanced
<1>. QED  BY <1>1, <1>3, <1>4, <1>5, <1>6

LEMMA RowStays ==
  ASSUME IInv, Widens, UNCHANGED conn
  PROVE  Row'
<1>1. conn \in ConnectionRow /\ conn.hash \in Hashes /\ conn.cursor \in Nat
  BY DEF IInv, Types, ConnectionRow
<1>2. Hashed(conn.hash, conn)' /\ Covered(conn.cursor, conn)'
  BY <1>1, Stays DEF IInv, Row
<1>. QED  BY <1>2 DEF IInv, Row, Exists

LEMMA SoundStays ==
  ASSUME Types, Grows, NEW x \in RunRecord, Sound(x)
  PROVE  Sound(x)'
<1>1. Advanced(x)'
  BY Stays DEF Sound, Grows
<1>2. Present(x)'
  BY DEF Sound, Present, RunRecord, Grows
<1>. QED  BY <1>1, <1>2 DEF Sound

LEMMA Keeps ==
  ASSUME IInv, Grows, Types', Row', Posted', Fresh',
         \A r \in Request : req'[r] = req[r] \/ Patched(req[r])',
         \A w \in Worker : run'[w] = run[w] \/ Sound(run[w])'
  PROVE  IInv'
<1>1. \A r \in Request : Patched(req[r])'
  <2>. SUFFICES ASSUME NEW r \in Request, req'[r] = req[r] PROVE Patched(req[r])'
    OBVIOUS
  <2>1. req[r] \in RequestRecord /\ Patched(req[r])
    BY DEF IInv, Types
  <2>2. PICK q \in RequestRecord : q = req[r]
    BY <2>1
  <2>3. Patched(q)'
    BY <2>1, <2>2, Stays DEF IInv, Grows
  <2>. QED  BY <2>2, <2>3
<1>2. \A w \in Worker : Sound(run[w])'
  <2>. SUFFICES ASSUME NEW w \in Worker, run'[w] = run[w] PROVE Sound(run[w])'
    OBVIOUS
  <2>1. run[w] \in RunRecord /\ Sound(run[w])
    BY DEF IInv, Types
  <2>2. PICK x \in RunRecord : x = run[w]
    BY <2>1
  <2>3. Sound(x)'
    BY <2>1, <2>2, SoundStays DEF IInv
  <2>. QED  BY <2>2, <2>3
<1>. QED  BY <1>1, <1>2 DEF IInv

LEMMA DocOne == Doc \subseteq Nat \ {0} /\ Content \subseteq Nat /\ 0 \in Content
BY ConnectorsAssumption DEF Doc, Content

LEMMA Constant ==
  /\ NoHashes \in Hashes /\ Absent \in ConnectionRow /\ Free \in RunRecord /\ Idle \in RequestRecord
  /\ \A kind \in {"slack", "github"}, place \in Place, target \in Collection :
       NewConnection(kind, place, target) \in ConnectionRow
<1>1. NoHashes \in Hashes
  BY ConnectorsAssumption DEF NoHashes, Hashes, Content
<1>2. /\ Absent \in ConnectionRow
      /\ \A kind \in {"slack", "github"}, place \in Place, target \in Collection :
           NewConnection(kind, place, target) \in ConnectionRow
  BY <1>1 DEF Absent, NewConnection, ConnectionRow
<1>3. NoKey \in KeyRecord
  BY <1>1 DEF NoKey, KeyRecord
<1>. QED  BY <1>1, <1>2, <1>3 DEF Free, RunRecord, Idle, RequestRecord

LEMMA InitIInv == Init => IInv
<1>. SUFFICES ASSUME Init PROVE IInv
  OBVIOUS
<1>1. Types
  BY Constant DEF Init, Types, Q!CInit
<1>2. /\ Absent.kind = "none" /\ Absent.cursor = 0 /\ Absent.hash = NoHashes
      /\ Absent.floor = 0
  BY DEF Absent, NewConnection
<1>r. Row /\ Posted /\ Fresh
  BY <1>2, DocOne
     DEF Init, Row, Posted, Fresh, Hashed, Covered, Passed, NoHashes, Exists, Idle, Free
<1>3. \A r \in Request : Patched(req[r])
  BY DEF Init, Patched, Idle
<1>4. \A w \in Worker : Sound(run[w])
  BY DEF Init, Sound, Advanced, Present, Free, Working
<1>. QED  BY <1>1, <1>r, <1>3, <1>4 DEF IInv

-----------------------------------------------------------------------------
(* Upstream, the operator, the clock and requests. *)

LEMMA PublishIInv ==
  ASSUME IInv, NEW d \in Doc, NEW place \in Place, Publish(d, place)
  PROVE  IInv'
<1>1. /\ Exists /\ up' = [up EXCEPT ![d] = @ + 1] /\ home' = [home EXCEPT ![d] = place]
      /\ up[d] # 0 => place = home[d]
      /\ UNCHANGED <<conn, stored, uploaded, missed, req, run, window, edits, leases>>
  BY DEF Publish, Post, queue
<1>2. IF conn.kind = "slack" THEN up[d] = 0 /\ \A e \in Doc : e < d => up[e] # 0
                             ELSE up[d] < MaxContents
  BY DEF Publish
<1>3. Grows
  <2>1. \A e \in Doc : up[e] # 0 => up'[e] # 0 /\ home'[e] = home[e]
    <3>. SUFFICES ASSUME NEW e \in Doc, up[e] # 0 PROVE up'[e] # 0 /\ home'[e] = home[e]
      OBVIOUS
    <3>1. up[e] \in Nat /\ up'[e] = (IF e = d THEN up[d] + 1 ELSE up[e])
          /\ home'[e] = (IF e = d THEN place ELSE home[e])
      BY <1>1, DocOne DEF IInv, Types, Hashes
    <3>. QED  BY <1>1, <3>1
  <2>. QED  BY <1>1, <2>1 DEF Grows, Widens, Exists
<1>4. up' \in Hashes
  <2>1. up[d] + 1 \in Content
    BY <1>2, DocOne, ConnectorsAssumption DEF IInv, Types, Hashes, Content
  <2>. QED  BY <1>1, <2>1 DEF IInv, Types, Hashes
<1>5. Types'
  BY <1>1, <1>4 DEF IInv, Types
<1>6. Row'
  BY <1>1, <1>3, RowStays DEF Grows
<1>7. Posted'
  <2>. SUFFICES ASSUME conn.kind = "slack", NEW e \in Doc, up'[e] # 0
                PROVE  up'[e] = 1 /\ \A f \in Doc : f < e => up'[f] # 0
    BY <1>1 DEF Posted, IInv
  <2>1. \A f \in Doc : up'[f] = IF f = d THEN 1 ELSE up[f]
    BY <1>1, <1>2 DEF IInv, Types, Hashes
  <2>. QED  BY <1>2, <2>1 DEF IInv, Posted
<1>8. Fresh'
  BY <1>1 DEF Fresh, Exists
<1>. QED  BY <1>1, <1>3, <1>5, <1>6, <1>7, <1>8, Keeps

LEMMA DeleteDocumentIInv ==
  ASSUME IInv, NEW c \in Collection, NEW d \in Doc, DeleteDocument(c, d)
  PROVE  IInv'
<1>1. /\ stored' = [stored EXCEPT ![c][d] = 0] /\ edits' = edits + 1
      /\ UNCHANGED <<conn, up, home, uploaded, missed, req, run, window, leases>>
  BY DEF DeleteDocument, Edit, queue
<1>2. Grows
  BY <1>1 DEF Grows, Widens, Exists, IInv, Types, Hashes
<1>3. Types'
  BY <1>1, DocOne DEF IInv, Types, Hashes
<1>4. Row' /\ Posted'
  BY <1>1, <1>2, RowStays DEF IInv, Posted, Grows, Widens
<1>5. Fresh'
  BY <1>1 DEF Fresh, IInv, Types
<1>. QED  BY <1>1, <1>2, <1>3, <1>4, <1>5, Keeps

LEMMA TickIInv == ASSUME IInv, Tick PROVE IInv'
<1>1. window' = window + 1
      /\ UNCHANGED <<conn, up, home, stored, uploaded, missed, req, run, edits, leases>>
  BY DEF Tick, world, budget, queue
<1>2. Grows
  BY <1>1 DEF Grows, Widens, Exists
<1>3. Types'
  BY <1>1 DEF IInv, Types
<1>4. Row' /\ Posted' /\ Fresh'
  BY <1>1, <1>2, RowStays DEF IInv, Posted, Fresh, Exists, Grows
<1>. QED  BY <1>1, <1>2, <1>3, <1>4, Keeps

\* Nobody has read a row before there is one.
LEMMA CreateSourceIInv ==
  ASSUME IInv, NEW kind \in {"slack", "github"}, NEW place \in Place,
         NEW target \in Collection, CreateSource(kind, place, target)
  PROVE  IInv'
<1>1. /\ edits = 0 /\ conn = Absent /\ conn' = NewConnection(kind, place, target)
      /\ UNCHANGED <<up, home, stored, uploaded, missed, req, run, window, edits, leases>>
  BY DEF CreateSource, world, budget, queue
<1>2. /\ up = NoHashes /\ \A c \in Collection : stored[c] = NoHashes
      /\ \A r \in Request : req[r].at # "write"
      /\ \A w \in Worker : run[w].at \in {"free", "load", "error"}
  BY <1>1 DEF IInv, Fresh, Exists, Absent, NewConnection
<1>3. Types'
  BY <1>1, Constant DEF IInv, Types
<1>4. Row' /\ Exists'
  BY <1>1, DocOne DEF Row, NewConnection, NoHashes, Hashed, Covered, Passed, Exists
<1>5. Posted' /\ Fresh'
  BY <1>1, <1>2, <1>4 DEF Posted, Fresh, NoHashes
<1>6. \A r \in Request : Patched(req[r])'
  BY <1>1, <1>2 DEF Patched
<1>7. \A w \in Worker : Sound(run[w])'
  BY <1>1, <1>2 DEF IInv, Sound, Advanced, Present, Working
<1>. QED  BY <1>3, <1>4, <1>5, <1>6, <1>7 DEF IInv

LEMMA DeleteSourceIInv == ASSUME IInv, DeleteSource PROVE IInv'
<1>1. /\ conn' = Absent /\ edits' = edits + 1
      /\ UNCHANGED <<up, home, stored, uploaded, missed, req, run, window, leases>>
  BY DEF DeleteSource, Edit, world, queue
<1>2. /\ Absent.kind = "none" /\ Absent.cursor = 0 /\ Absent.hash = NoHashes
  BY DEF Absent, NewConnection
<1>3. Grows
  BY <1>1, <1>2 DEF Grows, Widens, Exists
<1>4. Types'
  BY <1>1, Constant DEF IInv, Types
<1>5. Row' /\ Posted'
  BY <1>1, <1>2, DocOne DEF Row, Posted, NoHashes, Hashed, Covered, Passed, Exists
<1>6. Fresh'
  BY <1>1 DEF Fresh, IInv, Types
<1>. QED  BY <1>1, <1>3, <1>4, <1>5, <1>6, Keeps

\* A request that moves and leaves everything else alone.
LEMMA RequestMoves ==
  ASSUME IInv, NEW r \in Request, NEW y \in RequestRecord, req' = [req EXCEPT ![r] = y],
         Patched(y), y.at = "write" => edits' # 0, edits' \in Nat, edits' = 0 => edits = 0,
         UNCHANGED <<conn, up, home, stored, uploaded, missed, run, window, leases>>
  PROVE  IInv'
<1>1. Grows
  BY DEF Grows, Widens, Exists
<1>2. Types'
  BY DEF IInv, Types
<1>3. Row' /\ Posted'
  BY <1>1, RowStays DEF IInv, Posted, Grows, Widens
<1>4. Fresh'
  BY DEF IInv, Fresh, Types, Exists
<1>5. \A s \in Request : req'[s] = req[s] \/ Patched(req[s])'
  <2>1. Patched(y)'
    BY <1>1, Stays DEF IInv, Grows
  <2>. QED  BY <2>1 DEF IInv, Types
<1>. QED  BY <1>1, <1>2, <1>3, <1>4, <1>5, Keeps

\* What an edit leaves of what syncs know is true of the row it makes.
LEMMA PutAgrees ==
  ASSUME NEW row \in ConnectionRow, NEW place \in Place, NEW target \in Collection,
         NEW on \in BOOLEAN, NEW given \in [cursor : Nat, hash : Hashes],
         row.kind = conn.kind, Hashed(row.hash, row), Covered(row.cursor, row)
  PROVE  /\ Put(row, place, target, on, given) \in ConnectionRow
         /\ Agrees(Put(row, place, target, on, given))
<1>. DEFINE same == target = row.target /\ given = Checkpoint(row)
            n == Put(row, place, target, on, given)
<1>1. /\ n \in ConnectionRow /\ n.kind = row.kind /\ n.place = place /\ n.target = target
      /\ n.cursor = given.cursor /\ n.hash = given.hash
      /\ n.floor = (IF same /\ place = row.place THEN row.floor ELSE given.cursor)
      /\ n.told = (IF same THEN row.told ELSE given.hash)
  BY DEF Put, ConnectionRow
<1>. HIDE DEF n
<1>2. same => given.cursor = row.cursor /\ given.hash = row.hash /\ target = row.target
  BY DEF Checkpoint
<1>3. Hashed(n.hash, n)
  BY <1>1, <1>2 DEF Hashed
<1>4. Covered(n.cursor, n)
  <2>1. CASE same /\ place = row.place
    <3>1. /\ n.cursor = row.cursor /\ n.floor = row.floor /\ n.place = row.place
          /\ n.target = row.target
      BY <1>1, <1>2, <2>1
    <3>2. Passed(n, n.cursor) = Passed(row, row.cursor)
      BY <3>1 DEF Passed
    <3>3. \A d \in Doc : Reached(row, d) => Reached(n, d)
      BY <3>1 DEF Reached
    <3>. QED  BY <3>1, <3>2, <3>3 DEF Covered, Passed
  <2>2. CASE ~(same /\ place = row.place)
    <3>1. n.floor = given.cursor /\ n.cursor = given.cursor
      BY <1>1, <2>2
    <3>2. given.cursor \in Nat /\ Doc \subseteq Nat
      BY DocOne
    <3>3. \A d \in Doc : ~(given.cursor < d /\ d <= given.cursor)
      <4>. SUFFICES ASSUME NEW c \in Nat, NEW d \in Nat PROVE ~(c < d /\ d <= c)
        BY <3>2
      <4>. QED  OBVIOUS
    <3>4. \A d \in Doc : d \notin Passed(n, n.cursor)
      BY <3>1, <3>3, Zenon DEF Passed
    <3>. QED  BY <3>4 DEF Covered, Passed
  <2>. QED  BY <2>1, <2>2
<1>5. Agrees(n)
  BY <1>1, <1>3, <1>4 DEF Agrees
<1>. QED  BY <1>1, <1>5 DEF n

LEMMA ReadSourceIInv == ASSUME IInv, NEW r \in Request, ReadSource(r) PROVE IInv'
<1>1. /\ Exists /\ edits' = edits + 1
      /\ UNCHANGED <<conn, up, home, stored, uploaded, missed, run, window, leases>>
  BY DEF ReadSource, Edit, world, queue
<1>2. PICK row \in Patches(conn) :
        req' = [req EXCEPT ![r] = [Idle EXCEPT !.at = "write", !.row = row]]
  BY DEF ReadSource
<1>3. /\ conn \in ConnectionRow /\ conn.target \in Collection
      /\ Hashed(conn.hash, conn) /\ Covered(conn.cursor, conn)
  BY <1>1 DEF IInv, Types, Row
<1>4. row \in ConnectionRow /\ Agrees(row)
  <2>1. Checkpoint(conn) \in [cursor : Nat, hash : Hashes]
    BY <1>3 DEF ConnectionRow, Checkpoint
  <2>2. Checkpoints \subseteq [cursor : Nat, hash : Hashes]
    BY ConnectorsAssumption DEF Hashes, Doc, Content
  <2>3. PICK place \in Place, target \in Collection, on \in BOOLEAN,
             given \in Checkpoints \cup {Checkpoint(conn)} :
               row = Put(conn, place, target, on, given)
    <3>. DEFINE All == {Put(conn, place, target, on, given) :
                          place \in Place, target \in Collection, on \in BOOLEAN,
                          given \in Checkpoints \cup {Checkpoint(conn)}}
    <3>1. row \in All
      BY <1>2 DEF Patches
    <3>. QED  BY <3>1
  <2>4. given \in [cursor : Nat, hash : Hashes]
    BY <2>1, <2>2
  <2>. QED  BY <1>3, <2>3, <2>4, PutAgrees
<1>. DEFINE y == [Idle EXCEPT !.at = "write", !.row = row]
<1>5. y \in RequestRecord /\ y.at = "write" /\ y.row = row
  BY <1>4, Constant DEF RequestRecord, Idle
<1>6. Patched(y)
  BY <1>4, <1>5 DEF Patched
<1>7. edits' \in Nat /\ edits' # 0
  BY <1>1 DEF IInv, Types
<1>. QED  BY <1>1, <1>2, <1>5, <1>6, <1>7, RequestMoves

LEMMA QuietRequestIInv ==
  ASSUME IInv, NEW r \in Request, RunOnce(r) \/ SyncSource(r) \/ Enqueue(r) \/ EndRequest(r)
  PROVE  IInv'
<1>1. UNCHANGED <<conn, up, home, stored, uploaded, missed, run, window, leases>>
  BY DEF RunOnce, SyncSource, Enqueue, EndRequest, world, queue, budget, Q!Submit
<1>2. edits' \in Nat /\ (edits' = 0 => edits = 0)
  BY DEF RunOnce, SyncSource, Enqueue, EndRequest, budget, Edit, IInv, Types
<1>3. PICK y \in RequestRecord : req' = [req EXCEPT ![r] = y] /\ y.at # "write"
  <2>1. CASE RunOnce(r)
    <3>1. Idle.key \in KeyRecord
      BY Constant DEF RequestRecord
    <3>2. [Idle.key EXCEPT !.window = window] \in KeyRecord
      BY <3>1 DEF KeyRecord, IInv, Types
    <3>. DEFINE y == [Idle EXCEPT !.at = "due", !.key.window = window]
    <3>3. y \in RequestRecord /\ y.at = "due"
      BY <3>2, Constant DEF RequestRecord
    <3>4. req' = [req EXCEPT ![r] = y]
      BY <2>1 DEF RunOnce
    <3>. QED  BY <3>3, <3>4
  <2>2. CASE SyncSource(r)
    <3>1. Key(conn, req[r].key.window) \in KeyRecord
      BY DEF Key, KeyRecord, RequestRecord, ConnectionRow, IInv, Types
    <3>. DEFINE y == [Idle EXCEPT !.at = "enqueue", !.key = Key(conn, req[r].key.window)]
    <3>2. y \in RequestRecord /\ y.at = "enqueue"
      BY <3>1, Constant DEF RequestRecord
    <3>3. req' = [req EXCEPT ![r] = y]
      BY <2>2 DEF SyncSource
    <3>. QED  BY <3>2, <3>3
  <2>3. CASE Enqueue(r) \/ EndRequest(r)
    BY <2>3, Constant DEF Enqueue, EndRequest, Idle
  <2>. QED  BY <2>1, <2>2, <2>3
<1>4. Patched(y)
  BY <1>3 DEF Patched
<1>. QED  BY <1>1, <1>2, <1>3, <1>4, RequestMoves

\* What is written back keeps the kind, and a cursor and hashes that were true when read.
LEMMA WrittenRow ==
  ASSUME IInv, NEW row \in ConnectionRow, Agrees(row), conn' = Written(row),
         UNCHANGED <<up, home, uploaded, missed>>
  PROVE  conn' \in ConnectionRow /\ Row' /\ conn'.kind = conn.kind
<1>1. CASE Exists
  <2>1. conn' = [row EXCEPT !.synced = conn.synced]
    BY <1>1 DEF Written
  <2>2. /\ conn' \in ConnectionRow /\ conn'.kind = row.kind /\ conn'.hash = row.hash
        /\ conn'.cursor = row.cursor /\ conn'.place = row.place /\ conn'.target = row.target
        /\ conn'.floor = row.floor /\ conn'.told = row.told
    BY <2>1 DEF ConnectionRow, IInv, Types
  <2>3. Hashed(row.hash, row) /\ Covered(row.cursor, row) /\ row.kind = conn.kind
        /\ row.target \in Collection
    BY <1>1 DEF Agrees
  <2>4. Hashed(conn.hash, conn)' /\ Covered(conn.cursor, conn)'
    BY <2>2, <2>3 DEF Hashed, Covered, Passed, Reached
  <2>. QED  BY <1>1, <2>2, <2>3, <2>4 DEF Row, Exists
<1>2. CASE ~Exists
  <2>1. conn' = conn
    BY <1>2 DEF Written
  <2>2. Widens
    BY <2>1 DEF Widens, Exists
  <2>. QED  BY <2>1, <2>2, RowStays DEF IInv, Types
<1>. QED  BY <1>1, <1>2

LEMMA UpdateSourceIInv == ASSUME IInv, NEW r \in Request, UpdateSource(r) PROVE IInv'
<1>1. /\ req[r].at = "write" /\ conn' = Written(req[r].row) /\ req' = [req EXCEPT ![r] = Idle]
      /\ UNCHANGED <<up, home, stored, uploaded, missed, run, window, edits, leases>>
  BY DEF UpdateSource, world, budget, queue
<1>2. req[r].row \in ConnectionRow /\ Agrees(req[r].row)
  BY <1>1 DEF IInv, Patched, Types, RequestRecord
<1>3. conn' \in ConnectionRow /\ Row' /\ conn'.kind = conn.kind
  BY <1>1, <1>2, WrittenRow
<1>4. Grows
  BY <1>1, <1>3 DEF Grows, Widens, Exists
<1>5. Types'
  BY <1>1, <1>3, Constant DEF IInv, Types
<1>6. Posted' /\ Fresh'
  BY <1>1, <1>3 DEF IInv, Posted, Fresh, Types, Idle, Exists
<1>7. \A s \in Request : req'[s] = req[s] \/ Patched(req[s])'
  BY <1>1 DEF IInv, Types, Patched, Idle
<1>. QED  BY <1>1, <1>3, <1>4, <1>5, <1>6, <1>7, Keeps

-----------------------------------------------------------------------------
(* Attempts. *)

LEMMA AttemptMoves ==
  ASSUME IInv, NEW w \in Worker, NEW x \in RunRecord, run' = [run EXCEPT ![w] = x],
         Sound(run[w])', Grows, conn' \in ConnectionRow, Row', conn'.kind = conn.kind,
         ~Exists /\ edits = 0 => x.at \in {"free", "load", "error"},
         stored' \in [Collection -> Hashes], leases' \in [Job -> Nat],
         UNCHANGED <<up, home, req, window, edits>>
  PROVE  IInv'
<1>1. Types'
  BY DEF IInv, Types
<1>2. uploaded \subseteq uploaded'
      /\ \A c \in Collection : \A d \in Doc : stored'[c][d] # 0 => stored[c][d] # 0
  BY DEF Grows, Widens
<1>3. Posted'
  BY <1>2 DEF IInv, Posted
<1>4. Fresh'
  <2>. SUFFICES ASSUME ~Exists, edits = 0 PROVE Fresh'
    BY DEF Fresh, Exists
  <2>1. /\ up = NoHashes /\ \A r \in Request : req[r].at # "write"
        /\ \A c \in Collection : stored[c] = NoHashes
        /\ \A v \in Worker : run[v].at \in {"free", "load", "error"}
    BY DEF IInv, Fresh
  <2>2. \A c \in Collection : stored'[c] = NoHashes
    BY <1>2, <2>1 DEF NoHashes, Hashes
  <2>3. \A v \in Worker : run'[v].at \in {"free", "load", "error"}
    BY <2>1 DEF IInv, Types
  <2>. QED  BY <2>1, <2>2, <2>3 DEF Fresh, NoHashes
<1>. QED  BY <1>1, <1>3, <1>4, Keeps DEF IInv, Types

\* One that touches nothing else.
LEMMA QuietAttempt ==
  ASSUME IInv, NEW w \in Worker, NEW x \in RunRecord, run' = [run EXCEPT ![w] = x],
         Sound(x), ~Exists /\ edits = 0 => x.at \in {"free", "load", "error"},
         leases' \in [Job -> Nat],
         UNCHANGED <<conn, up, home, stored, uploaded, missed, req, window, edits>>
  PROVE  IInv'
<1>1. Grows
  BY DEF Grows, Widens, Exists
<1>2. Sound(x)'
  BY <1>1, SoundStays DEF IInv
<1>3. Sound(run[w])'
  BY <1>2 DEF IInv, Types
<1>4. Row' /\ conn' \in ConnectionRow /\ stored' \in [Collection -> Hashes]
  BY <1>1, RowStays DEF IInv, Types, Grows
<1>. QED  BY <1>1, <1>3, <1>4, AttemptMoves

LEMMA FreeIsSound == Free \in RunRecord /\ Sound(Free)
BY Constant DEF Free, Sound, Advanced, Present, Working

LEMMA LeaseIInv == ASSUME IInv, NEW w \in Worker, NEW j \in Job, Lease(w, j) PROVE IInv'
<1>. DEFINE x == [Free EXCEPT !.at = "load", !.job = j, !.lease = leases[j] + 1]
<1>1. run' = [run EXCEPT ![w] = x] /\ leases' = [leases EXCEPT ![j] = @ + 1]
      /\ UNCHANGED <<conn, up, home, stored, uploaded, missed, req, window, edits>>
  BY DEF Lease, Q!Lease, world, budget, Fault
<1>2. x \in RunRecord /\ x.at = "load"
  <2>1. leases[j] + 1 \in Nat
    BY DEF IInv, Types
  <2>. QED  BY <2>1, FreeIsSound DEF RunRecord
<1>3. Sound(x)
  BY <1>2, FreeIsSound DEF Free, Sound, Advanced, Present, Working
<1>4. leases' \in [Job -> Nat]
  BY <1>1 DEF IInv, Types
<1>. QED  BY <1>1, <1>2, <1>3, <1>4, QuietAttempt

LEMMA LoadIInv == ASSUME IInv, NEW w \in Worker, LoadConnection(w) PROVE IInv'
<1>. DEFINE q == run[w]
            x == [q EXCEPT !.at = "dispatch", !.row = conn, !.hash = conn.hash,
                           !.cursor = conn.cursor,
                           !.lack = {d \in Doc : stored[conn.target][d] = 0}]
<1>1. q.at = "load" /\ Exists /\ run' = [run EXCEPT ![w] = x]
      /\ UNCHANGED <<conn, up, home, stored, uploaded, missed, req, window, edits, leases>>
  BY DEF LoadConnection, world, budget, queue
<1>2. q \in RunRecord /\ Sound(q) /\ leases' \in [Job -> Nat]
  BY <1>1 DEF IInv, Types
<1>3. {d \in Doc : stored[conn.target][d] = 0} \in SUBSET Doc
  OBVIOUS
<1>4. x \in RunRecord
  BY <1>2, <1>3 DEF RunRecord, ConnectionRow, Working, IInv, Types
<1>5. x.at = "dispatch" /\ x.row = conn /\ x.hash = conn.hash /\ x.live = q.live
      /\ x.lack = {d \in Doc : stored[conn.target][d] = 0} /\ x.failed = q.failed
  BY <1>2 DEF RunRecord
<1>6. Advanced(x)
  <2>1. q.live = {} /\ ~q.failed
    BY <1>1, <1>2 DEF Sound, Advanced
  <2>2. Agrees(conn) /\ Hashed(conn.hash, conn)
    BY <1>1 DEF IInv, Row, Agrees
  <2>. HIDE DEF x, q
  <2>. QED  BY <1>5, <2>1, <2>2 DEF Advanced
<1>7. Present(x)
  <2>1. q.live = {}
    BY <1>1, <1>2 DEF Sound, Advanced
  <2>. HIDE DEF x, q
  <2>. QED  BY <1>5, <2>1 DEF Present
<1>. QED  BY <1>1, <1>2, <1>4, <1>6, <1>7, QuietAttempt DEF Sound

LEMMA MarkDispatchedIInv == ASSUME IInv, NEW w \in Worker, MarkDispatched(w) PROVE IInv'
<1>. DEFINE q == run[w]
            x == [q EXCEPT !.at = "fetch"]
<1>1. q.at = "dispatch" /\ run' = [run EXCEPT ![w] = x]
      /\ UNCHANGED <<conn, up, home, stored, uploaded, missed, req, window, edits, leases>>
  BY DEF MarkDispatched, Step, Q!Dispatch, world, budget
<1>2. q \in RunRecord /\ Sound(q) /\ leases' \in [Job -> Nat]
  BY <1>1 DEF IInv, Types
<1>3. x \in RunRecord
  BY <1>2 DEF RunRecord, Working
<1>4. Sound(x)
  BY <1>1, <1>2 DEF Sound, Advanced, Present, RunRecord, Working
<1>5. Exists \/ edits # 0
  BY <1>1 DEF IInv, Fresh
<1>. QED  BY <1>1, <1>2, <1>3, <1>4, <1>5, QuietAttempt

LEMMA ReadLiveIInv == ASSUME IInv, NEW w \in Worker, NEW d \in Doc, ReadLive(w, d) PROVE IInv'
<1>. DEFINE q == run[w]
            live == {e \in Doc : stored[q.row.target][e] # 0}
            x == [q EXCEPT !.looked = TRUE, !.live = live]
<1>1. q.at = "docs" /\ run' = [run EXCEPT ![w] = x]
      /\ UNCHANGED <<conn, up, home, stored, uploaded, missed, req, window, edits, leases>>
  BY DEF ReadLive, world, budget, queue
<1>2. q \in RunRecord /\ Sound(q) /\ leases' \in [Job -> Nat]
  BY <1>1 DEF IInv, Types
<1>3. x \in RunRecord
  BY <1>2 DEF RunRecord
<1>4. Sound(x)
  <2>1. x.at = "docs" /\ x.row = q.row /\ x.live = live /\ x.lack = q.lack /\ x.got = q.got
        /\ x.todo = q.todo /\ x.hash = q.hash /\ x.cursor = q.cursor /\ x.failed = q.failed
    BY <1>1, <1>2 DEF RunRecord
  <2>2. q.row.target \in Collection
    BY <1>1, <1>2 DEF Sound, Advanced, Agrees, Working
  <2>3. Advanced(x)
    <3>1. Exists /\ conn.kind = "slack" =>
            \A e \in live : <<q.row.target, e, 1>> \in uploaded
      BY <2>2 DEF IInv, Posted
    <3>2. Advanced(q)
      BY <1>2 DEF Sound
    <3>. HIDE DEF x, q, live
    <3>. QED  BY <1>1, <2>1, <3>1, <3>2 DEF Advanced
  <2>4. Present(x)
    BY <1>1, <1>2, <2>1, <2>2 DEF Sound, Present
  <2>. QED  BY <2>3, <2>4 DEF Sound
<1>5. Exists \/ edits # 0
  BY <1>1 DEF IInv, Fresh
<1>. QED  BY <1>1, <1>2, <1>3, <1>4, <1>5, QuietAttempt

\* Ends and failures.
LEMMA FreedIInv ==
  ASSUME IInv, NEW w \in Worker, Complete(w) \/ Fail(w) \/ ContextDone(w) \/ Crash(w)
  PROVE  IInv'
<1>1. run' = [run EXCEPT ![w] = Free] /\ UNCHANGED edits
      /\ UNCHANGED <<conn, up, home, stored, uploaded, missed, req, window, leases>>
  BY DEF Complete, Fail, ContextDone, Crash, Settle, Q!Publish, Q!GiveUp, Q!Lose, Fault,
         world, budget, queue
<1>2. Free.at = "free" /\ leases' \in [Job -> Nat]
  BY <1>1 DEF Free, IInv, Types
<1>. QED  BY <1>1, <1>2, FreeIsSound, QuietAttempt

LEMMA StumblesIInv ==
  ASSUME IInv, NEW w \in Worker, SyncFails(w) \/ Err(w)
  PROVE  IInv'
<1>. DEFINE q == run[w]
<1>1. UNCHANGED <<conn, up, home, stored, uploaded, missed, req, window, edits, leases>>
  BY DEF SyncFails, Err, Fault, world, budget, queue
<1>2. q \in RunRecord /\ Sound(q) /\ leases' \in [Job -> Nat]
  BY <1>1 DEF IInv, Types
<1>3. CASE SyncFails(w)
  <2>. DEFINE x == [q EXCEPT !.at = "state", !.failed = TRUE]
  <2>1. q.at \in {"fetch", "docs"} /\ run' = [run EXCEPT ![w] = x]
    BY <1>3 DEF SyncFails
  <2>2. x \in RunRecord
    BY <1>2 DEF RunRecord, Working
  <2>3. Sound(x)
    BY <1>2, <2>1 DEF Sound, Advanced, Present, RunRecord, Working
  <2>4. Exists \/ edits # 0
    BY <2>1 DEF IInv, Fresh
  <2>. QED  BY <1>1, <1>2, <2>1, <2>2, <2>3, <2>4, QuietAttempt
<1>4. CASE Err(w)
  <2>. DEFINE x == [q EXCEPT !.at = "error"]
  <2>1. run' = [run EXCEPT ![w] = x]
    BY <1>4 DEF Err, Step
  <2>2. x \in RunRecord /\ x.at = "error"
    BY <1>2 DEF RunRecord
  <2>3. Sound(x)
    BY <1>2, <2>2 DEF Sound, Advanced, Present, RunRecord, Working
  <2>. QED  BY <1>1, <1>2, <2>1, <2>2, <2>3, QuietAttempt
<1>. QED  BY <1>3, <1>4

LEMMA Newest ==
  ASSUME NEW S \in SUBSET Doc, S # {}
  PROVE  \E n \in S : \A e \in S : e <= n
<1>. DEFINE T == {m \in Nat : \E d \in S : m = MaxDocs - d}
<1>1. MaxDocs \in Nat /\ \A d \in S : MaxDocs - d \in T /\ d \in Nat
  BY ConnectorsAssumption DEF Doc
<1>2. PICK m \in T : \A k \in T : <<k, m>> \notin OpToRel(<, Nat)
  <2>1. T # {} /\ T \subseteq Nat
    BY <1>1
  <2>. HIDE DEF T
  <2>. QED  BY <2>1, NatLessThanWellFounded, WFMin
<1>3. \A k \in T : ~(k < m)
  BY <1>2 DEF OpToRel
<1>4. PICK n \in S : m = MaxDocs - n
  OBVIOUS
<1>. QED  BY <1>1, <1>3, <1>4

\* Between the old cursor and the newest message fetched, every message was fetched or
\* left out for the limit.
LEMMA FetchIInv == ASSUME IInv, NEW w \in Worker, Fetch(w) PROVE IInv'
<1>1. PICK q \in RunRecord : q = run[w] /\ Sound(q)
  BY DEF IInv, Types
<1>2. PICK docs \in SUBSET Doc : docs = Returned(q.row)
  BY DEF Returned, Available
<1>3. PICK g \in Hashes : g = Fetched(docs)
  BY DocOne DEF Hashes, Fetched, IInv, Types
<1>4. PICK c \in Nat : c = Cursor(q.row, docs)
  BY Newest, DocOne DEF Cursor, RunRecord, ConnectionRow
<1>h. PICK h \in Hashes : h = IF docs = {} THEN NoHashes ELSE q.row.hash
  BY Constant DEF RunRecord, ConnectionRow
<1>. DEFINE none == docs = {}
            x == [q EXCEPT !.at = IF none THEN "state" ELSE "docs", !.todo = docs, !.got = g,
                           !.cursor = c, !.hash = h,
                           !.save = ~none \/ (q.row.kind = "slack" /\ q.row.cursor # 0)]
<1>5. /\ q.at = "fetch" /\ run' = [run EXCEPT ![w] = x]
      /\ missed' = missed \cup ({q.row.target} \X (Available(q.row) \ docs))
      /\ UNCHANGED <<conn, up, home, stored, uploaded, req, window, edits, leases>>
  <2>1. q.at = "fetch" /\ missed' = missed \cup ({q.row.target} \X (Available(q.row) \ docs))
        /\ UNCHANGED <<conn, up, home, stored, uploaded, req, window, edits, leases>>
    BY <1>1, <1>2 DEF Fetch, budget, queue
  <2>2. Given(q, docs) = x
    BY <1>3, <1>4, <1>h DEF Given
  <2>4. run' = [run EXCEPT ![w] = x]
    BY <1>1, <1>2, <2>2 DEF Fetch
  <2>. QED  BY <2>1, <2>4
<1>6. x \in RunRecord
  BY DEF RunRecord, Working
<1>7. x.at = (IF none THEN "state" ELSE "docs") /\ x.todo = docs /\ x.got = g /\ x.cursor = c
      /\ x.hash = h
      /\ x.row = q.row /\ x.failed = q.failed /\ x.lack = q.lack /\ x.live = q.live
  BY DEF RunRecord
<1>8. Grows
  BY <1>5 DEF Grows, Widens, Exists
<1>9. q.row \in ConnectionRow /\ Agrees(q.row) /\ Agrees(q.row)' /\ ~q.failed
  <2>1. q.row \in ConnectionRow /\ Agrees(q.row) /\ ~q.failed
    BY <1>1, <1>5 DEF RunRecord, Sound, Advanced, Working
  <2>. QED  BY <1>8, <2>1, Stays DEF IInv, Grows
<1>. HIDE DEF x
<1>10. Advanced(x)'
  <2>1. Hashed(x.hash, x.row)'
    BY <1>7, <1>9, <1>h DEF Agrees, Hashed, NoHashes
  <2>2. ASSUME NEW d \in docs PROVE g[d] # 0 /\ (Exists /\ conn.kind = "slack" => g[d] = 1)
    <3>1. d \in Doc /\ g[d] = up[d] /\ up[d] # 0
      BY <1>2, <1>3 DEF Fetched, Returned, Available
    <3>. QED  BY <3>1 DEF IInv, Posted
  <2>3. ASSUME Exists, NEW d \in Passed(q.row, c)
        PROVE  /\ up[d] # 0
               /\ home[d] = q.row.place =>
                    Reached(q.row, d)' \/ (d \in docs /\ conn.kind = "slack")
    <3>1. conn.kind = q.row.kind /\ Covered(q.row.cursor, q.row)'
      BY <1>5, <1>9, <2>3 DEF Agrees, Exists
    <3>2. d \in Doc /\ q.row.floor < d /\ d <= c /\ q.row.cursor \in Nat /\ d \in Nat \ {0}
      BY <1>9, DocOne DEF Passed, ConnectionRow
    <3>3. CASE d <= q.row.cursor
      <4>1. d \in Passed(q.row, q.row.cursor)
        BY <3>2, <3>3 DEF Passed
      <4>. QED  BY <1>5, <3>1, <4>1 DEF Covered
    <3>4. CASE d > q.row.cursor
      <4>1. q.row.kind = "slack" /\ docs # {}
        BY <1>4, <3>2, <3>4 DEF Cursor
      <4>2. c \in docs
        BY <1>2, <1>4, <4>1, Newest DEF Cursor
      <4>3. c \in Doc /\ up[c] # 0
        BY <1>2, <4>2 DEF Returned, Available
      <4>4. up[d] # 0
        BY <3>1, <3>2, <4>1, <4>3, DocOne DEF IInv, Posted
      <4>5. home[d] = q.row.place => d \in Available(q.row)
        BY <3>2, <3>4, <4>4 DEF Available
      <4>. QED  BY <1>5, <3>1, <4>1, <4>4, <4>5 DEF Reached
    <3>. QED  BY <3>2, <3>3, <3>4
  <2>4. Exists /\ conn.kind = "slack" =>
          \A d \in q.live : <<q.row.target, d, 1>> \in uploaded
    BY <1>1, <1>5 DEF Sound, Advanced, Working
  <2>5. x.at = "docs" =>
          \A d \in x.todo : x.got[d] # 0 /\ (Exists' /\ conn'.kind = "slack" => x.got[d] = 1)
    BY <1>5, <1>7, <2>2 DEF Exists
  <2>6. x.at \in Working /\ Exists' /\ conn'.kind = "slack" =>
          \A d \in x.live : <<x.row.target, d, 1>> \in uploaded'
    BY <1>5, <1>7, <2>4 DEF Exists
  <2>7. Exists' =>
          \A d \in Passed(x.row, x.cursor)' :
            /\ up'[d] # 0
            /\ home'[d] = x.row.place =>
                 Reached(x.row, d)' \/ (d \in x.todo /\ conn'.kind = "slack")
    BY <1>5, <1>7, <2>3 DEF Exists, Passed
  <2>8. /\ Agrees(x.row)' /\ ~x.failed /\ x.at \in {"docs", "state"}
        /\ x.at = "state" => x.todo = {}
    BY <1>7, <1>9
  <2>. QED  BY <2>1, <2>5, <2>6, <2>7, <2>8 DEF Advanced
<1>11. Present(x)'
  <2>1. \A d \in Doc : g[d] # 0 => d \in docs
    BY <1>3 DEF Fetched
  <2>. QED  BY <1>1, <1>5, <1>7, <2>1 DEF Sound, Present
<1>12. Sound(run[w])'
  BY <1>5, <1>10, <1>11 DEF Sound, IInv, Types
<1>13. Row'
  BY <1>5, <1>8, RowStays DEF Grows
<1>14. Exists \/ edits # 0
  BY <1>1, <1>5 DEF IInv, Fresh
<1>. QED  BY <1>5, <1>6, <1>8, <1>12, <1>13, <1>14, AttemptMoves DEF IInv, Types

\* A document that is dealt with has been uploaded as it was fetched.
LEMMA PastIsAdvanced ==
  ASSUME IInv, NEW w \in Worker, NEW d \in run[w].todo, run[w].at = "docs",
         \/ run[w].got[d] \in {0, run[w].row.told[d]}
         \/ <<run[w].row.target, d, run[w].got[d]>> \in uploaded',
         Exists /\ conn.kind = "slack" => <<run[w].row.target, d, 1>> \in uploaded',
         Widens, UNCHANGED <<conn, up, home>>,
         NEW x \in RunRecord,
         x.at = IF run[w].todo = {d} THEN "state" ELSE "docs",
         x.todo = run[w].todo \ {d}, x.hash = [run[w].hash EXCEPT ![d] = run[w].got[d]],
         x.got = run[w].got, x.row = run[w].row, x.cursor = run[w].cursor,
         x.live = run[w].live, x.failed = run[w].failed
  PROVE  Advanced(x)'
<1>1. PICK q \in RunRecord : q = run[w] /\ Sound(q)
  BY DEF IInv, Types
<1>2. Advanced(q) /\ Advanced(q)'
  BY <1>1, Stays DEF Sound, IInv
<1>3. /\ d \in Doc /\ q.at = "docs" /\ q.row \in ConnectionRow
      /\ q.got[d] \in {0, q.row.told[d]} \/ <<q.row.target, d, q.got[d]>> \in uploaded'
      /\ Exists /\ conn.kind = "slack" => <<q.row.target, d, 1>> \in uploaded'
      /\ x.at = (IF q.todo = {d} THEN "state" ELSE "docs") /\ x.todo = q.todo \ {d}
      /\ x.hash = [q.hash EXCEPT ![d] = q.got[d]] /\ x.got = q.got /\ x.row = q.row
      /\ x.cursor = q.cursor /\ x.failed = q.failed /\ x.live = q.live
  BY <1>1 DEF RunRecord
<1>4. Agrees(x.row)' /\ Hashed(x.hash, x.row)'
  <2>1. Agrees(q.row)' /\ Hashed(q.hash, q.row)'
    BY <1>2, <1>3 DEF Advanced, Working
  <2>2. \A e \in Doc : x.hash[e] = IF e = d THEN q.got[d] ELSE q.hash[e]
    BY <1>3 DEF RunRecord, Hashes
  <2>. QED  BY <1>3, <2>1, <2>2 DEF Hashed
<1>5. ~x.failed /\ (x.at = "state" => x.todo = {})
  BY <1>2, <1>3 DEF Advanced
<1>6. /\ x.at = "docs" =>
           \A e \in x.todo : x.got[e] # 0 /\ (Exists' /\ conn'.kind = "slack" => x.got[e] = 1)
      /\ Exists' /\ conn'.kind = "slack" =>
           \A e \in x.live : <<x.row.target, e, 1>> \in uploaded'
  BY <1>2, <1>3 DEF Advanced, Working
<1>7. ASSUME Exists', NEW e \in Passed(x.row, x.cursor)
      PROVE  /\ up'[e] # 0
             /\ home'[e] = x.row.place =>
                  Reached(x.row, e)' \/ (e \in x.todo /\ conn'.kind = "slack")
  <2>1. /\ up'[e] # 0
        /\ home'[e] = q.row.place =>
             Reached(q.row, e)' \/ (e \in q.todo /\ conn'.kind = "slack")
    BY <1>2, <1>3, <1>5, <1>7 DEF Advanced, Passed
  <2>2. conn'.kind = "slack" => Reached(q.row, d)'
    BY <1>3, <1>7 DEF Reached, Exists
  <2>. QED  BY <1>3, <2>1, <2>2
<1>. QED  BY <1>3, <1>4, <1>5, <1>6, <1>7 DEF Advanced, Passed

LEMMA PastRecord ==
  ASSUME IInv, NEW w \in Worker, NEW d \in run[w].todo, run[w].at = "docs"
  PROVE  /\ Past(w, d) \in RunRecord
         /\ Past(w, d).at = IF run[w].todo = {d} THEN "state" ELSE "docs"
         /\ Past(w, d).todo = run[w].todo \ {d}
         /\ Past(w, d).hash = [run[w].hash EXCEPT ![d] = run[w].got[d]]
         /\ Past(w, d).got = run[w].got /\ Past(w, d).row = run[w].row
         /\ Past(w, d).cursor = run[w].cursor /\ Past(w, d).failed = run[w].failed
         /\ Past(w, d).lack = run[w].lack /\ Past(w, d).live = run[w].live
<1>1. run[w] \in RunRecord /\ d \in Doc
  BY DEF IInv, Types, RunRecord
<1>2. [run[w].hash EXCEPT ![d] = run[w].got[d]] \in Hashes
  BY <1>1 DEF RunRecord, Hashes
<1>. QED  BY <1>1, <1>2 DEF Past, RunRecord, Working

\* What is skipped has the hash of an upload and is in the collection.
LEMMA SkipIInv == ASSUME IInv, NEW w \in Worker, NEW d \in Doc, Skip(w, d) PROVE IInv'
<1>1. /\ run[w].at = "docs" /\ d \in run[w].todo /\ Unchanged(w, d) /\ d \in run[w].live
      /\ run' = [run EXCEPT ![w] = Past(w, d)]
      /\ UNCHANGED <<conn, up, home, stored, uploaded, missed, req, window, edits, leases>>
  BY DEF Skip, IsFirst, Skippable, world, budget, queue
<1>2. Sound(run[w]) /\ run[w] \in RunRecord
  BY DEF IInv, Types
<1>3. /\ run[w].got[d] \in {0, run[w].row.told[d]}
         \/ <<run[w].row.target, d, run[w].got[d]>> \in uploaded
      /\ Exists /\ conn.kind = "slack" => <<run[w].row.target, d, 1>> \in uploaded
  BY <1>1, <1>2 DEF Sound, Advanced, Agrees, Hashed, Working, Unchanged
<1>4. Grows
  BY <1>1 DEF Grows, Widens, Exists
<1>5. PICK x \in RunRecord : x = Past(w, d)
  BY <1>1, PastRecord
<1>6. Advanced(x)'
  <2>1. /\ run[w].got[d] \in {0, run[w].row.told[d]}
           \/ <<run[w].row.target, d, run[w].got[d]>> \in uploaded'
        /\ Exists /\ conn.kind = "slack" => <<run[w].row.target, d, 1>> \in uploaded'
    BY <1>1, <1>3
  <2>2. /\ x.at = IF run[w].todo = {d} THEN "state" ELSE "docs"
        /\ x.todo = run[w].todo \ {d} /\ x.hash = [run[w].hash EXCEPT ![d] = run[w].got[d]]
        /\ x.got = run[w].got /\ x.row = run[w].row /\ x.cursor = run[w].cursor
        /\ x.live = run[w].live /\ x.failed = run[w].failed
    BY <1>1, <1>5, PastRecord
  <2>. QED  BY <1>1, <1>4, <2>1, <2>2, PastIsAdvanced DEF Grows
<1>7. Present(x)'
  <2>1. x.todo = run[w].todo \ {d} /\ x.got = run[w].got /\ x.lack = run[w].lack
        /\ x.live = run[w].live /\ x.row = run[w].row /\ x.failed = run[w].failed
    BY <1>1, <1>5, PastRecord
  <2>2. Present(run[w]) /\ ~run[w].failed
    BY <1>1, <1>2 DEF Sound, Advanced
  <2>. QED  BY <1>1, <2>1, <2>2 DEF Present
<1>8. Sound(run[w])'
  BY <1>1, <1>5, <1>6, <1>7 DEF Sound, IInv, Types
<1>9. Row'
  BY <1>1, <1>4, RowStays DEF Grows
<1>10. Exists \/ edits # 0
  BY <1>1 DEF IInv, Fresh
<1>11. conn' \in ConnectionRow /\ stored' \in [Collection -> Hashes] /\ leases' \in [Job -> Nat]
  BY <1>1 DEF IInv, Types
<1>. QED  BY <1>1, <1>4, <1>5, <1>8, <1>9, <1>10, <1>11, AttemptMoves

\* An upload puts a document in the collection for every attempt.
LEMMA UploadIInv == ASSUME IInv, NEW w \in Worker, NEW d \in Doc, Upload(w, d) PROVE IInv'
<1>1. /\ run[w].at = "docs" /\ d \in run[w].todo
      /\ stored' = [stored EXCEPT ![run[w].row.target][d] = run[w].got[d]]
      /\ uploaded' = uploaded \cup {<<run[w].row.target, d, run[w].got[d]>>}
      /\ run' = [v \in Worker |->
                   [(IF v = w THEN Past(w, d) ELSE run[v]) EXCEPT
                      !.lack = IF run[v].row.target = run[w].row.target THEN @ \ {d} ELSE @]]
      /\ UNCHANGED <<conn, up, home, missed, req, window, edits, leases>>
  BY DEF Upload, Uploading, IsFirst, budget, queue
<1>2. Widens
  BY <1>1 DEF Widens, Exists
<1>t. PICK c \in Collection : c = run[w].row.target
  BY <1>1 DEF IInv, Sound, Advanced, Agrees, Working
<1>g. PICK g \in Content : /\ g = run[w].got[d] /\ g # 0
                           /\ Exists /\ conn.kind = "slack" => g = 1
  BY <1>1 DEF IInv, Sound, Advanced, Types, RunRecord, Hashes
<1>3. /\ stored' \in [Collection -> Hashes]
      /\ \A t \in Collection : \A e \in Doc :
           stored'[t][e] = IF t = c /\ e = d THEN g ELSE stored[t][e]
  BY <1>1, <1>t, <1>g DEF IInv, Types, Hashes
<1>4. Exists \/ edits # 0
  BY <1>1 DEF IInv, Fresh
<1>5. ASSUME NEW v \in Worker PROVE run'[v] \in RunRecord /\ Sound(run[v])'
  <2>1. CASE v # w
    <3>1. PICK q \in RunRecord : q = run[v] /\ Sound(q)
      BY DEF IInv, Types
    <3>2. PICK x \in RunRecord : x = [q EXCEPT !.lack = IF q.row.target = c THEN @ \ {d} ELSE @]
      BY DEF RunRecord
    <3>3. run'[v] = x
      BY <1>1, <1>t, <2>1, <3>1, <3>2
    <3>4. /\ x.at = q.at /\ x.row = q.row /\ x.todo = q.todo /\ x.got = q.got
          /\ x.cursor = q.cursor /\ x.hash = q.hash /\ x.failed = q.failed /\ x.live = q.live
          /\ x.lack = IF q.row.target = c THEN q.lack \ {d} ELSE q.lack
      BY <3>2 DEF RunRecord
    <3>5. Advanced(x)'
      <4>1. Advanced(q)'
        BY <1>2, <3>1, Stays DEF IInv, Sound
      <4>. QED  BY <3>4, <4>1 DEF Advanced
    <3>6. Present(x)'
      BY <1>3, <3>1, <3>4 DEF Sound, Present
    <3>. QED  BY <3>3, <3>5, <3>6 DEF Sound
  <2>2. CASE v = w
    <3>1. PICK y \in RunRecord : y = Past(w, d)
      BY <1>1, PastRecord
    <3>2. PICK x \in RunRecord : x = [y EXCEPT !.lack = @ \ {d}]
      BY DEF RunRecord
    <3>3. run'[v] = x
      BY <1>1, <2>2, <3>1, <3>2
    <3>4. /\ x.at = (IF run[w].todo = {d} THEN "state" ELSE "docs")
          /\ x.todo = run[w].todo \ {d} /\ x.hash = [run[w].hash EXCEPT ![d] = run[w].got[d]]
          /\ x.got = run[w].got /\ x.row = run[w].row /\ x.cursor = run[w].cursor
          /\ x.failed = run[w].failed /\ x.live = run[w].live /\ x.lack = run[w].lack \ {d}
      <4>1. /\ x.at = y.at /\ x.todo = y.todo /\ x.hash = y.hash /\ x.got = y.got
            /\ x.row = y.row /\ x.cursor = y.cursor /\ x.failed = y.failed /\ x.live = y.live
            /\ x.lack = y.lack \ {d}
        BY <3>2 DEF RunRecord
      <4>. QED  BY <1>1, <3>1, <4>1, PastRecord
    <3>5. Advanced(x)'
      <4>1. /\ <<run[w].row.target, d, run[w].got[d]>> \in uploaded'
            /\ Exists /\ conn.kind = "slack" => <<run[w].row.target, d, 1>> \in uploaded'
        BY <1>1, <1>g
      <4>. QED  BY <1>1, <1>2, <3>4, <4>1, PastIsAdvanced
    <3>6. Present(x)'
      <4>1. Present(run[w]) /\ ~run[w].failed
        BY <1>1 DEF IInv, Sound, Advanced
      <4>. QED  BY <1>1, <1>3, <1>t, <3>4, <4>1 DEF Present
    <3>. QED  BY <3>3, <3>5, <3>6 DEF Sound
  <2>. QED  BY <2>1, <2>2
<1>6. Types'
  <2>1. run' \in [Worker -> RunRecord]
    BY <1>1, <1>5
  <2>. QED  BY <1>1, <1>3, <2>1 DEF IInv, Types
<1>7. Row'
  BY <1>1, <1>2, RowStays
<1>8. Posted' /\ Fresh'
  BY <1>1, <1>3, <1>4, <1>t, <1>g DEF IInv, Posted, Fresh, Exists
<1>9. \A r \in Request : Patched(req[r])'
  <2>. SUFFICES ASSUME NEW r \in Request PROVE Patched(req[r])'
    OBVIOUS
  <2>1. PICK q \in RequestRecord : q = req[r] /\ Patched(q)
    BY DEF IInv, Types
  <2>2. Patched(q)'
    BY <1>2, <2>1, Stays DEF IInv
  <2>. QED  BY <1>1, <2>1, <2>2
<1>. QED  BY <1>5, <1>6, <1>7, <1>8, <1>9 DEF IInv

LEMMA SetSyncStateIInv == ASSUME IInv, NEW w \in Worker, SetSyncState(w) PROVE IInv'
<1>1. PICK q \in RunRecord : q = run[w] /\ Sound(q)
  BY DEF IInv, Types
<1>. DEFINE x == [q EXCEPT !.at = IF q.failed THEN "error" ELSE "save"]
<1>2. /\ q.at = "state" /\ run' = [run EXCEPT ![w] = x]
      /\ conn' \in {conn, IF Exists THEN [conn EXCEPT !.synced = window] ELSE conn}
      /\ UNCHANGED <<up, home, stored, uploaded, missed, req, window, edits, leases>>
  BY <1>1 DEF SetSyncState, Step, AfterState, Fault, world, budget, queue
<1>3. conn' \in ConnectionRow /\ conn'.kind = conn.kind /\ conn'.hash = conn.hash
      /\ conn'.cursor = conn.cursor /\ conn'.place = conn.place /\ conn'.target = conn.target
      /\ conn'.floor = conn.floor /\ conn'.told = conn.told /\ (~Exists => conn' = conn)
  BY <1>2 DEF IInv, Types, ConnectionRow
<1>4. Row'
  BY <1>2, <1>3 DEF IInv, Row, Hashed, Covered, Passed, Reached, Exists
<1>5. Grows
  BY <1>2, <1>3 DEF Grows, Widens, Exists
<1>6. x \in RunRecord
  BY DEF RunRecord, Working
<1>7. Sound(x)
  BY <1>1, <1>2 DEF Sound, Advanced, Present, RunRecord, Working
<1>8. Sound(run[w])'
  <2>1. Sound(x)'
    BY <1>5, <1>6, <1>7, SoundStays DEF IInv
  <2>. QED  BY <1>2, <2>1 DEF IInv, Types
<1>9. Exists \/ edits # 0
  BY <1>1, <1>2 DEF IInv, Fresh
<1>. QED  BY <1>2, <1>3, <1>4, <1>5, <1>6, <1>8, <1>9, AttemptMoves DEF IInv, Types

\* The checkpoint that is written is of documents that were all dealt with.
LEMMA SaveCheckpointIInv == ASSUME IInv, NEW w \in Worker, SaveCheckpoint(w) PROVE IInv'
<1>1. PICK q \in RunRecord : q = run[w] /\ Sound(q)
  BY DEF IInv, Types
<1>. DEFINE x == [q EXCEPT !.at = "return"]
            row == [q.row EXCEPT !.cursor = q.cursor, !.hash = q.hash]
<1>2. /\ q.at = "save" /\ run' = [run EXCEPT ![w] = x]
      /\ conn' = IF q.save THEN Written(row) ELSE conn
      /\ UNCHANGED <<up, home, stored, uploaded, missed, req, window, edits, leases>>
  BY <1>1 DEF SaveCheckpoint, Step, world, budget, queue
<1>3. row \in ConnectionRow /\ row.kind = q.row.kind /\ row.hash = q.hash
      /\ row.cursor = q.cursor /\ row.place = q.row.place /\ row.target = q.row.target
      /\ row.floor = q.row.floor /\ row.told = q.row.told
  BY DEF RunRecord, ConnectionRow
<1>4. Agrees(row)
  <2>1. q.todo = {} /\ Agrees(q.row) /\ Hashed(q.hash, q.row) /\ ~q.failed
    BY <1>1, <1>2 DEF Sound, Advanced, Working
  <2>2. Exists => Covered(q.cursor, q.row)
    BY <1>1, <1>2, <2>1 DEF Sound, Advanced, Covered
  <2>. HIDE DEF row
  <2>. QED  BY <1>3, <2>1, <2>2 DEF Agrees, Hashed, Covered, Passed, Reached
<1>5. conn' \in ConnectionRow /\ Row' /\ conn'.kind = conn.kind
  <2>1. CASE q.save
    BY <1>2, <1>3, <1>4, <2>1, WrittenRow
  <2>2. CASE ~q.save
    <3>1. conn' = conn /\ Widens
      BY <1>2, <2>2 DEF Widens, Exists
    <3>. QED  BY <3>1, RowStays DEF IInv, Types
  <2>. QED  BY <2>1, <2>2
<1>6. Grows
  BY <1>2, <1>5 DEF Grows, Widens, Exists
<1>7. x \in RunRecord
  BY DEF RunRecord
<1>8. Sound(x)
  BY <1>1, <1>2 DEF Sound, Advanced, Present, RunRecord, Working
<1>9. Sound(run[w])'
  <2>1. Sound(x)'
    BY <1>6, <1>7, <1>8, SoundStays DEF IInv
  <2>. QED  BY <1>2, <2>1 DEF IInv, Types
<1>10. Exists \/ edits # 0
  BY <1>1, <1>2 DEF IInv, Fresh
<1>. QED  BY <1>2, <1>5, <1>6, <1>7, <1>9, <1>10, AttemptMoves DEF IInv, Types

-----------------------------------------------------------------------------
(* The theorems. *)

LEMMA QueueOnly == ASSUME IInv, NEW j \in Job, Sweep(j) \/ CancelJob(j) PROVE IInv'
<1>1. UNCHANGED <<conn, up, home, stored, uploaded, missed, req, run, window, edits, leases>>
  BY DEF Sweep, CancelJob, Q!Lose, Q!Withdraw, Fault, world
<1>. QED
  BY <1>1 DEF IInv, Types, Row, Posted, Fresh, Patched, Agrees, Hashed, Covered, Passed,
              Reached, Exists, Sound, Advanced, Present

LEMMA StepIInv == ASSUME IInv, [Next]_vars PROVE IInv'
<1>1. CASE UNCHANGED vars
  BY <1>1 DEF vars, world, budget, queue, IInv, Types, Row, Posted, Fresh, Patched, Agrees,
              Hashed, Covered, Passed, Reached, Exists, Sound, Advanced, Present
<1>2. CASE \E d \in Doc : \/ \E place \in Place : Publish(d, place)
                          \/ \E c \in Collection : DeleteDocument(c, d)
  BY <1>2, PublishIInv, DeleteDocumentIInv
<1>3. CASE \/ Tick \/ DeleteSource
           \/ \E kind \in {"slack", "github"}, place \in Place, target \in Collection :
                CreateSource(kind, place, target)
  BY <1>3, TickIInv, DeleteSourceIInv, CreateSourceIInv
<1>4. ASSUME NEW r \in Request, RequestNext(r) PROVE IInv'
  BY <1>4, ReadSourceIInv, UpdateSourceIInv, QuietRequestIInv DEF RequestNext
<1>5. ASSUME NEW w \in Worker, AttemptNext(w) PROVE IInv'
  BY <1>5, LeaseIInv, LoadIInv, MarkDispatchedIInv, FetchIInv, ReadLiveIInv, SkipIInv, UploadIInv,
     StumblesIInv, SetSyncStateIInv, SaveCheckpointIInv, FreedIInv DEF AttemptNext
<1>6. CASE \E j \in Job : Sweep(j) \/ CancelJob(j)
  BY <1>6, QueueOnly
<1>. QED  BY <1>1, <1>2, <1>3, <1>4, <1>5, <1>6 DEF Next

THEOREM Invariance == Spec => []IInv
<1>1. Init => IInv
  BY InitIInv
<1>2. IInv /\ [Next]_vars => IInv'
  BY StepIInv
<1>. QED  BY <1>1, <1>2, PTL DEF Spec

\* attemptSync, SaveCheckpoint, UpdateSource: above the cursor that the operator's last edit
\* left for the channel and collection the source names, the stored cursor has passed over
\* no message of that channel that was neither uploaded there nor left out by the
\* provider's limit.
THEOREM CursorIsCovered == Spec => []CursorCovered
<1>1. IInv => CursorCovered
  BY DEF IInv, Row, Covered, Passed, Reached, CursorCovered
<1>. QED  BY <1>1, Invariance, PTL

\* attemptSync, SaveCheckpoint, UpdateSource: a hash that no operator gave is of an upload
\* to the collection the source feeds.
THEOREM HashedIsUploaded == Spec => []HashedWasUploaded
<1>1. IInv => HashedWasUploaded
  BY DEF IInv, Row, Hashed, HashedWasUploaded
<1>. QED  BY <1>1, Invariance, PTL

\* LiveSourceIDs: a sync that returns skipped nothing that was missing from the collection.
THEOREM SyncIsComplete == Spec => []SyncRestores
<1>1. IInv => SyncRestores
  BY DEF IInv, Sound, Advanced, Present, SyncRestores
<1>. QED  BY <1>1, Invariance, PTL

=============================================================================
