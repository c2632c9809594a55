------------------------ MODULE SunspecServer_proofs ------------------------
(***************************************************************************)
(* Type correctness of SunspecServer, its slot accounting, wake-ups, the   *)
(* routing of replies, what two threads in one buffer can do to requests,  *)
(* single execution, the refinement of RequestService, and the length of a *)
(* round of the task, for every pool, capacity and bound.  Each inductive  *)
(* invariant has to say what holds in the middle of a callback too, while  *)
(* the task goes on: which entries stand, and which one is being written.  *)
(***************************************************************************)
EXTENDS SunspecServer, FiniteSetTheorems, TLAPS

USE PoolAssumption, SizeAssumption, BoundAssumption

\* What a callback has in hand at each of its steps ...
Pushes == cpc \in {"load", "store", "data", "size"}
CbInv ==
  /\ cpc # "idle" => client \in Pcbs /\ owner[client] # 0
  /\ Pushes \/ cpc = "notify" => sent[owner[client]] > 0
  /\ cpc # "copy" => pos \in {0, 1}
  /\ cpc \in {"idle", "accept", "fill", "count", "notify"} => pos = 0
  /\ cpc \in {"accept", "count"} => entry = cur_size /\ cur_size < Slots
  /\ cpc = "fill" => entry + 1 = cur_size
  /\ cpc = "copy" => entry <= cur_size /\ cur_size < Slots

\* ... and what the task has: the index at which read_bytes found bytes is one
\* of those it scans.
TaskInv ==
  /\ idx <= n
  /\ pc \in {"span", "clear", "head", "tail", "write"} => idx < n
  /\ pc \in {"tail", "write"} => req \in Requests

TInv == TypeOK /\ CbInv /\ TaskInv

\* A fresh entry.
LEMMA EmptyType ==
  ASSUME NEW p \in Pcbs \cup {NoPcb}
  PROVE  Empty(p) \in Conn
BY DEF Empty, Conn, Cell

\* One byte of a buffer is stored.
Stores(e, o, x) == conns' = [conns EXCEPT ![e].data[o] = x]
LEMMA StoredData ==
  ASSUME TypeOK, NEW e \in Index, NEW o \in 0 .. Cells - 1, NEW x \in Cell, Stores(e, o, x)
  PROVE  /\ conns' \in [Index -> Conn]
         /\ \A i \in Index : i # e => conns'[i] = conns[i]
         /\ conns'[e].client_socket = conns[e].client_socket /\ conns'[e].size = conns[e].size
         /\ conns'[e].data[o] = x
         /\ \A c \in 0 .. Cells - 1 : c # o => conns'[e].data[c] = conns[e].data[c]
<1>1. conns \in [Index -> Conn] /\ conns[e] \in Conn
  BY DEF TypeOK
<1> DEFINE d == [conns[e].data EXCEPT ![o] = x]
<1>2. d \in [0 .. Cells - 1 -> Cell] /\ \A c \in 0 .. Cells - 1 : d[c] = IF c = o THEN x ELSE conns[e].data[c]
  BY <1>1 DEF Conn
<1>3. conns' = [conns EXCEPT ![e] = [conns[e] EXCEPT !.data = d]]
  BY <1>1 DEF Stores
<1> HIDE DEF d
<1>4. [conns[e] EXCEPT !.data = d] = [client_socket |-> conns[e].client_socket, data |-> d, size |-> conns[e].size]
  BY <1>1 DEF Conn
<1>5. [conns[e] EXCEPT !.data = d] \in Conn
  BY <1>1, <1>2, <1>4 DEF Conn
<1>6. conns'[e] = [conns[e] EXCEPT !.data = d] /\ \A i \in Index : i # e => conns'[i] = conns[i]
  BY <1>1, <1>3
<1> QED
  BY <1>1, <1>2, <1>3, <1>4, <1>5, <1>6

\* Its length is.
LEMMA StoredSize ==
  ASSUME TypeOK, NEW e \in Index, NEW z \in 0 .. Cells,
         conns' = [conns EXCEPT ![e].size = z]
  PROVE  /\ conns' \in [Index -> Conn]
         /\ \A i \in Index : i # e => conns'[i] = conns[i]
         /\ conns'[e].client_socket = conns[e].client_socket /\ conns'[e].size = z
         /\ conns'[e].data = conns[e].data
<1>1. conns \in [Index -> Conn] /\ conns[e] \in Conn
  BY DEF TypeOK
<1>2. conns' = [conns EXCEPT ![e] = [conns[e] EXCEPT !.size = z]]
  BY <1>1
<1>3. [conns[e] EXCEPT !.size = z] = [client_socket |-> conns[e].client_socket, data |-> conns[e].data, size |-> z]
  BY <1>1 DEF Conn
<1> QED
  BY <1>1, <1>2, <1>3 DEF Conn

\* One byte of the last entry is copied, and with the first one its socket.
LEMMA CopiedCell ==
  ASSUME TInv, CopyCell
  PROVE  /\ conns' \in [Index -> Conn]
         /\ \A i \in Index : i # entry => conns'[i] = conns[i]
         /\ conns'[entry].client_socket = Last.client_socket
         /\ conns'[entry].size = conns[entry].size
         /\ \A c \in 0 .. Cells - 1 :
              conns'[entry].data[c] = IF c = pos THEN Last.data[pos] ELSE conns[entry].data[c]
<1>1. /\ conns \in [Index -> Conn] /\ entry \in Index /\ conns[entry] \in Conn
      /\ cur_size \in Index /\ Last \in Conn /\ pos \in 0 .. Cells - 1
  <2>1. conns \in [Index -> Conn] /\ entry \in Index /\ pos \in 0 .. Cells /\ cur_size \in 0 .. Slots
    BY DEF TInv, TypeOK
  <2>2. cpc = "copy" /\ pos < Cells
    BY DEF CopyCell, CopyEnd, Runs
  <2>3. cur_size < Slots
    BY <2>2 DEF TInv, CbInv
  <2>4. cur_size \in Index /\ pos \in 0 .. Cells - 1
    BY <2>1, <2>2, <2>3 DEF Index
  <2> QED
    BY <2>1, <2>4 DEF Last
<1> DEFINE d == [conns[entry].data EXCEPT ![pos] = Last.data[pos]]
           q == Last.client_socket
<1>2. d \in [0 .. Cells - 1 -> Cell] /\ q \in Pcbs \cup {NoPcb}
  BY <1>1 DEF Conn
<1>3. \A c \in 0 .. Cells - 1 : d[c] = IF c = pos THEN Last.data[pos] ELSE conns[entry].data[c]
  BY <1>1 DEF Conn
<1>4. conns' = [conns EXCEPT ![entry] = [[conns[entry] EXCEPT !.data = d] EXCEPT !.client_socket = q]]
  BY <1>1 DEF CopyCell
<1> HIDE DEF d, q
<1>5. [[conns[entry] EXCEPT !.data = d] EXCEPT !.client_socket = q]
      = [client_socket |-> q, data |-> d, size |-> conns[entry].size]
  <2> DEFINE b == [conns[entry] EXCEPT !.data = d]
  <2>1. b = [client_socket |-> conns[entry].client_socket, data |-> d, size |-> conns[entry].size]
    BY <1>1 DEF Conn
  <2> HIDE DEF b
  <2>2. [b EXCEPT !.client_socket = q] = [client_socket |-> q, data |-> d, size |-> conns[entry].size]
    BY <2>1
  <2> QED
    BY <2>2 DEF b
<1>6. conns'[entry] = [client_socket |-> q, data |-> d, size |-> conns[entry].size]
  BY <1>1, <1>4, <1>5
<1>7. [client_socket |-> q, data |-> d, size |-> conns[entry].size] \in Conn
  BY <1>1, <1>2 DEF Conn
<1>8. conns' \in [Index -> Conn] /\ \A i \in Index : i # entry => conns'[i] = conns[i]
  BY <1>1, <1>4, <1>5, <1>7
<1> QED
  BY <1>3, <1>6, <1>8 DEF q

\* The part that a recv callback stores.
LEMMA PartType ==
  ASSUME TInv, Pushes
  PROVE  Coming \in Requests /\ NextPart \in Cell /\ NextPart.of = Coming /\ pos \in {0, 1}
<1>1. client \in Pcbs /\ owner[client] # 0 /\ sent[owner[client]] > 0 /\ pos \in {0, 1}
  BY DEF TInv, CbInv, Pushes
<1>2. owner[client] \in Sessions /\ sent[owner[client]] \in 1 .. Window
  BY <1>1 DEF TInv, TypeOK, Sessions
<1> QED
  BY <1>1, <1>2 DEF Coming, Requests, NextPart, Part, Cell, Parts

\* Between callbacks no local of one is left.
LEMMA ReturnType ==
  ASSUME Returns
  PROVE  /\ cpc' = "idle" /\ client' \in Pcbs \cup {NoPcb} /\ entry' \in Index
         /\ pos' = 0 /\ old' \in 0 .. Cells - 1
BY DEF Returns, Index

LEMMA CallbackType ==
  ASSUME TInv, Callbacks
  PROVE  TInv'
<1> USE DEF TInv
<1>0. /\ entry \in Index /\ old \in 0 .. Cells - 1 /\ conns \in [Index -> Conn] /\ cur_size \in 0 .. Slots
      /\ pos \in 0 .. Cells
  BY DEF TypeOK
<1>1. CASE FillEntry
  <2>1. client \in Pcbs
    BY <1>1 DEF FillEntry, Runs, CbInv
  <2>2. conns' \in [Index -> Conn]
    BY <1>0, <1>1, <2>1, EmptyType DEF FillEntry
  <2>3. CASE cpc = "accept"
    BY <1>1, <2>2, <2>3 DEF FillEntry, Goes, TypeOK, CbInv, TaskInv, Pushes, lwip, task, locals, work, wait, ghosts
  <2>4. CASE cpc # "accept"
    BY <1>1, <2>2, <2>4, ReturnType DEF FillEntry, TypeOK, CbInv, TaskInv, Pushes, lwip, task, locals, work, wait, ghosts
  <2> QED
    BY <2>3, <2>4
<1>2. CASE CountEntry
  <2>1. cur_size' = cur_size + 1 /\ cur_size' \in 0 .. Slots /\ entry = cur_size
    BY <1>0, <1>2 DEF CountEntry, Runs, CbInv
  <2>3. CASE cpc = "accept"
    BY <1>2, <2>1, <2>3 DEF CountEntry, Goes, TypeOK, CbInv, TaskInv, Pushes, lwip, task, locals, work, wait, ghosts
  <2>4. CASE cpc # "accept"
    BY <1>2, <2>1, <2>4, ReturnType DEF CountEntry, TypeOK, CbInv, TaskInv, Pushes, lwip, task, locals, work, wait, ghosts
  <2> QED
    BY <2>3, <2>4
<1>3. CASE Load
  <2>1. pos \in {0, 1} /\ cpc = "load" /\ client \in Pcbs /\ owner[client] # 0 /\ sent[owner[client]] > 0
    BY <1>3 DEF Load, Runs, CbInv, Pushes
  <2>2. conns[entry].size \in 0 .. Cells
    BY <1>0 DEF Conn
  <2>3. CASE Fits
    <3>1. old' \in 0 .. Cells - 1 /\ cpc' = "store" /\ pos' = pos
      BY <1>3, <2>2, <2>3 DEF Load, Fits
    <3> QED
      BY <1>3, <2>1, <3>1 DEF Load, TypeOK, CbInv, TaskInv, Pushes, lwip, list, task, locals, work, wait, ghosts
  <2>4. CASE ~Fits
    <3>1. old' = 0 /\ cpc' \in {"load", "notify"} /\ pos' \in {0, 1} /\ (cpc' = "notify" => pos' = 0)
      BY <1>3, <2>1, <2>4 DEF Load, Advance
    <3> QED
      BY <1>3, <2>1, <3>1 DEF Load, TypeOK, CbInv, TaskInv, Pushes, lwip, list, task, locals, work, wait, ghosts
  <2> QED
    BY <2>3, <2>4
<1>4. CASE StoreData \/ StoreSize
  <2>1. Pushes /\ pos \in {0, 1} /\ client \in Pcbs /\ owner[client] # 0 /\ sent[owner[client]] > 0
    BY <1>4 DEF StoreData, StoreSize, Runs, CbInv, Pushes
  <2>2. conns' \in [Index -> Conn]
    <3>1. CASE StoreData
      BY <1>0, <2>1, <3>1, StoredData, PartType DEF Stores, StoreData
    <3>2. CASE StoreSize
      <4>1. old + 1 \in 0 .. Cells /\ conns' = [conns EXCEPT ![entry].size = old + 1]
        BY <1>0, <3>2 DEF StoreSize
      <4> QED
        BY <1>0, <4>1, StoredSize
    <3> QED
      BY <1>4, <3>1, <3>2
  <2>3. /\ cpc' \in {"data", "size", "load", "notify"} /\ pos' \in {0, 1} /\ (cpc' = "notify" => pos' = 0)
        /\ old' \in 0 .. Cells - 1
    BY <1>0, <1>4, <2>1 DEF StoreData, StoreSize, Advance
  <2>4. UNCHANGED <<lwip, cur_size, client, entry, task, wait, ghosts, fault>>
    BY <1>4 DEF StoreData, StoreSize
  <2> QED
    BY <2>1, <2>2, <2>3, <2>4 DEF TypeOK, CbInv, TaskInv, Pushes, lwip, task, locals, work, wait, ghosts
<1>5. CASE Notify
  <2>1. notified' \in BOOLEAN /\ fault' \in {"none", "nullnotify", "nullio"}
    BY <1>5 DEF Notify, Give, TypeOK
  <2> QED
    BY <1>5, <2>1, ReturnType DEF Notify, TypeOK, CbInv, TaskInv, Pushes, lwip, list, task, locals, work, ghosts
<1>6. CASE CopyCell
  <2>1. conns' \in [Index -> Conn]
    BY <1>6, CopiedCell
  <2>2. pos' \in 0 .. Cells /\ cpc' = "copy" /\ cpc = "copy"
    BY <1>0, <1>6 DEF CopyCell, CopyEnd, Runs
  <2> QED
    BY <1>6, <2>1, <2>2 DEF CopyCell, TypeOK, CbInv, TaskInv, Pushes, lwip, task, locals, work, wait, ghosts
<1>7. CASE CopySize
  <2>1. cur_size \in Index
    BY <1>0, <1>7 DEF CopySize, Runs, CbInv, Index
  <2>2. Last.size \in 0 .. Cells
    BY <1>0, <2>1 DEF Last, Conn
  <2>3. conns' \in [Index -> Conn]
    BY <1>0, <1>7, <2>2, StoredSize DEF CopySize
  <2>4. owner' \in [Pcbs -> 0 .. MaxSessions]
    <3>1. owner' = [owner EXCEPT ![client] = 0] /\ owner \in [Pcbs -> 0 .. MaxSessions]
      BY <1>7 DEF CopySize, Freed, TypeOK
    <3>2. client \in Pcbs /\ 0 \in 0 .. MaxSessions
      BY <1>7 DEF CopySize, Runs, CbInv
    <3> QED
      BY <3>1, <3>2
  <2> QED
    BY <1>7, <2>3, <2>4, ReturnType DEF CopySize, TypeOK, CbInv, TaskInv, Pushes, task, locals, work, wait, ghosts
<1> QED
  BY <1>1, <1>2, <1>3, <1>4, <1>5, <1>6, <1>7 DEF Callbacks

LEMMA PeersType ==
  ASSUME TInv, Peers
  PROVE  TInv'
<1> USE DEF TInv
<1>0. /\ owner \in [Pcbs -> 0 .. MaxSessions] /\ nsess \in 0 .. MaxSessions /\ cur_size \in 0 .. Slots
      /\ sent \in [Sessions -> 0 .. Window] /\ conns \in [Index -> Conn]
  BY DEF TypeOK
<1>1. ASSUME NEW p \in Pcbs, Accept(p) PROVE TInv'
  <2>1. nsess' \in 0 .. MaxSessions /\ nsess + 1 \in 1 .. MaxSessions /\ pos = 0 /\ cpc = "idle"
    BY <1>0, <1>1 DEF Accept, Runs, CbInv
  <2>2. CASE cur_size < Slots
    <3>1. owner' = [owner EXCEPT ![p] = nsess + 1] /\ entry' = cur_size /\ client' = p /\ cpc' = "accept"
          /\ fault' = fault /\ cur_size' = cur_size
      BY <1>1, <2>2 DEF Accept, list
    <3>2. owner' \in [Pcbs -> 0 .. MaxSessions] /\ owner'[p] # 0 /\ entry' \in Index
      BY <1>0, <2>1, <2>2, <3>1 DEF Index
    <3> QED
      BY <1>1, <2>1, <2>2, <3>1, <3>2
      DEF Accept, TypeOK, CbInv, TaskInv, Pushes, list, task, locals, work, wait, ghosts
  <2>3. CASE ~(cur_size < Slots)
    BY <1>1, <2>1, <2>3
    DEF Accept, TypeOK, CbInv, TaskInv, Pushes, list, task, locals, work, wait, ghosts
  <2> QED
    BY <2>2, <2>3
<1>2. ASSUME NEW p \in Pcbs, Recv(p) PROVE TInv'
  <2> DEFINE s == owner[p]
  <2>1. s \in Sessions /\ sent[s] + 1 \in 1 .. Window /\ s # 0 /\ cpc = "idle" /\ pos = 0
    BY <1>0, <1>2 DEF Recv, Callback, MaySend, Sessions, CbInv
  <2>2. sent' \in [Sessions -> 0 .. Window] /\ sent'[s] > 0
    BY <1>0, <1>2, <2>1 DEF Recv
  <2>3. <<s, sent[s] + 1>> \in Requests
    BY <2>1 DEF Requests
  <2>4. entry' \in Index /\ cpc' \in {"load", "notify"} /\ torn' \subseteq Requests
    <3>1. ASSUME NEW i \in Index PROVE Inside(i) \subseteq Requests
      BY <1>0 DEF Inside, Conn, Cell, NoPart, Part
    <3> QED
      BY <1>2, <2>3, <3>1 DEF Recv, TypeOK
  <2> HIDE DEF s
  <2>5. owner' = owner /\ client' = p /\ pos' = 0
    BY <1>2, <2>1 DEF Recv
  <2> QED
    BY <1>2, <2>1, <2>2, <2>4, <2>5
    DEF Recv, TypeOK, CbInv, TaskInv, Pushes, list, task, locals, work, wait, s
<1>3. ASSUME NEW p \in Pcbs, Result(p) PROVE TInv'
  <2>0. cpc = "idle" /\ pos = 0 /\ owner[p] # 0
    BY <1>3 DEF Result, Callback, CbInv
  <2>1. CASE Listed(p)
    <3>1. PICK i \in Index : First(i, p) /\ entry' = i /\ Pop(i) /\ cpc' = "copy" /\ client' = p /\ owner' = owner
      BY <1>3, <2>1 DEF Result
    <3>2. i < cur_size
      BY <3>1 DEF First, Holds
    <3>3. cur_size' \in 0 .. Slots /\ cur_size' < Slots /\ entry' <= cur_size'
      BY <1>0, <3>1, <3>2 DEF Pop, Index
    <3>4. moved' \in BOOLEAN /\ everMoved' \in BOOLEAN /\ skipped' \in BOOLEAN /\ torn' = torn
      BY <3>1 DEF Pop, TypeOK
    <3> QED
      BY <1>3, <2>0, <3>1, <3>3, <3>4 DEF Result, TypeOK, CbInv, TaskInv, Pushes, task, locals, work, wait
  <2>2. CASE ~Listed(p)
    <3>1. owner' = [owner EXCEPT ![p] = 0] /\ UNCHANGED <<cur_size, cpc, client, entry, ghosts>>
      BY <1>3, <2>2 DEF Result, Listed, First
    <3>2. owner' \in [Pcbs -> 0 .. MaxSessions]
      <4>1. 0 \in 0 .. MaxSessions
        OBVIOUS
      <4> QED
        BY <1>0, <3>1, <4>1
    <3> QED
      BY <1>3, <2>0, <3>1, <3>2 DEF Result, TypeOK, CbInv, TaskInv, Pushes, task, locals, work, wait, ghosts
  <2> QED
    BY <2>1, <2>2
<1>4. ASSUME NEW p \in Pcbs, Err(p) PROVE TInv'
  <2>0. cpc = "idle" /\ owner[p] \in Sessions
    BY <1>0, <1>4 DEF Err, Callback, Sessions
  <2>1. owner' \in [Pcbs -> 0 .. MaxSessions]
    <3>1. 0 \in 0 .. MaxSessions /\ owner' = [owner EXCEPT ![p] = 0]
      BY <1>4 DEF Err
    <3> QED
      BY <1>0, <3>1
  <2>2. resets' \subseteq Sessions
    BY <1>4, <2>0 DEF Err, TypeOK
  <2> QED
    BY <1>4, <2>0, <2>1, <2>2
    DEF Err, TypeOK, CbInv, TaskInv, Pushes, list, tcpip, task, locals, work, wait, ghosts
<1> QED
  BY <1>1, <1>2, <1>3, <1>4 DEF Peers, PeerClose, Poll

\* What the task does leaves the callbacks' state alone.
LEMMA ServerLeaves ==
  ASSUME Server
  PROVE  UNCHANGED <<lwip, cur_size, tcpip, fault>> /\ fault = "none"
BY DEF Server, StartRead, ScanHit, ScanMiss, Span, Clear, Arm, Take, Timeout, Wake, Nothing, ServeHead,
   ServeTail, WriteBytes, Step, From, list

LEMMA EndsType ==
  ASSUME TInv, Ends
  PROVE  /\ TaskInv' /\ pc' = "poll" /\ pass' \in {1, 2} /\ idx' \in 0 .. Slots /\ n' \in 0 .. Slots
         /\ span' \in Index /\ len' \in 0 .. Cells /\ req' \in Requests \cup {NoReq}
         /\ moved' \in BOOLEAN /\ everMoved' \in BOOLEAN /\ skipped' \in BOOLEAN /\ torn' \subseteq Requests
<1>1. everMoved \in BOOLEAN /\ torn \subseteq Requests
  BY DEF TInv, TypeOK
<1>2. 0 \in Index /\ 0 \in 0 .. Slots /\ 0 \in 0 .. Cells
  BY DEF Index
<1>3. TaskInv'
  BY DEF Ends, TaskInv
<1>4. everMoved' \in BOOLEAN /\ torn' \subseteq Requests
  BY <1>1 DEF Ends
<1> QED
  BY <1>2, <1>3, <1>4 DEF Ends

LEMMA ServerType ==
  ASSUME TInv, Server
  PROVE  TInv'
<1> USE DEF TInv
<1>0. /\ conns \in [Index -> Conn] /\ cur_size \in 0 .. Slots /\ idx \in 0 .. Slots /\ n \in 0 .. Slots
      /\ span \in Index /\ len \in 0 .. Cells
  BY DEF TypeOK
<1>1. CbInv'
  BY ServerLeaves DEF CbInv, Pushes, lwip, tcpip
<1>2. ASSUME NEW i \in Index PROVE Inside(i) \subseteq Requests
  BY <1>0 DEF Inside, Conn, Cell, NoPart, Part
<1>3. At(idx) \in Index
  BY <1>0 DEF At, Index
<1>u. USE DEF Step, From, lwip, list, tcpip, task, locals, work, wait, ghosts
<1>4. CASE StartRead
  <2>1. /\ pc' = "scan" /\ pass' = 1 /\ idx' = 0 /\ n' = cur_size /\ UNCHANGED <<span, len, req>>
        /\ skipped' \in BOOLEAN
    BY <1>4 DEF StartRead, BeginScan
  <2> QED
    BY <1>0, <1>1, <1>4, <2>1 DEF StartRead, TypeOK, TaskInv
<1>5. CASE ScanHit
  <2>1. moved' \in BOOLEAN /\ everMoved' \in BOOLEAN
    BY <1>5 DEF ScanHit, TypeOK, Copying
  <2>2. torn' \subseteq Requests
    <3>1. CASE Pushing(At(idx))
      <4>1. Coming \in Requests
        BY <3>1, PartType DEF Pushing, Pushes
      <4> QED
        BY <1>2, <1>3, <1>5, <4>1 DEF ScanHit, TypeOK
    <3>2. CASE ~Pushing(At(idx))
      BY <1>5, <3>2 DEF ScanHit, TypeOK
    <3> QED
      BY <3>1, <3>2
  <2> QED
    BY <1>1, <1>3, <1>5, <2>1, <2>2 DEF ScanHit, TypeOK, TaskInv
<1>6. CASE ScanMiss
  BY <1>0, <1>1, <1>6 DEF ScanMiss, TypeOK, TaskInv
<1>7. CASE Span
  <2>1. conns[At(idx)].size \in 0 .. Cells
    BY <1>0, <1>3 DEF Conn
  <2> QED
    BY <1>1, <1>3, <1>7, <2>1 DEF Span, TypeOK, TaskInv
<1>8. CASE Clear
  <2>1. conns[At(idx)] \in Conn
    BY <1>0, <1>3
  <2>2. Cleared(conns[At(idx)]) = [client_socket |-> conns[At(idx)].client_socket,
                                   data |-> conns[At(idx)].data, size |-> 0]
    BY <2>1 DEF Cleared, Conn
  <2>3. Cleared(conns[At(idx)]) \in Conn
    BY <2>1, <2>2 DEF Conn
  <2>4. conns' \in [Index -> Conn]
    BY <1>0, <1>3, <1>8, <2>3 DEF Clear
  <2>5. cur_client' \in -1 .. Slots - 1 /\ pc = "clear" /\ idx < n
    BY <1>0, <1>8 DEF Clear, TaskInv
  <2> QED
    BY <1>1, <1>8, <2>4, <2>5 DEF Clear, TypeOK, TaskInv
<1>9. CASE Arm
  BY <1>1, <1>9 DEF Arm, TypeOK, TaskInv
<1>10. CASE Take \/ Timeout
  <2>1. /\ pc' = "scan" /\ pass' = 2 /\ idx' = 0 /\ n' = cur_size /\ UNCHANGED <<span, len, req>>
        /\ notified' = FALSE /\ UNCHANGED <<conns, work, armed, ghosts>>
    BY <1>10 DEF Take, Timeout, Wake, BeginScan
  <2>2. notified' \in BOOLEAN
    BY <2>1
  <2> QED
    BY <1>0, <1>1, <2>1, <2>2, ServerLeaves DEF TypeOK, TaskInv
<1>11. CASE Nothing
  BY <1>1, <1>11, EndsType DEF Nothing, TypeOK
<1>12. CASE ServeHead
  <2>1. conns[span].data[0] \in Cell
    BY <1>0 DEF Conn
  <2>2. CASE len > 1 /\ IsHead(conns[span].data[0])
    <3>1. conns[span].data[0].of \in Requests
      BY <2>1, <2>2 DEF IsHead, Cell, NoPart, Part
    <3>2. pc' = "tail" /\ pc = "head" /\ req' = conns[span].data[0].of /\ UNCHANGED <<pass, idx, n, span, len, ghosts>>
      BY <1>12, <2>2 DEF ServeHead
    <3> QED
      BY <1>1, <1>12, <3>1, <3>2 DEF ServeHead, TypeOK, TaskInv
  <2>3. CASE ~(len > 1 /\ IsHead(conns[span].data[0]))
    BY <1>1, <1>12, <2>3, EndsType DEF ServeHead, TypeOK
  <2> QED
    BY <2>2, <2>3
<1>13. CASE ServeTail
  <2> DEFINE tail == conns[span].data[1]
  <2>1. CASE IsHead(tail) \/ tail = NoPart
    <3>1. Ends /\ UNCHANGED <<executed, mixed>>
      BY <1>13, <2>1 DEF ServeTail
    <3> QED
      BY <1>1, <1>13, <3>1, EndsType DEF ServeTail, TypeOK
  <2>2. CASE ~(IsHead(tail) \/ tail = NoPart)
    <3>1. /\ pc = "tail" /\ pc' = "write" /\ UNCHANGED <<locals, ghosts>>
          /\ executed' \subseteq executed \cup {req} /\ mixed' \subseteq mixed \cup {req}
      BY <1>13, <2>2 DEF ServeTail
    <3>2. req \in Requests
      BY <3>1 DEF TaskInv
    <3>3. executed' \subseteq Requests /\ mixed' \subseteq Requests
      BY <3>1, <3>2 DEF TypeOK
    <3> QED
      BY <1>1, <1>13, <3>1, <3>3 DEF ServeTail, TypeOK, TaskInv
  <2> QED
    BY <2>1, <2>2
<1>14. CASE WriteBytes
  <2>1. pc = "write" /\ req \in Requests /\ Ends
    BY <1>14 DEF WriteBytes, TaskInv
  <2>2. req[1] \in Sessions /\ req[2] \in 0 .. Window
    BY <2>1 DEF Requests
  <2>3. answered' \in [Sessions -> 0 .. Window] /\ refused' \subseteq Requests
    BY <1>14, <2>1, <2>2 DEF WriteBytes, TypeOK
  <2>4. cur_client' \in -1 .. Slots - 1
    BY <1>14 DEF WriteBytes
  <2> QED
    BY <1>1, <1>14, <2>1, <2>3, <2>4, EndsType DEF WriteBytes, TypeOK
<1> QED
  BY <1>4, <1>5, <1>6, <1>7, <1>8, <1>9, <1>10, <1>11, <1>12, <1>13, <1>14 DEF Server

LEMMA InitType ==
  ASSUME Init
  PROVE  TInv
<1>1. Empty(NoPcb) \in Conn
  BY EmptyType
<1>2. conns \in [Index -> Conn] /\ 0 \in Index
  BY <1>1 DEF Init, Index
<1>3. owner \in [Pcbs -> 0 .. MaxSessions] /\ nsess \in 0 .. MaxSessions
  BY DEF Init
<1>4. sent \in [Sessions -> 0 .. Window] /\ answered \in [Sessions -> 0 .. Window]
  BY DEF Init
<1>5. /\ cur_client \in -1 .. Slots - 1 /\ cur_size \in 0 .. Slots /\ old \in 0 .. Cells - 1 /\ pos \in 0 .. Cells
      /\ idx \in 0 .. Slots /\ n \in 0 .. Slots /\ len \in 0 .. Cells
  BY DEF Init
<1> QED
  <2>1. TypeOK
    BY <1>2, <1>3, <1>4, <1>5 DEF Init, TypeOK
  <2>2. CbInv
    BY DEF Init, CbInv, Pushes
  <2>3. TaskInv
    BY DEF Init, TaskInv
  <2> QED
    BY <2>1, <2>2, <2>3 DEF TInv

LEMMA Typing == Spec => []TInv
<1>1. Init => TInv
  BY InitType
<1>2. TInv /\ [Next]_vars => TInv'
  <2>1. TInv /\ UNCHANGED vars => TInv'
    BY DEF TInv, TypeOK, CbInv, TaskInv, Pushes, vars, lwip, list, tcpip, task, locals, work, wait, ghosts
  <2> QED
    BY <2>1, PeersType, CallbackType, ServerType DEF Next
<1> QED
  BY <1>1, <1>2, PTL DEF Spec

\* Every variable keeps its type: in particular the list stays within its
\* capacity, a buffer within its own, and cur_client within -1 .. Slots - 1.
THEOREM TypeCorrect == Spec => []TypeOK
<1>1. TInv => TypeOK
  BY DEF TInv
<1> QED
  BY <1>1, Typing, PTL

-----------------------------------------------------------------------------
(* The list in the middle of a callback.  An entry stands when it is in the *)
(* list and no callback is writing it; while the last one is copied to the  *)
(* place of a removed one, it stands where it was.                          *)

BeingWritten(i) == cpc \in {"fill", "copy"} /\ entry = i
Stands(i) == (i < cur_size \/ (cpc = "copy" /\ i = cur_size)) /\ ~BeingWritten(i)

\* What a callback has written so far of the entry that does not stand yet.
Half ==
  /\ cpc = "count" => conns[entry] = Empty(client)
  /\ cpc = "copy" =>
       /\ pos > 0 => conns[entry].client_socket = Last.client_socket
       /\ \A c \in 0 .. pos - 1 : conns[entry].data[c] = Last.data[c]

\* Clearing a buffer keeps everything but its length.
LEMMA ClearEffect ==
  ASSUME TInv, Clear
  PROVE  /\ At(idx) \in Index
         /\ \A i \in Index : i # At(idx) => conns'[i] = conns[i]
         /\ conns'[At(idx)] = [client_socket |-> conns[At(idx)].client_socket,
                               data |-> conns[At(idx)].data, size |-> 0]
         /\ \A i \in Index : conns'[i].client_socket = conns[i].client_socket /\ conns'[i].data = conns[i].data
<1>1. conns \in [Index -> Conn] /\ At(idx) \in Index
  BY DEF TInv, TypeOK, At, Index
<1>2. conns[At(idx)] \in Conn
  BY <1>1
<1>3. Cleared(conns[At(idx)]) = [client_socket |-> conns[At(idx)].client_socket,
                                 data |-> conns[At(idx)].data, size |-> 0]
  BY <1>2 DEF Cleared, Conn
<1>4. conns' = [conns EXCEPT ![At(idx)] = Cleared(conns[At(idx)])]
  BY DEF Clear
<1>5. conns'[At(idx)] = Cleared(conns[At(idx)]) /\ \A i \in Index : i # At(idx) => conns'[i] = conns[i]
  BY <1>1, <1>4
<1> QED
  BY <1>1, <1>3, <1>5

LEMMA ServerConns ==
  ASSUME Server, ~Clear
  PROVE  conns' = conns
BY DEF Server, StartRead, ScanHit, ScanMiss, Span, Arm, Take, Timeout, Wake, Nothing, ServeHead,
   ServeTail, WriteBytes, list

\* The copy is complete with the length.
LEMMA CopyDone ==
  ASSUME TInv, Half, CopySize
  PROVE  /\ cur_size \in Index /\ conns'[entry] = conns[cur_size]
         /\ \A i \in Index : i # entry => conns'[i] = conns[i]
<1>1. /\ conns \in [Index -> Conn] /\ entry \in Index /\ cpc = "copy" /\ pos = Cells /\ cur_size \in Index
  <2>1. cpc = "copy" /\ pos = Cells
    BY DEF CopySize, CopyEnd, Runs
  <2>2. conns \in [Index -> Conn] /\ entry \in Index /\ cur_size \in 0 .. Slots
    BY DEF TInv, TypeOK
  <2>3. cur_size < Slots
    BY <2>1 DEF TInv, CbInv
  <2> QED
    BY <2>1, <2>2, <2>3 DEF Index
<1>2. Last \in Conn /\ Last = conns[cur_size] /\ Last.size \in 0 .. Cells
  BY <1>1 DEF Last, Conn
<1>3. conns' = [conns EXCEPT ![entry].size = Last.size]
  BY DEF CopySize
<1>4. /\ conns' \in [Index -> Conn] /\ \A i \in Index : i # entry => conns'[i] = conns[i]
      /\ conns'[entry].client_socket = conns[entry].client_socket /\ conns'[entry].size = Last.size
      /\ conns'[entry].data = conns[entry].data
  BY <1>1, <1>2, <1>3, StoredSize DEF TInv
<1>5. conns[entry].client_socket = Last.client_socket
  BY <1>1 DEF Half
<1>6. conns[entry].data = Last.data
  <2>1. conns[entry].data \in [0 .. Cells - 1 -> Cell] /\ Last.data \in [0 .. Cells - 1 -> Cell]
    BY <1>1, <1>2 DEF Conn
  <2>2. \A c \in 0 .. Cells - 1 : conns[entry].data[c] = Last.data[c]
    BY <1>1 DEF Half
  <2> QED
    BY <2>1, <2>2
<1>7. conns'[entry] = Last
  <2>1. conns'[entry] \in Conn
    BY <1>1, <1>4
  <2>2. conns'[entry] = [client_socket |-> conns'[entry].client_socket, data |-> conns'[entry].data, size |-> conns'[entry].size]
    BY <2>1 DEF Conn
  <2>3. Last = [client_socket |-> Last.client_socket, data |-> Last.data, size |-> Last.size]
    BY <1>2 DEF Conn
  <2>4. conns'[entry].client_socket = Last.client_socket /\ conns'[entry].data = Last.data /\ conns'[entry].size = Last.size
    BY <1>4, <1>5, <1>6
  <2> QED
    BY <2>2, <2>3, <2>4
<1> QED
  BY <1>1, <1>2, <1>4, <1>7

\* The slot that an accept callback fills, and the one it counts.
LEMMA FillEffect ==
  ASSUME TInv, FillEntry
  PROVE  /\ client \in Pcbs /\ entry \in Index /\ conns'[entry] = Empty(client) /\ cur_size' = cur_size
         /\ \A i \in Index : i # entry => conns'[i] = conns[i]
         /\ cpc \in {"accept", "fill"} /\ cpc' = IF cpc = "accept" THEN "count" ELSE "idle"
         /\ cpc = "accept" => entry' = entry /\ client' = client /\ entry = cur_size
         /\ cpc = "fill" => entry + 1 = cur_size
<1>1. conns \in [Index -> Conn] /\ entry \in Index
  BY DEF TInv, TypeOK
<1>2. /\ cpc \in {"accept", "fill"} /\ conns' = [conns EXCEPT ![entry] = Empty(client)] /\ cur_size' = cur_size
      /\ cpc = "accept" => Goes("count")
      /\ cpc # "accept" => Returns
  BY DEF FillEntry, Runs
<1> QED
  BY <1>1, <1>2 DEF TInv, CbInv, Goes, Returns

LEMMA CountEffect ==
  ASSUME TInv, CountEntry
  PROVE  /\ client \in Pcbs /\ entry = cur_size /\ cur_size' = cur_size + 1 /\ conns' = conns
         /\ cpc \in {"accept", "count"} /\ cpc' = IF cpc = "accept" THEN "fill" ELSE "idle"
         /\ cpc = "accept" => entry' = entry /\ client' = client
<1>2. /\ cpc \in {"accept", "count"} /\ conns' = conns /\ cur_size' = cur_size + 1
      /\ cpc = "accept" => Goes("fill")
      /\ cpc # "accept" => Returns
  BY DEF CountEntry, Runs
<1> QED
  BY <1>2 DEF TInv, CbInv, Goes, Returns

\* An entry that stands after a step did so before it, was the last one and has
\* been copied, or is a fresh one that was just accepted.
SameSocket(i, j) == conns'[i].client_socket = conns[j].client_socket
LEMMA StandsAfter ==
  ASSUME TInv, Half, [Next]_vars, NEW j \in Index, Stands(j)'
  PROVE  \/ Stands(j) /\ SameSocket(j, j)
         \/ CopySize /\ j = entry /\ Stands(cur_size) /\ cur_size # entry /\ conns'[j] = conns[cur_size]
         \/ (FillEntry \/ CountEntry) /\ cpc' = "idle" /\ j = entry /\ conns'[j] = Empty(client)
<1>0. /\ conns \in [Index -> Conn] /\ cur_size \in 0 .. Slots /\ entry \in Index
  BY DEF TInv, TypeOK
<1> USE DEF SameSocket
<1>1. CASE \E p \in Pcbs : Accept(p)
  <2>1. cpc' \in {"idle", "accept"} /\ cpc = "idle" /\ conns' = conns /\ cur_size' = cur_size
    BY <1>1 DEF Accept, Runs, list
  <2> QED
    BY <2>1 DEF Stands, BeingWritten
<1>2. CASE \E p \in Pcbs : Recv(p)
  <2>1. cpc' \in {"load", "notify"} /\ cpc = "idle" /\ conns' = conns /\ cur_size' = cur_size
    BY <1>2 DEF Recv, Callback, list
  <2> QED
    BY <2>1 DEF Stands, BeingWritten
<1>3. CASE \E p \in Pcbs : Result(p)
  <2>1. PICK p \in Pcbs : Result(p)
    BY <1>3
  <2>2. cpc = "idle" /\ conns' = conns
    BY <2>1 DEF Result, Callback
  <2>3. CASE Listed(p)
    <3>1. PICK i \in Index : First(i, p) /\ entry' = i /\ Pop(i) /\ cpc' = "copy"
      BY <2>1, <2>3 DEF Result
    <3>2. cur_size' = cur_size - 1
      BY <3>1 DEF Pop
    <3>3. j < cur_size
      BY <1>0, <3>1, <3>2 DEF Stands, Index
    <3> QED
      BY <2>2, <3>3 DEF Stands, BeingWritten
  <2>4. CASE ~Listed(p)
    <3>1. cpc' = cpc /\ cur_size' = cur_size
      BY <2>1, <2>4 DEF Result, Listed, First
    <3> QED
      BY <2>2, <3>1 DEF Stands, BeingWritten
  <2> QED
    BY <2>3, <2>4
<1>4. CASE \E p \in Pcbs : Err(p)
  BY <1>4 DEF Err, list, tcpip, Stands, BeingWritten
<1>5. CASE FillEntry
  <2>1. CASE cpc = "accept"
    <3>1. j < cur_size /\ cur_size = entry
      BY <1>5, <2>1, FillEffect DEF Stands, BeingWritten
    <3>2. j # entry
      BY <1>0, <3>1
    <3> QED
      BY <1>5, <2>1, <3>1, <3>2, FillEffect DEF Stands, BeingWritten
  <2>2. CASE cpc = "fill"
    <3>1. j < cur_size
      BY <1>5, <2>2, FillEffect DEF Stands
    <3> QED
      BY <1>5, <2>2, <3>1, FillEffect DEF Stands, BeingWritten
  <2> QED
    BY <1>5, <2>1, <2>2, FillEffect
<1>6. CASE CountEntry
  <2>1. CASE cpc = "accept"
    <3>1. j < cur_size + 1 /\ j # entry
      BY <1>6, <2>1, CountEffect DEF Stands, BeingWritten
    <3> QED
      BY <1>0, <1>6, <2>1, <3>1, CountEffect DEF Stands, BeingWritten, Index
  <2>2. CASE cpc = "count"
    <3>1. j < cur_size + 1
      BY <1>6, <2>2, CountEffect DEF Stands
    <3>2. conns[entry] = Empty(client)
      BY <2>2 DEF Half
    <3> QED
      BY <1>0, <1>6, <2>2, <3>1, <3>2, CountEffect DEF Stands, BeingWritten, Index
  <2> QED
    BY <1>6, <2>1, <2>2, CountEffect
<1>7. CASE Load \/ Notify
  <2>1. cpc \in {"load", "notify"} /\ cpc' \in {"idle", "load", "store", "notify"} /\ conns' = conns /\ cur_size' = cur_size
    BY <1>7 DEF Load, Notify, Runs, Returns, Advance, list
  <2> QED
    BY <2>1 DEF Stands, BeingWritten
<1>8. CASE StoreData \/ StoreSize
  <2>1. /\ Pushes /\ cpc' \in {"load", "size", "data", "notify"} /\ cur_size' = cur_size
    BY <1>8 DEF StoreData, StoreSize, Runs, Advance, Pushes
  <2>2. SameSocket(j, j)
    <3>1. CASE StoreData
      <4>1. old \in 0 .. Cells - 1 /\ NextPart \in Cell
        BY <2>1, PartType DEF TInv, TypeOK
      <4> QED
        BY <1>0, <3>1, <4>1, StoredData DEF Stores, StoreData, TInv
    <3>2. CASE StoreSize
      <4>1. old + 1 \in 0 .. Cells /\ conns' = [conns EXCEPT ![entry].size = old + 1]
        BY <3>2 DEF StoreSize, TInv, TypeOK
      <4> QED
        BY <1>0, <4>1, StoredSize DEF TInv
    <3> QED
      BY <1>8, <3>1, <3>2
  <2> QED
    BY <2>1, <2>2 DEF Stands, BeingWritten, Pushes
<1>9. CASE CopyCell
  <2>1. cpc = "copy" /\ cpc' = "copy" /\ cur_size' = cur_size /\ entry' = entry
    BY <1>9 DEF CopyCell, Runs
  <2>2. Stands(j) /\ j # entry
    BY <2>1 DEF Stands, BeingWritten
  <2> QED
    BY <1>9, <2>2, CopiedCell
<1>10. CASE CopySize
  <2>1. cpc = "copy" /\ cpc' = "idle" /\ cur_size' = cur_size
    BY <1>10 DEF CopySize, Runs, Returns
  <2>2. j < cur_size
    BY <2>1 DEF Stands
  <2>3. CASE j = entry
    BY <1>0, <1>10, <2>1, <2>2, <2>3, CopyDone DEF Stands, BeingWritten
  <2>4. CASE j # entry
    BY <1>10, <2>1, <2>2, <2>4, CopyDone DEF Stands, BeingWritten
  <2> QED
    BY <2>3, <2>4
<1>11. CASE Server
  <2>1. UNCHANGED <<cur_size, cpc, entry>>
    BY <1>11, ServerLeaves DEF tcpip
  <2>2. SameSocket(j, j)
    BY <1>11, ServerConns, ClearEffect
  <2> QED
    BY <2>1, <2>2 DEF Stands, BeingWritten
<1>12. CASE UNCHANGED vars
  BY <1>12 DEF vars, list, tcpip, Stands, BeingWritten
<1> QED
  BY <1>1, <1>2, <1>3, <1>4, <1>5, <1>6, <1>7, <1>8, <1>9, <1>10, <1>11, <1>12
  DEF Next, Peers, PeerClose, Poll, Callbacks

\* An entry that stands before a step does so after it, is the one that is
\* removed, or was the last one and has been copied.
LEMMA StandsBefore ==
  ASSUME TInv, Half, [Next]_vars, NEW j \in Index, Stands(j)
  PROVE  \/ Stands(j)' /\ SameSocket(j, j)
         \/ CopySize /\ j = cur_size /\ \E i \in Index : i = entry /\ Stands(i)' /\ conns'[i] = conns[j]
         \/ \E p \in Pcbs : Result(p) /\ First(j, p) /\ entry' = j /\ client' = p /\ cpc' = "copy"
<1>0. /\ conns \in [Index -> Conn] /\ cur_size \in 0 .. Slots /\ entry \in Index
  BY DEF TInv, TypeOK
<1> USE DEF SameSocket
<1>1. CASE \E p \in Pcbs : Accept(p)
  <2>1. cpc' \in {"idle", "accept"} /\ cpc = "idle" /\ conns' = conns /\ cur_size' = cur_size
    BY <1>1 DEF Accept, Runs, list
  <2> QED
    BY <2>1 DEF Stands, BeingWritten
<1>2. CASE \E p \in Pcbs : Recv(p)
  <2>1. cpc' \in {"load", "notify"} /\ cpc = "idle" /\ conns' = conns /\ cur_size' = cur_size
    BY <1>2 DEF Recv, Callback, list
  <2> QED
    BY <2>1 DEF Stands, BeingWritten
<1>3. CASE \E p \in Pcbs : Result(p)
  <2>1. PICK p \in Pcbs : Result(p)
    BY <1>3
  <2>2. cpc = "idle" /\ conns' = conns /\ j < cur_size
    BY <2>1 DEF Result, Callback, Stands
  <2>3. CASE Listed(p)
    <3>1. PICK i \in Index : First(i, p) /\ entry' = i /\ Pop(i) /\ cpc' = "copy" /\ client' = p
      BY <2>1, <2>3 DEF Result
    <3>2. cur_size' = cur_size - 1
      BY <3>1 DEF Pop
    <3>3. CASE j = i
      BY <2>1, <3>1, <3>3
    <3>4. CASE j # i
      <4>1. j < cur_size' \/ j = cur_size'
        BY <1>0, <2>2, <3>2 DEF Index
      <4> QED
        BY <2>2, <3>1, <3>4, <4>1 DEF Stands, BeingWritten
    <3> QED
      BY <3>3, <3>4
  <2>4. CASE ~Listed(p)
    <3>1. cpc' = cpc /\ cur_size' = cur_size
      BY <2>1, <2>4 DEF Result, Listed, First
    <3> QED
      BY <2>2, <3>1 DEF Stands, BeingWritten
  <2> QED
    BY <2>3, <2>4
<1>4. CASE \E p \in Pcbs : Err(p)
  BY <1>4 DEF Err, list, tcpip, Stands, BeingWritten
<1>5. CASE FillEntry
  <2>1. j < cur_size /\ (cpc = "fill" => j # entry)
    BY <1>5, FillEffect DEF Stands, BeingWritten
  <2> QED
    BY <1>0, <1>5, <2>1, FillEffect DEF Stands, BeingWritten, Index
<1>6. CASE CountEntry
  <2>1. j < cur_size /\ j # entry
    BY <1>0, <1>6, CountEffect DEF Stands, BeingWritten, Index
  <2>2. j < cur_size'
    BY <1>0, <1>6, <2>1, CountEffect DEF Index
  <2> QED
    BY <1>6, <2>1, <2>2, CountEffect DEF Stands, BeingWritten
<1>7. CASE Load \/ Notify
  <2>1. cpc \in {"load", "notify"} /\ cpc' \in {"idle", "load", "store", "notify"} /\ conns' = conns /\ cur_size' = cur_size
    BY <1>7 DEF Load, Notify, Runs, Returns, Advance, list
  <2> QED
    BY <2>1 DEF Stands, BeingWritten
<1>8. CASE StoreData \/ StoreSize
  <2>1. /\ Pushes /\ cpc' \in {"load", "size", "data", "notify"} /\ cur_size' = cur_size
    BY <1>8 DEF StoreData, StoreSize, Runs, Advance, Pushes
  <2>2. SameSocket(j, j)
    <3>1. CASE StoreData
      <4>1. old \in 0 .. Cells - 1 /\ NextPart \in Cell
        BY <2>1, PartType DEF TInv, TypeOK
      <4> QED
        BY <1>0, <3>1, <4>1, StoredData DEF Stores, StoreData, TInv
    <3>2. CASE StoreSize
      <4>1. old + 1 \in 0 .. Cells /\ conns' = [conns EXCEPT ![entry].size = old + 1]
        BY <3>2 DEF StoreSize, TInv, TypeOK
      <4> QED
        BY <1>0, <4>1, StoredSize DEF TInv
    <3> QED
      BY <1>8, <3>1, <3>2
  <2> QED
    BY <2>1, <2>2 DEF Stands, BeingWritten, Pushes
<1>9. CASE CopyCell
  <2>1. cpc = "copy" /\ cpc' = "copy" /\ cur_size' = cur_size /\ entry' = entry
    BY <1>9 DEF CopyCell, Runs
  <2>2. j # entry
    BY <2>1 DEF Stands, BeingWritten
  <2> QED
    BY <1>9, <2>1, <2>2, CopiedCell DEF Stands, BeingWritten
<1>10. CASE CopySize
  <2>1. cpc = "copy" /\ cpc' = "idle" /\ cur_size' = cur_size /\ j # entry /\ entry <= cur_size
    BY <1>10 DEF CopySize, Runs, Returns, Stands, BeingWritten, TInv, CbInv
  <2>2. CASE j = cur_size
    <3>1. entry < cur_size'
      BY <1>0, <2>1, <2>2 DEF Index
    <3>2. PICK i \in Index : i = entry
      BY <1>0
    <3>3. Stands(i)' /\ conns'[i] = conns[j]
      BY <1>10, <2>1, <2>2, <3>1, <3>2, CopyDone DEF Stands, BeingWritten
    <3> QED
      BY <1>10, <2>2, <3>2, <3>3
  <2>3. CASE j # cur_size
    BY <1>10, <2>1, <2>3, CopyDone DEF Stands, BeingWritten
  <2> QED
    BY <2>2, <2>3
<1>11. CASE Server
  <2>1. UNCHANGED <<cur_size, cpc, entry>>
    BY <1>11, ServerLeaves DEF tcpip
  <2>2. SameSocket(j, j)
    BY <1>11, ServerConns, ClearEffect
  <2> QED
    BY <2>1, <2>2 DEF Stands, BeingWritten
<1>12. CASE UNCHANGED vars
  BY <1>12 DEF vars, list, tcpip, Stands, BeingWritten
<1> QED
  BY <1>1, <1>2, <1>3, <1>4, <1>5, <1>6, <1>7, <1>8, <1>9, <1>10, <1>11, <1>12
  DEF Next, Peers, PeerClose, Poll, Callbacks

-----------------------------------------------------------------------------
(* Slot accounting.  Session numbers are fresh and owned by one pcb, so a  *)
(* reset is counted once; an open pcb has an entry that stands, or is the  *)
(* one that a callback accepts or closes, so a close always finds an entry *)
(* to remove; and a slot is owed while a callback adds or removes one.     *)

Fresh ==
  /\ resets \subseteq 1 .. nsess
  /\ \A p \in Pcbs : owner[p] <= nsess /\ owner[p] \notin resets
  /\ \A p, q \in Open : owner[p] = owner[q] => p = q

Holder(p) == \E i \in Index : Stands(i) /\ conns[i].client_socket = p
Busy == cpc \in {"accept", "fill", "count", "copy"}
Kept == \A p \in Open : Holder(p) \/ (Busy /\ p = client)

Pending   == IF cpc \in {"accept", "count", "copy"} THEN 1 ELSE 0
Accounted == cur_size + Pending = Cardinality(Open) + Cardinality(resets)

IInv == TInv /\ Half /\ Fresh /\ Kept /\ Accounted

\* Open pcbs are finitely many, and so are resets.
LEMMA FiniteOpen ==
  ASSUME TypeOK
  PROVE  /\ IsFiniteSet(Open) /\ Cardinality(Open) \in Nat
         /\ IsFiniteSet(resets) /\ Cardinality(resets) \in Nat
<1>1. IsFiniteSet(Open)
  BY FS_Subset DEF Open
<1>2. IsFiniteSet(Sessions)
  BY FS_Interval DEF Sessions
<1>3. IsFiniteSet(resets)
  BY <1>2, FS_Subset DEF TypeOK
<1> QED
  BY <1>1, <1>3, FS_CardinalityType

\* A session that ends takes its pcb out of the open ones.
LEMMA OpenLoses ==
  ASSUME TypeOK, NEW p \in Pcbs, owner[p] # 0, owner' = [owner EXCEPT ![p] = 0]
  PROVE  Open' = Open \ {p} /\ Cardinality(Open') = Cardinality(Open) - 1
<1>1. Open' = Open \ {p}
  BY DEF Open, TypeOK
<1>2. p \in Open
  BY DEF Open
<1> QED
  BY <1>1, <1>2, FiniteOpen, FS_RemoveElement

\* Most steps open and close no session and take and give back no slot.
Lists == (\E p \in Pcbs : Accept(p) \/ Result(p) \/ Err(p)) \/ FillEntry \/ CountEntry \/ CopySize
LEMMA Quiet ==
  ASSUME [Next]_vars, ~Lists
  PROVE  /\ UNCHANGED <<owner, nsess, resets, cur_size>> /\ Pending' = Pending /\ Open' = Open
         /\ Busy' = Busy /\ (Busy => client' = client /\ entry' = entry /\ cpc' = cpc)
<1>1. CASE \E p \in Pcbs : Recv(p)
  BY <1>1 DEF Recv, Callback, list, Pending, Open, Busy
<1>2. CASE Load \/ StoreData \/ StoreSize \/ Notify
  <2>1. UNCHANGED <<owner, nsess, resets, cur_size>>
    BY <1>2 DEF Load, StoreData, StoreSize, Notify, lwip, list
  <2>2. /\ cpc \in {"load", "store", "data", "size", "notify"}
        /\ cpc' \in {"idle", "load", "store", "data", "size", "notify"}
    BY <1>2 DEF Load, StoreData, StoreSize, Notify, Runs, Returns, Advance
  <2> QED
    BY <2>1, <2>2 DEF Pending, Open, Busy
<1>3. CASE CopyCell
  BY <1>3 DEF CopyCell, Runs, lwip, Pending, Open, Busy
<1>4. CASE Server
  BY <1>4, ServerLeaves DEF lwip, tcpip, Pending, Open, Busy
<1>5. CASE UNCHANGED vars
  BY <1>5 DEF vars, lwip, list, tcpip, Pending, Open, Busy
<1> QED
  BY <1>1, <1>2, <1>3, <1>4, <1>5 DEF Lists, Next, Peers, PeerClose, Poll, Callbacks

LEMMA HalfStep ==
  ASSUME TInv, Half, [Next]_vars
  PROVE  Half'
<1>0. conns \in [Index -> Conn] /\ entry \in Index /\ cur_size \in 0 .. Slots /\ pos \in 0 .. Cells
  BY DEF TInv, TypeOK
<1>1. CASE FillEntry
  <2>1. CASE cpc = "accept"
    <3>1. cpc' = "count" /\ conns'[entry'] = Empty(client')
      BY <1>1, <2>1, FillEffect
    <3> QED
      BY <3>1 DEF Half
  <2>2. CASE cpc = "fill"
    <3>1. cpc' = "idle"
      BY <1>1, <2>2, FillEffect
    <3> QED
      BY <3>1 DEF Half
  <2> QED
    BY <1>1, <2>1, <2>2, FillEffect
<1>2. CASE CopyCell
  <2>1. cpc = "copy" /\ cpc' = "copy" /\ entry' = entry /\ cur_size' = cur_size /\ pos' = pos + 1 /\ pos < Cells
        /\ cur_size \in Index
    BY <1>0, <1>2 DEF CopyCell, CopyEnd, Runs, TInv, CbInv, Index
  <2>2. Last'.client_socket = Last.client_socket /\ \A c \in 0 .. Cells - 1 : Last'.data[c] = Last.data[c]
    <3>1. CASE cur_size = entry
      BY <1>0, <1>2, <2>1, <3>1, CopiedCell DEF Last
    <3>2. CASE cur_size # entry
      BY <1>0, <1>2, <2>1, <3>2, CopiedCell DEF Last
    <3> QED
      BY <3>1, <3>2
  <2>3. conns'[entry].client_socket = Last'.client_socket
    BY <1>2, <2>2, CopiedCell
  <2>4. ASSUME NEW c \in 0 .. pos' - 1 PROVE conns'[entry].data[c] = Last'.data[c]
    <3>1. c \in 0 .. Cells - 1 /\ (c = pos \/ c \in 0 .. pos - 1)
      BY <1>0, <2>1, <2>4
    <3>2. c = pos => conns'[entry].data[c] = Last.data[c]
      BY <1>2, <3>1, CopiedCell
    <3>3. c # pos => conns'[entry].data[c] = conns[entry].data[c]
      BY <1>2, <3>1, CopiedCell
    <3>4. c # pos => conns[entry].data[c] = Last.data[c]
      BY <2>1, <3>1 DEF Half
    <3> QED
      BY <2>2, <3>1, <3>2, <3>3, <3>4
  <2> QED
    BY <2>1, <2>3, <2>4 DEF Half
<1>3. CASE Clear
  <2>1. UNCHANGED <<cur_size, cpc, client, entry, pos>>
    BY <1>3, ServerLeaves DEF Server, tcpip
  <2>2. ASSUME cpc = "count" PROVE conns'[entry] = Empty(client)
    <3>1. conns[entry] = Empty(client)
      BY <2>2 DEF Half
    <3>2. CASE entry = At(idx)
      BY <1>3, <3>1, <3>2, ClearEffect DEF Empty
    <3>3. CASE entry # At(idx)
      BY <1>0, <1>3, <3>1, <3>3, ClearEffect
    <3> QED
      BY <3>2, <3>3
  <2>3. ASSUME cpc = "copy" PROVE /\ conns'[entry].client_socket = conns[entry].client_socket
                                  /\ conns'[entry].data = conns[entry].data
                                  /\ Last'.client_socket = Last.client_socket /\ Last'.data = Last.data
    <3>1. cur_size \in Index
      BY <1>0, <2>3 DEF TInv, CbInv, Index
    <3> QED
      BY <1>0, <1>3, <2>1, <3>1, ClearEffect DEF Last
  <2> QED
    BY <2>1, <2>2, <2>3 DEF Half
<1>4. CASE \E p \in Pcbs : Result(p)
  <2>1. pos' = 0 /\ cpc' \in {"idle", "copy"}
    BY <1>4 DEF Result, Callback, TInv, CbInv
  <2> QED
    BY <2>1 DEF Half
<1>5. CASE (\E p \in Pcbs : Accept(p) \/ Recv(p) \/ Err(p)) \/ CountEntry \/ CopySize
           \/ Load \/ StoreData \/ StoreSize \/ Notify
  <2>1. CASE \E p \in Pcbs : Accept(p) \/ Recv(p) \/ Err(p)
    BY <2>1 DEF Accept, Recv, Err, Callback, Runs, tcpip, Half
  <2>2. CASE CountEntry
    <3>1. cpc' \in {"fill", "idle"}
      BY <2>2, CountEffect
    <3> QED
      BY <3>1 DEF Half
  <2>3. CASE CopySize \/ Load \/ StoreData \/ StoreSize \/ Notify
    BY <2>3 DEF CopySize, Load, StoreData, StoreSize, Notify, Runs, Returns, Advance, Half
  <2> QED
    BY <1>5, <2>1, <2>2, <2>3
<1>6. CASE (Server /\ ~Clear) \/ UNCHANGED vars
  <2>1. UNCHANGED <<conns, cur_size, cpc, client, entry, pos>>
    BY <1>6, ServerLeaves, ServerConns DEF vars, list, tcpip
  <2> QED
    BY <2>1 DEF Half, Last
<1> QED
  BY <1>1, <1>2, <1>3, <1>4, <1>5, <1>6 DEF Next, Peers, PeerClose, Poll, Callbacks, Server

\* A pcb whose entry stands goes on standing, unless its session is closed.
LEMMA HolderStep ==
  ASSUME TInv, Half, [Next]_vars, NEW p \in Pcbs, Holder(p)
  PROVE  Holder(p)' \/ (cpc' = "copy" /\ p = client')
<1>1. PICK j \in Index : Stands(j) /\ conns[j].client_socket = p
  BY DEF Holder
<1>2. CASE Stands(j)' /\ SameSocket(j, j)
  BY <1>1, <1>2 DEF Holder, SameSocket
<1>3. CASE CopySize /\ j = cur_size /\ \E i \in Index : i = entry /\ Stands(i)' /\ conns'[i] = conns[j]
  <2>1. PICK i \in Index : Stands(i)' /\ conns'[i] = conns[j]
    BY <1>3
  <2> QED
    BY <1>1, <2>1 DEF Holder
<1>4. CASE \E q \in Pcbs : Result(q) /\ First(j, q) /\ entry' = j /\ client' = q /\ cpc' = "copy"
  BY <1>1, <1>4 DEF First, Holds
<1> QED
  BY <1>1, <1>2, <1>3, <1>4, StandsBefore

\* With no callback under way an open pcb is listed.
LEMMA OpenListed ==
  ASSUME Kept, cpc = "idle", NEW p \in Open
  PROVE  Listed(p)
BY DEF Kept, Busy, Holder, Stands, Listed, Holds

LEMMA KeptStep ==
  ASSUME TInv, Half, Kept, [Next]_vars
  PROVE  Kept'
<1> SUFFICES ASSUME NEW p \in Open' PROVE Holder(p)' \/ (Busy' /\ p = client')
  BY DEF Kept
<1>0. /\ p \in Pcbs /\ owner'[p] # 0 /\ owner \in [Pcbs -> 0 .. MaxSessions] /\ entry \in Index
      /\ cur_size \in 0 .. Slots
  BY DEF Open, TInv, TypeOK
<1>1. CASE p \notin Open
  <2>1. CASE \E q \in Pcbs : Accept(q)
    <3>1. PICK q \in Pcbs : Accept(q)
      BY <2>1
    <3>2. cur_size < Slots /\ owner' = [owner EXCEPT ![q] = nsess + 1] /\ cpc' = "accept" /\ client' = q
      BY <1>0, <1>1, <3>1 DEF Accept, Open
    <3>3. p = q
      BY <1>0, <1>1, <3>2 DEF Open
    <3> QED
      BY <3>2, <3>3 DEF Busy
  <2>2. CASE \E q \in Pcbs : Result(q) \/ Err(q)
    <3>1. PICK q \in Pcbs : Result(q) \/ Err(q)
      BY <2>2
    <3>2. owner' = owner \/ owner' = [owner EXCEPT ![q] = 0]
      BY <3>1 DEF Result, Err
    <3> QED
      BY <1>0, <1>1, <3>2 DEF Open
  <2>3. CASE FillEntry \/ CountEntry
    <3>1. owner' = owner
      BY <2>3 DEF FillEntry, CountEntry, lwip
    <3> QED
      BY <1>0, <1>1, <3>1 DEF Open
  <2>4. CASE CopySize
    <3>1. owner' = [owner EXCEPT ![client] = 0]
      BY <2>4 DEF CopySize, Freed
    <3> QED
      BY <1>0, <1>1, <3>1 DEF Open
  <2>5. CASE ~Lists
    BY <1>0, <1>1, <2>5, Quiet DEF Open
  <2> QED
    BY <2>1, <2>2, <2>3, <2>4, <2>5 DEF Lists
<1>2. CASE p \in Open /\ Holder(p)
  BY <1>0, <1>2, HolderStep DEF Busy
<1>3. CASE p \in Open /\ ~Holder(p)
  <2>1. Busy /\ p = client
    BY <1>3 DEF Kept
  <2>2. CASE FillEntry
    <3>1. CASE cpc = "accept"
      BY <2>1, <2>2, <3>1, FillEffect DEF Busy
    <3>2. CASE cpc = "fill"
      <4>1. PICK i \in Index : i = entry
        BY <1>0
      <4>2. i < cur_size /\ cpc' = "idle" /\ conns'[i] = Empty(client)
        BY <1>0, <2>2, <3>2, <4>1, FillEffect DEF Index
      <4>3. Stands(i)' /\ conns'[i].client_socket = p
        BY <2>1, <2>2, <4>2, FillEffect DEF Stands, BeingWritten, Empty
      <4> QED
        BY <4>3 DEF Holder
    <3> QED
      BY <2>2, <3>1, <3>2, FillEffect
  <2>3. CASE CountEntry
    <3>1. CASE cpc = "accept"
      BY <2>1, <2>3, <3>1, CountEffect DEF Busy
    <3>2. CASE cpc = "count"
      <4>1. PICK i \in Index : i = entry
        BY <1>0
      <4>2. i < cur_size' /\ cpc' = "idle" /\ conns'[i] = Empty(client)
        BY <1>0, <2>3, <3>2, <4>1, CountEffect DEF Index, Half
      <4>3. Stands(i)' /\ conns'[i].client_socket = p
        BY <2>1, <4>2 DEF Stands, BeingWritten, Empty
      <4> QED
        BY <4>3 DEF Holder
    <3> QED
      BY <2>3, <3>1, <3>2, CountEffect
  <2>4. CASE CopySize
    <3>1. owner' = [owner EXCEPT ![client] = 0]
      BY <2>4 DEF CopySize, Freed
    <3> QED
      BY <1>0, <2>1, <3>1
  <2>5. CASE \E q \in Pcbs : Accept(q) \/ Result(q) \/ Err(q)
    BY <2>1, <2>5 DEF Accept, Result, Err, Callback, Runs, Busy
  <2>6. CASE ~Lists
    BY <2>1, <2>6, Quiet
  <2> QED
    BY <2>2, <2>3, <2>4, <2>5, <2>6 DEF Lists
<1> QED
  BY <1>1, <1>2, <1>3

LEMMA AccountingStep ==
  ASSUME IInv, [Next]_vars
  PROVE  Fresh' /\ Accounted'
<1> USE DEF IInv
<1>0. /\ owner \in [Pcbs -> 0 .. MaxSessions] /\ nsess \in Nat /\ cur_size \in Int /\ TypeOK
      /\ Cardinality(Open) \in Nat /\ Cardinality(resets) \in Nat /\ resets \subseteq Sessions
  BY FiniteOpen DEF TInv, TypeOK
<1>1. ASSUME NEW p \in Pcbs, Accept(p) PROVE Fresh' /\ Accounted'
  <2>1. nsess' = nsess + 1 /\ resets' = resets /\ cpc = "idle" /\ owner[p] = 0 /\ cur_size' = cur_size
    BY <1>1 DEF Accept, Runs, list
  <2>2. CASE cur_size < Slots
    <3>1. owner' = [owner EXCEPT ![p] = nsess + 1] /\ cpc' = "accept"
      BY <1>1, <2>2 DEF Accept
    <3>2. Open' = Open \cup {p} /\ p \notin Open
      BY <1>0, <2>1, <3>1 DEF Open
    <3>3. Cardinality(Open') = Cardinality(Open) + 1
      BY <1>0, <3>2, FiniteOpen, FS_AddElement
    <3>4. Pending = 0 /\ Pending' = 1
      BY <2>1, <3>1 DEF Pending
    <3>5. Accounted'
      BY <1>0, <2>1, <3>3, <3>4 DEF Accounted
    <3>6. Fresh'
      BY <1>0, <2>1, <3>1, <3>2 DEF Fresh, Open
    <3> QED
      BY <3>5, <3>6
  <2>3. CASE ~(cur_size < Slots)
    <3>1. owner' = owner /\ cpc' = cpc
      BY <1>1, <2>3 DEF Accept
    <3>2. Open' = Open /\ Pending' = Pending
      BY <3>1 DEF Open, Pending
    <3>3. Fresh'
      BY <1>0, <2>1, <3>1, <3>2 DEF Fresh
    <3> QED
      BY <2>1, <3>2, <3>3 DEF Accounted
  <2> QED
    BY <2>2, <2>3
<1>2. ASSUME NEW p \in Pcbs, Result(p) PROVE Fresh' /\ Accounted'
  <2>1. cpc = "idle" /\ owner[p] # 0 /\ nsess' = nsess /\ resets' = resets
    BY <1>2 DEF Result, Callback
  <2>2. Listed(p)
    BY <2>1, OpenListed DEF Open
  <2>3. PICK i \in Index : First(i, p) /\ Pop(i) /\ cpc' = "copy" /\ owner' = owner
    BY <1>2, <2>2 DEF Result
  <2>4. cur_size' = cur_size - 1 /\ Pending = 0 /\ Pending' = 1 /\ Open' = Open
    BY <2>1, <2>3 DEF Pop, Pending, Open
  <2>5. Accounted'
    BY <1>0, <2>1, <2>4 DEF Accounted
  <2>6. Fresh'
    BY <2>1, <2>3, <2>4 DEF Fresh
  <2> QED
    BY <2>5, <2>6
<1>3. ASSUME NEW p \in Pcbs, Err(p) PROVE Fresh' /\ Accounted'
  <2>1. /\ owner[p] # 0 /\ owner' = [owner EXCEPT ![p] = 0] /\ resets' = resets \cup {owner[p]}
        /\ nsess' = nsess /\ cur_size' = cur_size /\ cpc' = cpc
    BY <1>3 DEF Err, Callback, list, tcpip
  <2>2. Open' = Open \ {p} /\ Cardinality(Open') = Cardinality(Open) - 1
    BY <1>0, <2>1, OpenLoses
  <2>3. Cardinality(resets') = Cardinality(resets) + 1
    <3>1. owner[p] \notin resets
      BY DEF Fresh
    <3> QED
      BY <1>0, <2>1, <3>1, FiniteOpen, FS_AddElement
  <2>4. Accounted'
    BY <1>0, <2>1, <2>2, <2>3 DEF Accounted, Pending
  <2>5. Fresh'
    <3>1. resets' \subseteq 1 .. nsess
      <4>1. owner[p] \in 1 .. nsess
        BY <1>0, <2>1 DEF Fresh
      <4> QED
        BY <2>1, <4>1 DEF Fresh
    <3>2. ASSUME NEW q \in Pcbs PROVE owner'[q] <= nsess /\ owner'[q] \notin resets'
      <4>1. CASE q = p
        <5>1. owner'[q] = 0 /\ 0 \notin resets'
          BY <1>0, <2>1, <3>1, <4>1
        <5> QED
          BY <1>0, <5>1
      <4>2. CASE q # p
        <5>1. owner'[q] = owner[q] /\ (owner[q] # 0 => owner[q] # owner[p])
          BY <1>0, <2>1, <4>2 DEF Fresh, Open
        <5>2. owner[q] = 0 => owner[q] # owner[p]
          BY <2>1
        <5> QED
          BY <2>1, <5>1, <5>2 DEF Fresh
      <4> QED
        BY <4>1, <4>2
    <3>3. \A q, r \in Open' : owner'[q] = owner'[r] => q = r
      BY <1>0, <2>1, <2>2 DEF Fresh, Open
    <3> QED
      BY <2>1, <3>1, <3>2, <3>3 DEF Fresh
  <2> QED
    BY <2>4, <2>5
<1>4. CASE FillEntry
  <2>1. UNCHANGED <<owner, nsess, resets>>
    BY <1>4 DEF FillEntry, lwip
  <2>2. Open' = Open /\ Pending' = Pending /\ cur_size' = cur_size
    BY <1>4, <2>1, FillEffect DEF Open, Pending
  <2> QED
    BY <2>1, <2>2 DEF Fresh, Accounted
<1>5. CASE CountEntry
  <2>1. UNCHANGED <<owner, nsess, resets>>
    BY <1>5 DEF CountEntry, lwip
  <2>2. Open' = Open /\ Pending = 1 /\ Pending' = 0 /\ cur_size' = cur_size + 1
    BY <1>5, <2>1, CountEffect DEF Open, Pending
  <2>3. Accounted'
    BY <1>0, <2>1, <2>2 DEF Accounted
  <2> QED
    BY <2>1, <2>2, <2>3 DEF Fresh
<1>6. CASE CopySize
  <2>1. /\ owner' = [owner EXCEPT ![client] = 0] /\ nsess' = nsess /\ resets' = resets /\ cur_size' = cur_size
        /\ client \in Pcbs /\ owner[client] # 0 /\ cpc = "copy" /\ cpc' = "idle"
    BY <1>6 DEF CopySize, Freed, Runs, Returns, TInv, CbInv
  <2>2. Open' = Open \ {client} /\ Cardinality(Open') = Cardinality(Open) - 1
    BY <1>0, <2>1, OpenLoses
  <2>3. Pending = 1 /\ Pending' = 0
    BY <2>1 DEF Pending
  <2>4. Accounted'
    BY <1>0, <2>1, <2>2, <2>3 DEF Accounted
  <2>5. Fresh'
    <3>1. ASSUME NEW q \in Pcbs PROVE owner'[q] <= nsess /\ owner'[q] \notin resets
      BY <1>0, <2>1 DEF Fresh
    <3> QED
      BY <1>0, <2>1, <2>2, <3>1 DEF Fresh, Open
  <2> QED
    BY <2>4, <2>5
<1>7. CASE ~Lists
  <2>1. UNCHANGED <<owner, nsess, resets, cur_size>> /\ Pending' = Pending /\ Open' = Open
    BY <1>7, Quiet
  <2> QED
    BY <2>1 DEF Fresh, Accounted
<1> QED
  BY <1>1, <1>2, <1>3, <1>4, <1>5, <1>6, <1>7 DEF Lists

LEMMA Accounting == Spec => []IInv
<1>1. Init => IInv
  <2> SUFFICES ASSUME Init PROVE Half /\ Fresh /\ Kept /\ Accounted
    BY InitType DEF IInv
  <2>1. Open = {} /\ resets = {} /\ cur_size = 0 /\ nsess = 0
    BY DEF Init, Open
  <2>2. Cardinality(Open) = 0 /\ Cardinality(resets) = 0
    BY <2>1, FS_EmptySet
  <2>3. Half /\ Kept
    BY <2>1 DEF Init, Half, Kept
  <2>4. Fresh
    BY <2>1 DEF Init, Fresh
  <2>5. Accounted
    BY <2>1, <2>2 DEF Init, Accounted, Pending
  <2> QED
    BY <2>3, <2>4, <2>5
<1>2. IInv /\ TInv' /\ [Next]_vars => IInv'
  BY HalfStep, KeptStep, AccountingStep DEF IInv
<1> QED
  BY <1>1, <1>2, Typing, PTL DEF Spec

\* No callback, step of the server task or end of a session loses or invents a
\* slot, except that a session that was reset keeps its own.
THEOREM SlotAccounting == Spec => []SlotsAccounted
<1>1. IInv => SlotsAccounted
  <2> SUFFICES ASSUME IInv, cpc = "idle" PROVE cur_size = Cardinality(Open) + Cardinality(resets)
    BY DEF SlotsAccounted
  <2>1. Pending = 0 /\ cur_size \in Int
    BY DEF Pending, IInv, TInv, TypeOK
  <2> QED
    BY <2>1 DEF IInv, Accounted
<1> QED
  BY <1>1, Accounting, PTL

\* Between callbacks every open session has an entry in the list.
THEOREM OpenSessionsListed == Spec => []OpenIsListed
<1>1. IInv => OpenIsListed
  BY OpenListed DEF IInv, OpenIsListed
<1> QED
  BY <1>1, Accounting, PTL


-----------------------------------------------------------------------------
(* Wake-ups.  While no notification is pending or under way, and no        *)
(* connection was moved across the scan, every entry with bytes lies ahead *)
(* of the first scan, and there is none when the task waits.               *)

HasData(i) == (i < cur_size \/ (cpc = "copy" /\ i = cur_size)) /\ conns[i].size > 0 /\ ~Filling(i)
Scanned ==
  fault = "none" /\ ~Notifies /\ ~skipped =>
    /\ pc = "scan" /\ pass = 1 => \A i \in Index : HasData(i) => cpc # "copy" /\ idx <= i /\ i < n
    /\ pc = "take" => \A i \in Index : ~HasData(i)

\* A callback brings no data to a scan that goes on without a notification.
LEMMA NoNewData ==
  ASSUME TInv, Half, Scanned, Peers \/ Callbacks, fault' = "none", ~Notifies', ~skipped',
         (pc = "scan" /\ pass = 1) \/ pc = "take", NEW i \in Index, HasData(i)'
  PROVE  ~Notifies /\ ~skipped /\ HasData(i) /\ cpc' # "copy"
<1>0. conns \in [Index -> Conn] /\ cur_size \in 0 .. Slots /\ entry \in Index /\ idx \in Int
  BY DEF TInv, TypeOK
<1>1. ASSUME NEW p \in Pcbs, Accept(p) PROVE ~Notifies /\ ~skipped /\ HasData(i) /\ cpc' # "copy"
  <2>1. cpc = "idle" /\ cpc' \in {"idle", "accept"} /\ UNCHANGED <<conns, cur_size, notified, skipped>>
    BY <1>1 DEF Accept, Runs, list, wait, ghosts
  <2> QED
    BY <2>1 DEF HasData, Filling, Notifies
<1>2. ASSUME NEW p \in Pcbs, Result(p) PROVE ~Notifies /\ ~skipped /\ HasData(i) /\ cpc' # "copy"
  <2>1. cpc = "idle" /\ UNCHANGED <<conns, notified, pc, pass, idx, n>> /\ fault = "none"
    BY <1>2 DEF Result, Callback, task, locals, wait
  <2>2. CASE Listed(p)
    <3>1. cpc' = "copy" /\ cur_size' = cur_size - 1 /\ skipped' = (skipped \/ (pc = "scan" /\ idx < cur_size))
      BY <1>2, <2>2 DEF Result, Pop
    <3>2. ~Notifies /\ ~skipped /\ (pc = "scan" => ~(idx < cur_size))
      BY <2>1, <3>1 DEF Notifies
    <3>3. HasData(i) /\ i < cur_size
      BY <1>0, <2>1, <3>1 DEF HasData, Filling, Index
    <3> QED
      BY <1>0, <2>1, <3>2, <3>3 DEF Scanned, Index
  <2>3. CASE ~Listed(p)
    <3>1. cpc' = cpc /\ UNCHANGED <<cur_size, skipped>>
      BY <1>2, <2>3 DEF Result, Listed, First, ghosts
    <3> QED
      BY <2>1, <3>1 DEF HasData, Filling, Notifies
  <2> QED
    BY <2>2, <2>3
<1>3. CASE \E p \in Pcbs : Err(p)
  BY <1>3 DEF Err, Callback, list, tcpip, wait, ghosts, HasData, Filling, Notifies
<1>4. CASE FillEntry
  <2>1. UNCHANGED <<notified, skipped>>
    BY <1>4 DEF FillEntry, wait, ghosts
  <2>2. i # entry
    <3>1. CASE cpc = "accept"
      BY <1>0, <1>4, <3>1, FillEffect DEF HasData, Index
    <3>2. CASE cpc = "fill"
      <4>1. ASSUME i = entry PROVE FALSE
        <5>1. conns'[i].size = 0
          BY <1>4, <4>1, FillEffect DEF Empty
        <5> QED
          BY <5>1 DEF HasData
      <4> QED
        BY <4>1
    <3> QED
      BY <1>4, <3>1, <3>2, FillEffect
  <2>3. conns'[i] = conns[i] /\ cur_size' = cur_size /\ cpc \in {"accept", "fill"} /\ cpc' \in {"count", "idle"}
    BY <1>4, <2>2, FillEffect
  <2> QED
    BY <2>1, <2>2, <2>3 DEF HasData, Filling, Notifies
<1>5. CASE CountEntry
  <2>1. UNCHANGED <<notified, skipped>>
    BY <1>5 DEF CountEntry, wait, ghosts
  <2>2. i # entry
    <3>1. CASE cpc = "accept"
      BY <1>5, <3>1, CountEffect DEF HasData, Filling
    <3>2. CASE cpc = "count"
      <4>1. ASSUME i = entry PROVE FALSE
        <5>1. conns'[i].size = 0
          BY <1>5, <3>2, <4>1, CountEffect DEF Half, Empty
        <5> QED
          BY <5>1 DEF HasData
      <4> QED
        BY <4>1
    <3> QED
      BY <1>5, <3>1, <3>2, CountEffect
  <2>3. i < cur_size /\ conns'[i] = conns[i] /\ cpc \in {"accept", "count"} /\ cpc' \in {"fill", "idle"}
    BY <1>0, <1>5, <2>2, CountEffect DEF HasData, Index
  <2> QED
    BY <2>1, <2>2, <2>3 DEF HasData, Filling, Notifies
<1>6. CASE (\E p \in Pcbs : Recv(p)) \/ Load \/ StoreData \/ StoreSize
  BY <1>6 DEF Recv, Load, StoreData, StoreSize, Advance, Notifies
<1>7. CASE Notify
  BY <1>7 DEF Notify, Give, Notifies
<1>8. CASE CopyCell
  <2>1. cpc = "copy" /\ cpc' = "copy" /\ UNCHANGED <<cur_size, entry, notified, skipped, pc, pass>> /\ fault = "none"
    BY <1>8 DEF CopyCell, Runs, wait, ghosts, task, locals
  <2>2. conns'[i].size = conns[i].size
    BY <1>8, CopiedCell
  <2>3. HasData(i) /\ ~Notifies /\ ~skipped
    BY <2>1, <2>2 DEF HasData, Filling, Notifies
  <2> QED
    BY <2>1, <2>3 DEF Scanned
<1>9. CASE CopySize
  <2>1. cpc = "copy" /\ cpc' = "idle" /\ UNCHANGED <<cur_size, notified, skipped, pc, pass>> /\ fault = "none"
    BY <1>9 DEF CopySize, Runs, Returns, wait, ghosts, task, locals
  <2>2. ~Notifies /\ ~skipped /\ \A j \in Index : ~HasData(j)
    BY <2>1 DEF Notifies, Scanned
  <2>3. i < cur_size /\ conns'[i].size > 0
    BY <2>1 DEF HasData
  <2>4. i # entry
    <3>1. ASSUME i = entry PROVE HasData(cur_size) /\ cur_size \in Index
      BY <1>9, <2>1, <2>3, <3>1, CopyDone DEF HasData, Filling
    <3> QED
      BY <2>2, <3>1
  <2>5. HasData(i)
    BY <1>9, <2>1, <2>3, <2>4, CopyDone DEF HasData, Filling
  <2> QED
    BY <2>2, <2>5
<1> QED
  BY <1>1, <1>2, <1>3, <1>4, <1>5, <1>6, <1>7, <1>8, <1>9 DEF Peers, PeerClose, Poll, Callbacks

LEMMA ScannedStep ==
  ASSUME TInv, Half, Scanned, [Next]_vars
  PROVE  Scanned'
<1> SUFFICES ASSUME fault' = "none", ~Notifies', ~skipped', NEW i \in Index, HasData(i)',
                    (pc' = "scan" /\ pass' = 1) \/ pc' = "take"
             PROVE  pc' = "scan" /\ pass' = 1 /\ cpc' # "copy" /\ idx' <= i /\ i < n'
  BY DEF Scanned
<1>0. cur_size \in 0 .. Slots /\ idx \in 0 .. Slots /\ n \in 0 .. Slots /\ i \in Int /\ i >= 0
  BY DEF TInv, TypeOK, Index
<1>1. CASE Peers \/ Callbacks
  <2>1. UNCHANGED <<pc, pass, idx, n>>
    BY <1>1 DEF Peers, Callbacks, Accept, Recv, PeerClose, Poll, Result, Err, FillEntry, CountEntry, Load,
       StoreData, StoreSize, Notify, CopyCell, CopySize, task, locals
  <2>2. ~Notifies /\ ~skipped /\ HasData(i) /\ cpc' # "copy"
    BY <1>1, <2>1, NoNewData
  <2>3. fault = "none"
    BY <1>1 DEF Peers, Callbacks, Accept, Recv, PeerClose, Poll, Result, Err, FillEntry, CountEntry, Load,
       StoreData, StoreSize, Notify, CopyCell, CopySize, Callback, Runs
  <2> QED
    BY <2>1, <2>2, <2>3 DEF Scanned
<1>2. CASE Server
  <2>1. UNCHANGED <<cur_size, cpc, entry>> /\ fault = "none"
    BY <1>2, ServerLeaves DEF tcpip
  <2>2. CASE StartRead
    <3>1. pc' = "scan" /\ pass' = 1 /\ idx' = 0 /\ n' = cur_size /\ skipped' = (cpc = "copy") /\ conns' = conns
      BY <2>2 DEF StartRead, Step, BeginScan, list
    <3> QED
      BY <1>0, <2>1, <3>1 DEF HasData
  <2>3. CASE ScanMiss
    <3>1. pc = "scan" /\ pc' = "scan" /\ idx' = idx + 1 /\ conns[At(idx)].size = 0
          /\ UNCHANGED <<conns, pass, n, notified, skipped>>
      BY <2>3 DEF ScanMiss, Step, From, list, locals, wait, ghosts
    <3>2. ~Notifies /\ HasData(i)
      BY <2>1, <3>1 DEF Notifies, HasData, Filling
    <3>3. cpc # "copy" /\ idx <= i /\ i < n
      BY <2>1, <3>1, <3>2 DEF Scanned
    <3>4. i # idx
      BY <3>1, <3>2, <3>3 DEF HasData, At
    <3> QED
      BY <1>0, <2>1, <3>1, <3>3, <3>4
  <2>4. CASE Arm
    <3>1. pc = "scan" /\ idx = n /\ pass = 1 /\ UNCHANGED <<conns, notified, skipped>>
      BY <2>4 DEF Arm, Step, From, list, ghosts
    <3>2. ~Notifies /\ HasData(i)
      BY <2>1, <3>1 DEF Notifies, HasData, Filling
    <3>3. idx <= i /\ i < n
      BY <2>1, <3>1, <3>2 DEF Scanned
    <3> QED
      BY <1>0, <3>1, <3>3
  <2>5. CASE ~StartRead /\ ~ScanMiss /\ ~Arm
    BY <1>2, <2>5 DEF Server, ScanHit, Span, Clear, Take, Timeout, Wake, Nothing, ServeHead,
       ServeTail, WriteBytes, Step, BeginScan, Ends
  <2> QED
    BY <2>2, <2>3, <2>4, <2>5
<1>3. CASE UNCHANGED vars
  <2>1. UNCHANGED <<fault, cpc, entry, conns, cur_size, notified, skipped, pc, pass, idx, n>>
    BY <1>3 DEF vars, list, tcpip, task, locals, wait, ghosts
  <2> QED
    BY <2>1 DEF Scanned, Notifies, HasData, Filling
<1> QED
  BY <1>1, <1>2, <1>3 DEF Next

\* The task does not sleep over bytes that are there, whatever callbacks come
\* between its first scan, the publication of its handle and its wait.
THEOREM WakeupNotLost == Spec => []NoLostWakeup
<1>1. Init => Scanned
  BY DEF Init, Scanned
<1>2. IInv /\ Scanned /\ [Next]_vars => Scanned'
  BY ScannedStep DEF IInv
<1>3. Scanned => NoLostWakeup
  <2> SUFFICES ASSUME Scanned, pc = "take", ~Notifies, fault = "none", Unserved PROVE skipped
    BY DEF NoLostWakeup
  <2>1. PICK i \in Index : i < cur_size /\ conns[i].size > 0 /\ ~Filling(i)
    BY DEF Unserved
  <2> QED
    BY <2>1 DEF Scanned, HasData
<1> QED
  BY <1>1, <1>2, <1>3, Accounting, PTL DEF Spec

-----------------------------------------------------------------------------
(* Replies reach their requester.  An entry that stands holds parts of     *)
(* sessions that its pcb has served; while such a session is open it is    *)
(* the pcb's own, and without resets every entry is that of an open        *)
(* session.  What is served stays where it was found.                      *)

Belongs(r, p) ==
  r # NoReq => r[1] <= nsess /\ (Live(r[1]) \/ resets = {} => owner[p] = r[1])

Entry(c) == c.client_socket \in Pcbs /\ \A k \in 0 .. Cells - 1 : Belongs(c.data[k].of, c.client_socket)
Entries  == \A i \in Index : Stands(i) => Entry(conns[i])
Alone(i) ==
  /\ owner[conns[i].client_socket] # 0
  /\ \A j \in Index : Stands(j) /\ conns[j].client_socket = conns[i].client_socket => i = j
Distinct ==
  resets = {} => \A i \in Index : Stands(i) => Alone(i) /\ (Busy => conns[i].client_socket # client)
Target == Pushes => entry < cur_size /\ conns[entry].client_socket = client

Serves == pc \in {"span", "clear", "head", "tail", "write"}
InPlace ==
  ~moved =>
    /\ Serves => span = idx /\ span < cur_size /\ ~BeingWritten(span)
    /\ pc \in {"head", "tail", "write"} => cur_client = idx
    /\ pc \in {"tail", "write"} => Belongs(req, conns[span].client_socket)

RInv == Entries /\ Distinct /\ Target /\ InPlace

\* Which steps open and end sessions.
LEMMA OwnerStep ==
  ASSUME IInv, [Next]_vars
  PROVE  \/ UNCHANGED <<owner, nsess, resets>>
         \/ /\ nsess' = nsess + 1 /\ resets' = resets
            /\ \/ owner' = owner
               \/ \E q \in Pcbs : Accept(q) /\ owner[q] = 0 /\ owner' = [owner EXCEPT ![q] = nsess + 1]
         \/ /\ CopySize /\ client \in Pcbs /\ owner[client] # 0 /\ owner' = [owner EXCEPT ![client] = 0]
            /\ nsess' = nsess /\ resets' = resets
         \/ \E q \in Pcbs : /\ Err(q) /\ owner[q] # 0 /\ owner' = [owner EXCEPT ![q] = 0]
                            /\ nsess' = nsess /\ resets' = resets \cup {owner[q]}
<1>1. CASE \E q \in Pcbs : Accept(q)
  BY <1>1 DEF Accept
<1>2. ASSUME NEW q \in Pcbs, Result(q) PROVE UNCHANGED <<owner, nsess, resets>>
  <2>1. cpc = "idle" /\ owner[q] # 0 /\ nsess' = nsess /\ resets' = resets
    BY <1>2 DEF Result, Callback
  <2>2. Listed(q)
    BY <2>1, OpenListed DEF Open, IInv
  <2> QED
    BY <1>2, <2>1, <2>2 DEF Result
<1>3. CASE \E q \in Pcbs : Err(q)
  BY <1>3 DEF Err, Callback
<1>4. CASE FillEntry \/ CountEntry
  BY <1>4 DEF FillEntry, CountEntry, lwip
<1>5. CASE CopySize
  BY <1>5 DEF CopySize, Freed, Runs, IInv, TInv, CbInv
<1>6. CASE ~Lists
  BY <1>6, Quiet
<1> QED
  BY <1>1, <1>2, <1>3, <1>4, <1>5, <1>6 DEF Lists

\* Requests go on belonging to a pcb whatever sessions begin and end, but for
\* the one whose entry is removed.
LEMMA BelongsStep ==
  ASSUME IInv, [Next]_vars, NEW r \in Requests \cup {NoReq}, NEW p \in Pcbs, Belongs(r, p),
         CopySize /\ resets = {} => p # client
  PROVE  Belongs(r, p)'
<1> SUFFICES ASSUME r # NoReq PROVE r[1] <= nsess' /\ (Live(r[1])' \/ resets' = {} => owner'[p] = r[1])
  BY DEF Belongs
<1>1. owner \in [Pcbs -> 0 .. MaxSessions] /\ nsess \in Nat /\ r[1] \in Nat \ {0}
  BY DEF IInv, TInv, TypeOK, Requests, Sessions
<1>2. r[1] <= nsess /\ (Live(r[1]) \/ resets = {} => owner[p] = r[1])
  BY DEF Belongs
<1>3. CASE UNCHANGED <<owner, nsess, resets>>
  BY <1>2, <1>3 DEF Live
<1>4. CASE nsess' = nsess + 1 /\ resets' = resets /\ owner' = owner
  BY <1>1, <1>2, <1>4 DEF Live
<1>5. ASSUME nsess' = nsess + 1, resets' = resets, NEW q \in Pcbs, owner[q] = 0, owner' = [owner EXCEPT ![q] = nsess + 1]
      PROVE  r[1] <= nsess' /\ (Live(r[1])' \/ resets' = {} => owner'[p] = r[1])
  <2>1. Live(r[1])' => Live(r[1])
    <3> SUFFICES ASSUME NEW x \in Pcbs, owner'[x] = r[1] PROVE Live(r[1])
      BY DEF Live
    <3>1. x # q
      BY <1>1, <1>2, <1>5
    <3> QED
      BY <1>1, <1>5, <3>1 DEF Live
  <2>2. owner[p] = r[1] => owner'[p] = r[1]
    BY <1>1, <1>5
  <2> QED
    BY <1>1, <1>2, <1>5, <2>1, <2>2
<1>6. ASSUME NEW q \in Pcbs, owner[q] # 0, owner' = [owner EXCEPT ![q] = 0], nsess' = nsess,
             resets' = {} => resets = {} /\ p # q
      PROVE  r[1] <= nsess' /\ (Live(r[1])' \/ resets' = {} => owner'[p] = r[1])
  <2>1. resets' = {} => owner'[p] = r[1]
    BY <1>1, <1>2, <1>6
  <2>2. ASSUME Live(r[1])' PROVE owner'[p] = r[1]
    <3>1. PICK x \in Pcbs : owner'[x] = r[1]
      BY <2>2 DEF Live
    <3>2. x # q /\ owner[x] = r[1]
      BY <1>1, <1>6, <3>1
    <3>3. owner[p] = r[1]
      BY <1>2, <3>2 DEF Live
    <3>4. p # q
      BY <1>1, <3>2, <3>3 DEF IInv, Fresh, Open
    <3> QED
      BY <1>1, <1>6, <3>3, <3>4
  <2> QED
    BY <1>2, <1>6, <2>1, <2>2
<1>7. CASE CopySize /\ client \in Pcbs /\ owner[client] # 0 /\ owner' = [owner EXCEPT ![client] = 0]
           /\ nsess' = nsess /\ resets' = resets
  BY <1>6, <1>7
<1>8. ASSUME NEW q \in Pcbs, owner[q] # 0, owner' = [owner EXCEPT ![q] = 0],
             nsess' = nsess, resets' = resets \cup {owner[q]}
      PROVE  r[1] <= nsess' /\ (Live(r[1])' \/ resets' = {} => owner'[p] = r[1])
  <2>1. resets' # {}
    BY <1>8
  <2> QED
    BY <1>6, <1>8, <2>1
<1> QED
  BY <1>3, <1>4, <1>5, <1>7, <1>8, OwnerStep

\* In an entry that stands only a recv callback changes a byte.
LEMMA DataStep ==
  ASSUME TInv, [Next]_vars, NEW j \in Index, Stands(j), NEW k \in 0 .. Cells - 1
  PROVE  \/ conns'[j].data[k] = conns[j].data[k]
         \/ StoreData /\ j = entry /\ k = old /\ conns'[j].data[k] = NextPart
<1>0. /\ conns \in [Index -> Conn] /\ cur_size \in 0 .. Slots /\ entry \in Index
  BY DEF TInv, TypeOK
<1>1. CASE Peers \/ Load \/ Notify \/ UNCHANGED vars
  BY <1>1 DEF Peers, PeerClose, Poll, Accept, Recv, Result, Err, Load, Notify, vars, list
<1>2. CASE FillEntry \/ CountEntry
  <2>1. FillEntry => j # entry
    <3>1. FillEntry /\ cpc = "accept" => j < cur_size /\ entry = cur_size
      BY FillEffect DEF Stands
    <3>2. FillEntry /\ cpc = "fill" => j # entry
      BY DEF Stands, BeingWritten
    <3> QED
      BY <1>0, <3>1, <3>2, FillEffect
  <2> QED
    BY <1>2, <2>1, FillEffect, CountEffect
<1>3. CASE StoreData
  <2>1. old \in 0 .. Cells - 1 /\ NextPart \in Cell
    BY <1>3, PartType DEF TInv, TypeOK, StoreData, Runs, Pushes
  <2> QED
    BY <1>0, <1>3, <2>1, StoredData DEF Stores, StoreData, TInv
<1>4. CASE StoreSize
  <2>1. old + 1 \in 0 .. Cells /\ conns' = [conns EXCEPT ![entry].size = old + 1]
    BY <1>4 DEF StoreSize, TInv, TypeOK
  <2> QED
    BY <1>0, <2>1, StoredSize DEF TInv
<1>5. CASE CopyCell \/ CopySize
  <2>1. j # entry
    BY <1>5 DEF CopyCell, CopySize, Runs, Stands, BeingWritten
  <2>2. CASE CopyCell
    BY <2>1, <2>2, CopiedCell
  <2>3. CASE CopySize
    <3>1. conns' = [conns EXCEPT ![entry].size = Last.size] /\ cur_size \in Index
      BY <1>0, <2>3 DEF CopySize, Runs, TInv, CbInv, Index
    <3>2. Last.size \in 0 .. Cells
      BY <1>0, <3>1 DEF Last, Conn
    <3> QED
      BY <1>0, <2>1, <3>1, <3>2, StoredSize DEF TInv
  <2> QED
    BY <1>5, <2>2, <2>3
<1>6. CASE Server
  BY <1>6, ServerConns, ClearEffect
<1> QED
  BY <1>1, <1>2, <1>3, <1>4, <1>5, <1>6 DEF Next, Callbacks

\* The request that comes belongs to the pcb it comes from.
LEMMA ComingBelongs ==
  ASSUME IInv, Pushes
  PROVE  Coming \in Requests /\ Belongs(Coming, client)
<1>1. client \in Pcbs /\ Coming \in Requests
  BY PartType DEF IInv, TInv, CbInv, Pushes
<1>2. owner[client] <= nsess
  BY <1>1 DEF IInv, Fresh
<1> QED
  BY <1>1, <1>2 DEF Belongs, Coming

LEMMA EntriesStep ==
  ASSUME IInv, RInv, [Next]_vars
  PROVE  Entries'
<1> SUFFICES ASSUME NEW j \in Index, Stands(j)' PROVE Entry(conns[j])'
  BY DEF Entries
<1>0. /\ conns \in [Index -> Conn] /\ IInv
      /\ \A i \in Index, k \in 0 .. Cells - 1 : conns[i].data[k].of \in Requests \cup {NoReq}
  BY DEF IInv, TInv, TypeOK, Conn, Cell, NoPart, Part
<1>1. ASSUME NEW i \in Index, Stands(i) PROVE Entry(conns[i]) /\ (CopySize /\ resets = {} => conns[i].client_socket # client)
  <2>1. CopySize => Busy
    BY DEF CopySize, Runs, Busy
  <2> QED
    BY <1>1, <2>1 DEF RInv, Entries, Distinct
<1>2. CASE Stands(j) /\ SameSocket(j, j)
  <2> DEFINE p == conns[j].client_socket
  <2>1. p \in Pcbs /\ conns'[j].client_socket = p /\ (CopySize /\ resets = {} => p # client)
    BY <1>1, <1>2 DEF Entry, SameSocket
  <2>2. ASSUME NEW k \in 0 .. Cells - 1 PROVE Belongs(conns[j].data[k].of, conns[j].client_socket)'
    <3>1. PICK x \in Requests \cup {NoReq}, y \in Pcbs :
                 x = conns[j].data[k].of /\ y = p /\ Belongs(x, y)
      BY <1>0, <1>1, <1>2, <2>1 DEF Entry
    <3>2. Belongs(x, y)'
      BY <2>1, <3>1, BelongsStep
    <3>3. CASE conns'[j].data[k] = conns[j].data[k]
      <4>1. conns'[j].data[k].of = x /\ conns'[j].client_socket = y
        BY <2>1, <3>1, <3>3
      <4> QED
        BY <3>2, <4>1
    <3>4. CASE StoreData /\ j = entry /\ k = old /\ conns'[j].data[k] = NextPart
      <4>1. Pushes /\ NextPart.of = Coming /\ UNCHANGED <<nsess, owner, resets>>
        BY <3>4, PartType DEF StoreData, Runs, Pushes, lwip, IInv
      <4>2. Belongs(Coming, client) /\ p = client
        BY <3>4, <4>1, ComingBelongs DEF RInv, Target
      <4> QED
        BY <2>1, <3>4, <4>1, <4>2 DEF Belongs, Live
    <3> QED
      BY <1>2, <3>3, <3>4, DataStep DEF IInv
  <2> QED
    BY <2>1, <2>2 DEF Entry
<1>3. CASE CopySize /\ Stands(cur_size) /\ conns'[j] = conns[cur_size]
  <2>1. cur_size \in Index
    BY <1>3, CopyDone DEF IInv
  <2> DEFINE p == conns[cur_size].client_socket
  <2>2. p \in Pcbs /\ conns'[j].client_socket = p /\ (resets = {} => p # client)
    BY <1>1, <1>3, <2>1 DEF Entry
  <2>3. ASSUME NEW k \in 0 .. Cells - 1 PROVE Belongs(conns[j].data[k].of, conns[j].client_socket)'
    <3>1. PICK x \in Requests \cup {NoReq}, y \in Pcbs :
                 x = conns[cur_size].data[k].of /\ y = p /\ Belongs(x, y)
      BY <1>0, <1>1, <1>3, <2>1, <2>2 DEF Entry
    <3>2. Belongs(x, y)'
      BY <2>2, <3>1, BelongsStep
    <3>3. conns'[j].data[k].of = x /\ conns'[j].client_socket = y
      BY <1>3, <2>2, <3>1
    <3> QED
      BY <3>2, <3>3
  <2> QED
    BY <2>2, <2>3 DEF Entry
<1>4. CASE (FillEntry \/ CountEntry) /\ conns'[j] = Empty(client)
  <2>1. client \in Pcbs
    BY <1>4, FillEffect, CountEffect DEF IInv
  <2> QED
    BY <1>4, <2>1 DEF Entry, Empty, NoPart, Part, Belongs
<1> QED
  BY <1>2, <1>3, <1>4, StandsAfter DEF IInv

LEMMA DistinctStep ==
  ASSUME IInv, RInv, [Next]_vars
  PROVE  Distinct'
<1> SUFFICES ASSUME resets' = {}, NEW j \in Index, Stands(j)'
             PROVE  Alone(j)' /\ (Busy' => conns'[j].client_socket # client')
  BY DEF Distinct
<1>0. /\ conns \in [Index -> Conn] /\ IInv /\ owner \in [Pcbs -> 0 .. MaxSessions] /\ cur_size \in 0 .. Slots
      /\ nsess \in Nat /\ Half /\ TInv
  BY DEF IInv, TInv, TypeOK
<1>1. resets = {} /\ ~\E q \in Pcbs : Err(q) /\ resets' = resets \cup {owner[q]}
  BY OwnerStep
<1>2. ASSUME NEW i \in Index, Stands(i)
      PROVE  /\ conns[i].client_socket \in Pcbs /\ Alone(i) /\ (Busy => conns[i].client_socket # client)
             /\ owner'[conns[i].client_socket] # 0
  <2>1. conns[i].client_socket \in Pcbs /\ Alone(i) /\ (Busy => conns[i].client_socket # client)
    BY <1>1, <1>2 DEF RInv, Distinct, Entries, Entry
  <2> DEFINE p == conns[i].client_socket
  <2>2. p \in Pcbs /\ owner[p] # 0
    BY <2>1 DEF Alone
  <2> HIDE DEF p
  <2>3. ASSUME UNCHANGED owner PROVE owner'[p] # 0
    BY <2>2, <2>3
  <2>4. ASSUME NEW q \in Pcbs, owner[q] = 0, owner' = [owner EXCEPT ![q] = nsess + 1] PROVE owner'[p] # 0
    BY <1>0, <2>2, <2>4
  <2>5. ASSUME CopySize, owner' = [owner EXCEPT ![client] = 0] PROVE owner'[p] # 0
    <3>1. p # client
      BY <2>1, <2>5 DEF CopySize, Runs, Busy, p
    <3> QED
      BY <1>0, <2>2, <2>5, <3>1
  <2>6. owner'[p] # 0
    BY <1>1, <2>3, <2>4, <2>5, OwnerStep
  <2> QED
    BY <2>1, <2>6 DEF p
<1> DEFINE Old(i)  == Stands(i) /\ SameSocket(i, i)
           Moved(i) == CopySize /\ i = entry /\ Stands(cur_size) /\ cur_size # entry /\ conns'[i] = conns[cur_size]
           New(i)   == (FillEntry \/ CountEntry) /\ cpc' = "idle" /\ i = entry /\ conns'[i] = Empty(client)
<1>3. ASSUME NEW i \in Index, Stands(i)' PROVE Old(i) \/ Moved(i) \/ New(i)
  BY <1>0, <1>3, StandsAfter
<1>4. CopySize => cur_size \in Index /\ \A i \in Index : Stands(i)' => i # cur_size
  <2>1. CopySize => cpc' = "idle" /\ cur_size' = cur_size /\ cur_size \in Index
    BY <1>0, CopyDone DEF CopySize, Returns
  <2> QED
    BY <1>0, <2>1 DEF Stands, Index
<1>5. FillEntry \/ CountEntry => /\ Busy /\ client \in Pcbs /\ owner[client] # 0 /\ owner' = owner /\ ~CopySize
                                 /\ (Busy' => client' = client)
  <2>1. FillEntry => cpc \in {"accept", "fill"} /\ owner' = owner /\ client \in Pcbs /\ (cpc' # "idle" => client' = client)
    BY <1>0, FillEffect DEF FillEntry, lwip
  <2>2. CountEntry => cpc \in {"accept", "count"} /\ owner' = owner /\ client \in Pcbs /\ (cpc' # "idle" => client' = client)
    BY <1>0, CountEffect DEF CountEntry, lwip
  <2> QED
    BY <1>0, <2>1, <2>2 DEF Busy, CopySize, Runs, TInv, CbInv
<1>6. ASSUME NEW i \in Index, Stands(i)', conns'[i].client_socket = conns'[j].client_socket PROVE j = i
  <2>1. CASE Old(j) /\ Old(i)
    BY <1>2, <1>6, <2>1 DEF Alone, SameSocket
  <2>2. CASE (Old(j) /\ Moved(i)) \/ (Moved(j) /\ Old(i))
    <3>1. PICK a, b \in Index : Old(a) /\ Moved(b) /\ Stands(a)' /\ conns'[a].client_socket = conns'[b].client_socket
      BY <1>6, <2>2
    <3>2. a # cur_size /\ cur_size \in Index
      BY <1>4, <3>1
    <3>3. conns[a].client_socket = conns[cur_size].client_socket
      BY <3>1 DEF SameSocket
    <3> QED
      BY <1>2, <3>1, <3>2, <3>3 DEF Alone
  <2>3. CASE (Old(j) /\ New(i)) \/ (New(j) /\ Old(i))
    <3>1. PICK a, b \in Index : Old(a) /\ New(b) /\ conns'[a].client_socket = conns'[b].client_socket
      BY <1>6, <2>3
    <3>2. conns[a].client_socket = client /\ Busy
      BY <1>5, <3>1 DEF SameSocket, Empty
    <3> QED
      BY <1>2, <3>1, <3>2
  <2>4. CASE (Moved(j) \/ New(j)) /\ (Moved(i) \/ New(i))
    BY <2>4
  <2> QED
    BY <1>3, <1>6, <2>1, <2>2, <2>3, <2>4
<1>7. owner'[conns'[j].client_socket] # 0
  <2>1. CASE Old(j)
    BY <1>2, <2>1 DEF SameSocket
  <2>2. CASE Moved(j)
    BY <1>2, <1>4, <2>2
  <2>3. CASE New(j)
    BY <1>5, <2>3 DEF Empty
  <2> QED
    BY <1>3, <2>1, <2>2, <2>3
<1>8. ASSUME Busy' PROVE conns'[j].client_socket # client'
  <2>1. cpc' # "idle" /\ ~CopySize
    BY <1>8 DEF Busy, CopySize, Returns
  <2>2. Old(j)
    BY <1>3, <2>1
  <2>3. conns[j].client_socket = conns'[j].client_socket /\ Stands(j)
    BY <2>2 DEF SameSocket
  <2>4. CASE \E q \in Pcbs : Accept(q)
    <3>1. PICK q \in Pcbs : Accept(q)
      BY <2>4
    <3>2. client' = q /\ owner[q] = 0
      BY <1>8, <3>1 DEF Accept, Runs, Busy
    <3> QED
      BY <1>2, <2>3, <3>2 DEF Alone
  <2>5. CASE \E q \in Pcbs : Result(q)
    <3>1. PICK q \in Pcbs : Result(q)
      BY <2>5
    <3>2. PICK i \in Index : First(i, q) /\ entry' = i /\ cpc' = "copy" /\ client' = q
      BY <1>8, <3>1 DEF Result, Callback, Busy
    <3>3. Stands(i) /\ conns[i].client_socket = q /\ j # i
      BY <3>1, <3>2 DEF First, Holds, Stands, BeingWritten, Result, Callback
    <3> QED
      BY <1>2, <2>3, <3>2, <3>3 DEF Alone
  <2>6. CASE FillEntry \/ CountEntry
    BY <1>2, <1>5, <1>8, <2>3, <2>6
  <2>7. CASE \E q \in Pcbs : Err(q)
    BY <1>8, <2>7 DEF Err, Callback, tcpip, Busy
  <2>8. CASE ~Lists
    BY <1>2, <1>8, <2>3, <2>8, Quiet
  <2> QED
    BY <2>1, <2>4, <2>5, <2>6, <2>7, <2>8 DEF Lists
<1> QED
  BY <1>6, <1>7, <1>8 DEF Alone

LEMMA TargetStep ==
  ASSUME IInv, RInv, [Next]_vars
  PROVE  Target'
<1> SUFFICES ASSUME Pushes' PROVE entry' < cur_size' /\ conns'[entry'].client_socket = client'
  BY DEF Target
<1>0. TInv /\ Half /\ entry \in Index /\ Target
  BY DEF IInv, TInv, TypeOK, RInv
<1>1. CASE \E p \in Pcbs : Recv(p)
  BY <1>1 DEF Recv, First, Holds, list, Pushes
<1>2. CASE Load \/ StoreData \/ StoreSize
  <2>1. Pushes /\ UNCHANGED <<entry, client, cur_size>> /\ cpc' # "copy"
    BY <1>2 DEF Load, StoreData, StoreSize, Runs, Advance, Pushes, list
  <2>2. PICK j \in Index : j = entry /\ j < cur_size /\ conns[j].client_socket = client
    BY <1>0, <2>1 DEF Target
  <2>3. conns'[j].client_socket = conns[j].client_socket
    <3>1. Stands(j) /\ [Next]_vars
      BY <2>1, <2>2 DEF Stands, BeingWritten, Pushes
    <3>2. ~CopySize /\ ~\E p \in Pcbs : Result(p) /\ First(j, p) /\ entry' = j /\ client' = p /\ cpc' = "copy"
      BY <2>1 DEF CopySize, Runs, Pushes
    <3> QED
      BY <1>0, <3>1, <3>2, StandsBefore DEF SameSocket
  <2> QED
    BY <2>1, <2>2, <2>3
<1>3. CASE Server
  <2>1. Pushes /\ UNCHANGED <<entry, client, cur_size>>
    BY <1>3, ServerLeaves DEF tcpip, Pushes
  <2>2. conns'[entry].client_socket = conns[entry].client_socket
    BY <1>0, <1>3, ServerConns, ClearEffect
  <2> QED
    BY <1>0, <2>1, <2>2 DEF Target
<1>4. CASE UNCHANGED vars
  BY <1>0, <1>4 DEF vars, tcpip, list, Pushes, Target
<1>5. CASE (\E p \in Pcbs : Accept(p) \/ Result(p) \/ Err(p)) \/ FillEntry \/ CountEntry \/ Notify \/ CopyCell \/ CopySize
  BY <1>5 DEF Accept, Result, Err, Callback, Runs, FillEntry, CountEntry, Notify, CopyCell, CopySize,
     Goes, Returns, tcpip, Pushes
<1> QED
  BY <1>1, <1>2, <1>3, <1>4, <1>5 DEF Next, Peers, PeerClose, Poll, Callbacks

\* A slot that is not removed stays in place while callbacks run.
LEMMA PlaceStep ==
  ASSUME IInv, NEW i \in Index, i < cur_size, ~BeingWritten(i), Peers \/ Callbacks \/ UNCHANGED vars,
         ~\E p \in Pcbs, j \in Index : First(j, p) /\ Pop(j) /\ entry' = j /\ i \in {j, cur_size - 1}
  PROVE  i < cur_size' /\ ~BeingWritten(i)'
<1>0. /\ cur_size \in 0 .. Slots /\ entry \in Index /\ i \in Int /\ TInv /\ Half
  BY DEF IInv, TInv, TypeOK, Index
<1>1. CASE \E p \in Pcbs : Accept(p) \/ Recv(p) \/ Err(p)
  BY <1>1 DEF Accept, Recv, Err, Callback, Runs, tcpip, list, BeingWritten
<1>2. CASE \E p \in Pcbs : Result(p)
  <2>1. PICK p \in Pcbs : Result(p)
    BY <1>2
  <2>2. Listed(p)
    BY <2>1, OpenListed DEF Result, Callback, IInv, Open
  <2>3. PICK j \in Index : First(j, p) /\ entry' = j /\ Pop(j)
    BY <2>1, <2>2 DEF Result
  <2>4. i # j /\ i # cur_size - 1 /\ cur_size' = cur_size - 1
    BY <2>3 DEF Pop
  <2> QED
    BY <1>0, <2>3, <2>4 DEF BeingWritten
<1>3. CASE FillEntry
  BY <1>0, <1>3, FillEffect DEF BeingWritten
<1>4. CASE CountEntry
  <2>1. i # entry /\ cur_size' = cur_size + 1 /\ cpc' \in {"fill", "idle"} /\ (cpc' = "fill" => entry' = entry)
    BY <1>0, <1>4, CountEffect
  <2> QED
    BY <1>0, <2>1 DEF BeingWritten
<1>5. CASE Load \/ StoreData \/ StoreSize \/ Notify
  BY <1>5 DEF Load, StoreData, StoreSize, Notify, Runs, Advance, Returns, list, BeingWritten
<1>6. CASE CopyCell \/ CopySize
  BY <1>6 DEF CopyCell, CopySize, Runs, Returns, BeingWritten
<1>7. CASE UNCHANGED vars
  BY <1>7 DEF vars, list, tcpip, BeingWritten
<1> QED
  BY <1>1, <1>2, <1>3, <1>4, <1>5, <1>6, <1>7 DEF Peers, PeerClose, Poll, Callbacks

\* A callback leaves the task where it is, and tells it when it moves its slot.
LEMMA CallbackKeeps ==
  ASSUME Peers \/ Callbacks \/ UNCHANGED vars
  PROVE  /\ UNCHANGED task
         /\ UNCHANGED <<moved, everMoved>> \/ \E p \in Pcbs, i \in Index : Result(p) /\ First(i, p) /\ entry' = i /\ Pop(i)
BY DEF Peers, Callbacks, Accept, Recv, PeerClose, Poll, Result, Err, FillEntry, CountEntry, Load,
   StoreData, StoreSize, Notify, CopyCell, CopySize, vars, ghosts

LEMMA InPlaceStep ==
  ASSUME IInv, RInv, [Next]_vars
  PROVE  InPlace'
<1>0. /\ cur_size \in 0 .. Slots /\ conns \in [Index -> Conn] /\ span \in Index /\ idx \in 0 .. Slots
      /\ n \in 0 .. Slots /\ TInv /\ Half /\ req \in Requests \cup {NoReq}
  BY DEF IInv, TInv, TypeOK
<1>1. CASE Peers \/ Callbacks \/ UNCHANGED vars
  <2>1. UNCHANGED <<pc, idx, span, cur_client, req>>
    BY <1>1, CallbackKeeps DEF task, locals, work
  <2> SUFFICES ASSUME ~moved', Serves
               PROVE  /\ span = idx /\ span < cur_size' /\ ~BeingWritten(span)'
                      /\ pc \in {"head", "tail", "write"} => cur_client = idx
                      /\ pc \in {"tail", "write"} => Belongs(req, conns[span].client_socket)'
    BY <2>1 DEF InPlace, Serves
  <2>2. ~moved /\ ~\E p \in Pcbs, j \in Index : First(j, p) /\ Pop(j) /\ entry' = j /\ span \in {j, cur_size - 1}
    <3>1. ASSUME NEW p \in Pcbs, NEW j \in Index, Pop(j) PROVE ~moved /\ span \notin {j, cur_size - 1}
      BY <3>1 DEF Pop, Reading, Serves
    <3>2. ~moved
      BY <1>1, <3>1, CallbackKeeps
    <3> QED
      BY <3>1, <3>2
  <2>3. /\ span = idx /\ span < cur_size /\ ~BeingWritten(span)
        /\ pc \in {"head", "tail", "write"} => cur_client = idx
        /\ pc \in {"tail", "write"} => Belongs(req, conns[span].client_socket)
    BY <2>2 DEF RInv, InPlace
  <2>i. PICK i \in Index : i = span
    BY <1>0
  <2>4. i < cur_size' /\ ~BeingWritten(i)'
    BY <1>1, <2>2, <2>3, <2>i, PlaceStep
  <2>5. ASSUME pc \in {"tail", "write"} PROVE Belongs(req, conns[span].client_socket)'
    <3>1. Stands(i) /\ Stands(i)'
      BY <2>3, <2>4, <2>i DEF Stands
    <3>2. conns'[i].client_socket = conns[i].client_socket
      <4>1. ~(CopySize /\ i = cur_size)
        BY <2>3, <2>i, <1>0
      <4>2. ~\E p \in Pcbs : Result(p) /\ First(i, p) /\ entry' = i /\ client' = p /\ cpc' = "copy"
        BY <2>4 DEF BeingWritten
      <4> QED
        BY <1>0, <3>1, <4>1, <4>2, StandsBefore DEF SameSocket
    <3>3. CopySize /\ resets = {} => conns[i].client_socket # client
      BY <3>1 DEF RInv, Distinct, CopySize, Runs, Busy
    <3>4. PICK x \in Requests \cup {NoReq}, y \in Pcbs : x = req /\ y = conns[i].client_socket /\ Belongs(x, y)
      BY <1>0, <2>3, <2>5, <2>i, <3>1 DEF RInv, Entries, Entry
    <3>5. Belongs(x, y)'
      BY <3>3, <3>4, BelongsStep
    <3>6. req' = x /\ conns'[span'].client_socket = y
      BY <2>1, <2>i, <3>2, <3>4
    <3> QED
      BY <3>5, <3>6
  <2>6. ~BeingWritten(span)'
    BY <2>1, <2>4, <2>i DEF BeingWritten
  <2> QED
    BY <2>3, <2>4, <2>5, <2>6, <2>i
<1>2. CASE Server
  <2>1. UNCHANGED <<cur_size, cpc, entry, owner, nsess, resets>>
    BY <1>2, ServerLeaves DEF tcpip, lwip
  <2>2. \A i \in Index : conns'[i].client_socket = conns[i].client_socket
    BY <1>0, <1>2, ServerConns, ClearEffect
  <2>4. CASE StartRead \/ ScanMiss \/ Arm \/ Take \/ Timeout \/ Nothing \/ WriteBytes
    BY <2>4 DEF StartRead, ScanMiss, Arm, Take, Timeout, Wake, Nothing, WriteBytes, Step, Ends, InPlace, Serves
  <2>5. CASE ScanHit
    <3>1. pc' = "span" /\ span' = At(idx) /\ moved' = (idx >= cur_size \/ Copying(At(idx))) /\ idx' = idx
      BY <2>5 DEF ScanHit, Step, locals
    <3>2. ~moved' => At(idx) = idx /\ idx < cur_size /\ ~BeingWritten(At(idx))
      <4>1. ~moved' => ~(idx >= cur_size) /\ ~Copying(At(idx))
        BY <3>1
      <4>2. Copying(At(idx)) <=> BeingWritten(At(idx))
        BY DEF Copying, BeingWritten
      <4> QED
        BY <1>0, <4>1, <4>2 DEF At
    <3> QED
      BY <2>1, <3>1, <3>2 DEF InPlace, BeingWritten
  <2>6. CASE Span
    <3>1. pc = "span" /\ pc' = "clear" /\ span' = At(idx) /\ moved' = moved /\ idx' = idx
      BY <2>6 DEF Span, Step, From, locals, ghosts
    <3>2. ~moved => At(idx) = idx /\ span = idx /\ span < cur_size /\ ~BeingWritten(span)
      BY <3>1 DEF RInv, InPlace, Serves, At
    <3> QED
      BY <2>1, <3>1, <3>2 DEF InPlace, BeingWritten
  <2>7. CASE Clear
    <3>1. pc = "clear" /\ pc' = "head" /\ cur_client' = idx /\ UNCHANGED <<moved, idx, span>>
      BY <2>7 DEF Clear, Step, From, locals, ghosts
    <3> QED
      BY <2>1, <3>1 DEF RInv, InPlace, Serves, BeingWritten
  <2>8. CASE ServeHead
    <3>1. CASE pc' = "tail"
      <4>1. pc = "head" /\ UNCHANGED <<moved, idx, span, conns, cur_client>> /\ req' = conns[span].data[0].of
        BY <2>8, <3>1 DEF ServeHead, From, Ends, locals, ghosts, list, work
      <4>2. ASSUME ~moved PROVE span = idx /\ span < cur_size /\ ~BeingWritten(span) /\ cur_client = idx
                                /\ Belongs(conns[span].data[0].of, conns[span].client_socket)
        <5>1. span = idx /\ span < cur_size /\ ~BeingWritten(span) /\ cur_client = idx
          BY <4>1, <4>2 DEF RInv, InPlace, Serves
        <5>2. Entry(conns[span]) /\ 0 \in 0 .. Cells - 1
          BY <1>0, <5>1 DEF RInv, Entries, Stands
        <5> QED
          BY <5>1, <5>2 DEF Entry
      <4> QED
        BY <2>1, <3>1, <4>1, <4>2 DEF InPlace, BeingWritten, Belongs, Live
    <3>2. CASE pc' # "tail"
      BY <2>8, <3>2 DEF ServeHead, Ends, InPlace, Serves
    <3> QED
      BY <3>1, <3>2
  <2>9. CASE ServeTail
    <3>1. CASE pc' = "write"
      <4>1. pc = "tail" /\ UNCHANGED <<moved, idx, span, conns, cur_client, req>>
        BY <2>9, <3>1 DEF ServeTail, From, Ends, locals, ghosts, list
      <4> QED
        BY <2>1, <3>1, <4>1 DEF RInv, InPlace, Serves, BeingWritten, Belongs, Live
    <3>2. CASE pc' # "write"
      BY <2>9, <3>2 DEF ServeTail, Ends, InPlace, Serves
    <3> QED
      BY <3>1, <3>2
  <2> QED
    BY <1>2, <2>4, <2>5, <2>6, <2>7, <2>8, <2>9 DEF Server
<1> QED
  BY <1>1, <1>2 DEF Next

LEMMA Routing == Spec => []RInv
<1>1. Init => RInv
  <2> SUFFICES ASSUME Init PROVE RInv
    OBVIOUS
  <2>1. cur_size = 0 /\ cpc = "idle" /\ pc = "poll" /\ \A i \in Index : ~(i < 0)
    BY DEF Init, Index
  <2>2. \A i \in Index : ~Stands(i)
    BY <2>1 DEF Stands
  <2> QED
    BY <2>1, <2>2 DEF RInv, Entries, Distinct, Target, Pushes, InPlace, Serves
<1>2. IInv /\ RInv /\ [Next]_vars => RInv'
  BY EntriesStep, DistinctStep, TargetStep, InPlaceStep DEF RInv
<1> QED
  BY <1>1, <1>2, Accounting, PTL DEF Spec

\* What the task is about to write goes to the session whose request it
\* answers, as long as its slot was not removed or refilled.
THEOREM RepliesReachRequesters == Spec => []ReplyToRequester
<1>1. IInv /\ RInv => ReplyToRequester
  <2> SUFFICES ASSUME IInv, RInv, pc = "write", ~moved, Live(req[1]) \/ resets = {} PROVE ReachesPeer
    BY DEF ReplyToRequester
  <2>1. cur_client = span /\ span < cur_size /\ ~BeingWritten(span) /\ Belongs(req, conns[span].client_socket)
    BY DEF RInv, InPlace, Serves
  <2>2. span \in Index /\ req \in Requests /\ req # NoReq
    BY DEF IInv, TInv, TypeOK, TaskInv, Requests, NoReq, Sessions
  <2>3. Addressee = conns[span].client_socket /\ Addressee \in Pcbs
    BY <2>1, <2>2 DEF Addressee, At, RInv, Entries, Entry, Stands
  <2> QED
    BY <2>1, <2>2, <2>3 DEF Belongs, ReachesPeer
<1> QED
  BY <1>1, Accounting, Routing, PTL

-----------------------------------------------------------------------------
(* Two threads in one buffer.  What a recv callback pushes while the task  *)
(* reads, or the task reads while one is pushed, is in `torn'; any other   *)
(* head that has bytes behind it is followed by its tail or by a head.     *)

Torn(i)  == Reading(i) /\ Pushing(i) => Coming \in torn /\ Inside(i) \subseteq torn
Wide(i)  == conns[i].size > 1 \/ (Pushing(i) /\ cpc # "load" /\ old > 1)
Follows(x, y, lost) == IsHead(x) /\ x.of \notin lost => IsHead(y) \/ y = Part(x.of, "tail")
Match(i) == Follows(conns[i].data[0], conns[i].data[1], torn)
Pairs(i) == Wide(i) => Match(i) \/ (Pushing(i) /\ cpc = "data" /\ old = 1)

\* What a recv callback has stored of its part, and of the one before it.
Pushed ==
  Pushes =>
    /\ cpc = "size" => conns[entry].data[old] = NextPart
    /\ cpc \in {"store", "size"} => conns[entry].size \in {0, old}
    /\ cpc = "data" => conns[entry].size \in {0, old + 1}
    /\ pos = 1 /\ cpc = "load" /\ conns[entry].size = 1 => conns[entry].data[0] = Part(Coming, "head")
    /\ pos = 1 /\ cpc # "load" /\ old = 1 => conns[entry].data[0] = Part(Coming, "head")

\* What the task reads.
Readable ==
  ~everMoved =>
    /\ ~moved
    /\ Serves => Torn(span)
    /\ pc \in {"clear", "head", "tail"} /\ len > 1 => Match(span)
    /\ pc = "tail" => len > 1 /\ (req \in torn \/ conns[span].data[0] = Part(req, "head"))

MInv == Pushed /\ Readable /\ NothingInvented /\ \A i \in Index : Stands(i) => Pairs(i)

\* What a step does to an entry that stands.
LEMMA ConnStep ==
  ASSUME TInv, [Next]_vars, NEW j \in Index, Stands(j)
  PROVE  \/ conns'[j] = conns[j]
         \/ (StoreData \/ StoreSize) /\ j = entry
         \/ Clear /\ j = At(idx)
<1>0. /\ conns \in [Index -> Conn] /\ cur_size \in 0 .. Slots /\ entry \in Index
  BY DEF TInv, TypeOK
<1>1. CASE Peers \/ Load \/ Notify \/ UNCHANGED vars
  BY <1>1 DEF Peers, PeerClose, Poll, Accept, Recv, Result, Err, Load, Notify, vars, list
<1>2. CASE FillEntry \/ CountEntry
  <2>1. FillEntry => j # entry
    <3>1. FillEntry /\ cpc = "accept" => j < cur_size /\ entry = cur_size
      BY FillEffect DEF Stands
    <3>2. FillEntry /\ cpc = "fill" => j # entry
      BY DEF Stands, BeingWritten
    <3> QED
      BY <1>0, <3>1, <3>2, FillEffect
  <2> QED
    BY <1>2, <2>1, FillEffect, CountEffect
<1>3. CASE StoreData \/ StoreSize
  BY <1>0, <1>3 DEF StoreData, StoreSize
<1>5. CASE CopyCell \/ CopySize
  <2>1. j # entry
    BY <1>5 DEF CopyCell, CopySize, Runs, Stands, BeingWritten
  <2>2. CASE CopyCell
    BY <2>1, <2>2, CopiedCell
  <2>3. CASE CopySize
    BY <1>0, <2>1, <2>3 DEF CopySize
  <2> QED
    BY <1>5, <2>2, <2>3
<1>6. CASE Server
  BY <1>6, ServerConns, ClearEffect
<1> QED
  BY <1>1, <1>2, <1>3, <1>5, <1>6 DEF Next, Callbacks

\* What is torn stays torn, and what has moved has moved.
LEMMA Growing ==
  ASSUME [Next]_vars
  PROVE  torn \subseteq torn' /\ (everMoved => everMoved')
<1>1. CASE Peers
  <2>1. CASE \E p \in Pcbs : Accept(p) \/ Err(p)
    BY <2>1 DEF Accept, Err, ghosts
  <2>2. CASE \E p \in Pcbs : Recv(p)
    BY <2>2 DEF Recv
  <2>3. CASE \E p \in Pcbs : Result(p)
    <3>1. PICK p \in Pcbs : Result(p)
      BY <2>3
    <3>2. (\E i \in Index : Pop(i)) \/ UNCHANGED ghosts
      BY <3>1 DEF Result
    <3>3. ASSUME NEW i \in Index, Pop(i) PROVE torn' = torn /\ (everMoved => everMoved')
      <4>1. torn' = torn
        BY <3>3 DEF Pop
      <4>2. everMoved => everMoved'
        BY <3>3, Zenon DEF Pop
      <4> QED
        BY <4>1, <4>2
    <3> QED
      BY <3>2, <3>3 DEF ghosts
  <2> QED
    BY <1>1, <2>1, <2>2, <2>3 DEF Peers, PeerClose, Poll
<1>2. CASE Callbacks \/ UNCHANGED vars
  BY <1>2 DEF Callbacks, FillEntry, CountEntry, Load, StoreData, StoreSize, Notify, CopyCell, CopySize, vars, ghosts
<1>3. CASE ScanHit
  BY <1>3 DEF ScanHit
<1>4. CASE Server /\ ~ScanHit
  BY <1>4 DEF Server, StartRead, ScanMiss, Span, Clear, Arm, Take, Timeout, Wake, Nothing, ServeHead,
     ServeTail, WriteBytes, Ends, ghosts
<1> QED
  BY <1>1, <1>2, <1>3, <1>4 DEF Next

\* The effect of a store.
LEMMA DataEffect ==
  ASSUME TInv, StoreData
  PROVE  /\ Pushes /\ entry \in Index /\ old \in 0 .. Cells - 1 /\ cpc \in {"store", "data"}
         /\ \A i \in Index : i # entry => conns'[i] = conns[i]
         /\ conns'[entry].client_socket = conns[entry].client_socket /\ conns'[entry].size = conns[entry].size
         /\ \A c \in 0 .. Cells - 1 : conns'[entry].data[c] = IF c = old THEN NextPart ELSE conns[entry].data[c]
         /\ cpc = "store" => cpc' = "size" /\ pos' = pos /\ old' = old
         /\ cpc = "data" => Advance
         /\ UNCHANGED <<lwip, cur_size, client, entry, task, wait, ghosts, fault>>
<1>1. Pushes /\ cpc \in {"store", "data"}
  BY DEF StoreData, Runs, Pushes
<1>2. entry \in Index /\ old \in 0 .. Cells - 1 /\ NextPart \in Cell
  BY <1>1, PartType DEF TInv, TypeOK
<1>3. /\ cpc = "store" => cpc' = "size" /\ pos' = pos /\ old' = old
      /\ cpc = "data" => Advance
      /\ UNCHANGED <<lwip, cur_size, client, entry, task, wait, ghosts, fault>>
  BY DEF StoreData
<1>4. TypeOK /\ Stores(entry, old, NextPart)
  BY DEF StoreData, TInv, Stores
<1> QED
  BY <1>1, <1>2, <1>3, <1>4, StoredData

LEMMA SizeEffect ==
  ASSUME TInv, StoreSize
  PROVE  /\ Pushes /\ entry \in Index /\ old \in 0 .. Cells - 1 /\ cpc \in {"store", "size"}
         /\ \A i \in Index : i # entry => conns'[i] = conns[i]
         /\ conns'[entry].client_socket = conns[entry].client_socket /\ conns'[entry].size = old + 1
         /\ conns'[entry].data = conns[entry].data
         /\ cpc = "store" => cpc' = "data" /\ pos' = pos /\ old' = old
         /\ cpc = "size" => Advance
         /\ UNCHANGED <<lwip, cur_size, client, entry, task, wait, ghosts, fault>>
<1>1. Pushes /\ cpc \in {"store", "size"} /\ conns' = [conns EXCEPT ![entry].size = old + 1]
  BY DEF StoreSize, Runs, Pushes
<1>2. entry \in Index /\ old \in 0 .. Cells - 1 /\ old + 1 \in 0 .. Cells
  BY DEF TInv, TypeOK
<1> QED
  BY <1>1, <1>2, StoredSize DEF TInv, StoreSize

LEMMA PushedStep ==
  ASSUME TInv, Pushed, [Next]_vars
  PROVE  Pushed'
<1> SUFFICES ASSUME Pushes' PROVE Pushed'
  BY DEF Pushed
<1>0. entry \in Index /\ conns \in [Index -> Conn] /\ old \in 0 .. Cells - 1 /\ 0 \in 0 .. Cells - 1
  BY DEF TInv, TypeOK
<1>1. CASE \E p \in Pcbs : Recv(p)
  <2>1. cpc' \in {"load", "notify"} /\ pos' = 0
    BY <1>1 DEF Recv, Callback, TInv, CbInv
  <2> QED
    BY <2>1 DEF Pushed
<1>2. CASE Load
  <2>1. Pushes /\ cpc = "load" /\ conns' = conns /\ pos \in {0, 1} /\ entry' = entry
    BY <1>2 DEF Load, Runs, Pushes, TInv, CbInv, list
  <2>2. Coming' = Coming
    BY <1>2 DEF Load, lwip, Coming
  <2>3. CASE Fits
    <3>1. cpc' = "store" /\ old' = conns[entry].size /\ pos' = pos
      BY <1>2, <2>3 DEF Load
    <3>2. pos = 1 /\ conns[entry].size = 1 => conns[entry].data[0] = Part(Coming, "head")
      BY <2>1 DEF Pushed
    <3> QED
      BY <2>1, <2>2, <3>1, <3>2 DEF Pushed
  <2>4. CASE ~Fits
    <3>1. cpc' \in {"load", "notify"} /\ conns[entry].size # 1
      <4>1. conns[entry].size \in 0 .. Cells
        BY <1>0 DEF Conn
      <4> QED
        BY <1>2, <2>4, <4>1 DEF Load, Advance, Fits
    <3> QED
      BY <2>1, <3>1 DEF Pushed, Pushes
  <2> QED
    BY <2>3, <2>4
<1>3. CASE StoreData
  <2>1. pos \in {0, 1} /\ Coming' = Coming /\ entry' = entry
    BY <1>3, DataEffect DEF TInv, CbInv, Pushes, lwip, Coming
  <2>2. CASE cpc = "store"
    <3>1. /\ cpc' = "size" /\ pos' = pos /\ old' = old /\ conns'[entry].data[old] = NextPart
          /\ conns'[entry].size = conns[entry].size /\ (old = 1 => conns'[entry].data[0] = conns[entry].data[0])
      BY <1>0, <1>3, <2>2, DataEffect
    <3>2. NextPart' = NextPart
      BY <2>1, <3>1 DEF NextPart
    <3> QED
      BY <1>3, <2>1, <2>2, <3>1, <3>2, DataEffect DEF Pushed
  <2>3. CASE cpc = "data"
    <3>1. /\ Advance /\ conns'[entry].data[old] = NextPart /\ conns'[entry].size = conns[entry].size
          /\ conns[entry].size \in {0, old + 1}
      BY <1>0, <1>3, <2>3, DataEffect DEF Pushed
    <3>2. pos = 0 /\ cpc' = "load"
      BY <2>1, <3>1 DEF Advance, Pushes
    <3>3. conns'[entry].size = 1 => conns'[entry].data[0] = Part(Coming, "head")
      BY <1>0, <3>1, <3>2 DEF NextPart
    <3> QED
      BY <2>1, <3>2, <3>3 DEF Pushed
  <2> QED
    BY <1>3, <2>2, <2>3, DataEffect
<1>4. CASE StoreSize
  <2>1. pos \in {0, 1} /\ Coming' = Coming /\ entry' = entry
    BY <1>4, SizeEffect DEF TInv, CbInv, Pushes, lwip, Coming
  <2>2. CASE cpc = "store"
    <3>1. /\ cpc' = "data" /\ pos' = pos /\ old' = old /\ conns'[entry].size = old + 1
          /\ conns'[entry].data = conns[entry].data
      BY <1>4, <2>2, SizeEffect
    <3> QED
      BY <1>4, <2>1, <2>2, <3>1, SizeEffect DEF Pushed
  <2>3. CASE cpc = "size"
    <3>1. Advance /\ conns'[entry].size = old + 1 /\ conns'[entry].data[old] = NextPart
      BY <1>4, <2>3, SizeEffect DEF Pushed
    <3>2. pos = 0 /\ cpc' = "load"
      BY <2>1, <3>1 DEF Advance, Pushes
    <3>3. conns'[entry].size = 1 => conns'[entry].data[0] = Part(Coming, "head")
      BY <1>0, <3>1, <3>2 DEF NextPart
    <3> QED
      BY <2>1, <3>2, <3>3 DEF Pushed
  <2> QED
    BY <1>4, <2>2, <2>3, SizeEffect
<1>5. CASE Server
  <2>1. Pushes /\ Coming' = Coming /\ NextPart' = NextPart /\ UNCHANGED <<cpc, entry, pos, old>>
    BY <1>5, ServerLeaves DEF lwip, tcpip, Coming, NextPart, Pushes
  <2>2. conns'[entry].data = conns[entry].data /\ conns'[entry].size \in {0, conns[entry].size}
    BY <1>0, <1>5, ServerConns, ClearEffect
  <2> QED
    BY <2>1, <2>2 DEF Pushed
<1>6. CASE UNCHANGED vars
  BY <1>6 DEF vars, lwip, list, tcpip, Pushed, Pushes, Coming, NextPart
<1>7. CASE (\E p \in Pcbs : Accept(p) \/ Result(p) \/ Err(p)) \/ FillEntry \/ CountEntry \/ Notify \/ CopyCell \/ CopySize
  BY <1>7 DEF Accept, Result, Err, Callback, Runs, FillEntry, CountEntry, Notify, CopyCell, CopySize,
     Goes, Returns, tcpip, Pushes
<1> QED
  BY <1>1, <1>2, <1>3, <1>4, <1>5, <1>6, <1>7 DEF Next, Peers, PeerClose, Poll, Callbacks

LEMMA PairsStep ==
  ASSUME TInv, Half, Pushed, [Next]_vars, \A i \in Index : Stands(i) => Pairs(i), NEW i \in Index, Stands(i)'
  PROVE  Pairs(i)'
<1>0. /\ conns \in [Index -> Conn] /\ entry \in Index /\ old \in 0 .. Cells - 1 /\ cur_size \in 0 .. Slots
      /\ \A j \in Index : conns[j].size \in 0 .. Cells
      /\ 0 \in 0 .. Cells - 1 /\ 1 \in 0 .. Cells - 1
  BY DEF TInv, TypeOK, Conn
<1>1. torn \subseteq torn'
  BY Growing
<1>2. ASSUME NEW x \in Cell, NEW y \in Cell, Follows(x, y, torn) PROVE Follows(x, y, torn')
  BY <1>1, <1>2 DEF Follows
<1>m. ASSUME NEW j \in Index, Match(j), conns'[i].data[0] = conns[j].data[0], conns'[i].data[1] = conns[j].data[1]
      PROVE  Match(i)'
  <2>1. conns[j].data[0] \in Cell /\ conns[j].data[1] \in Cell
    BY <1>0 DEF Conn
  <2> QED
    BY <1>2, <1>m, <2>1 DEF Match
<1>3. CASE Load
  <2>1. cpc = "load" /\ conns' = conns /\ cur_size' = cur_size /\ entry' = entry
    BY <1>3 DEF Load, Runs, list
  <2>2. (cpc' = "store" /\ old' = conns[entry].size) \/ cpc' \in {"load", "notify"}
    BY <1>3 DEF Load, Advance
  <2>3. Stands(i)
    BY <2>1, <2>2 DEF Stands, BeingWritten
  <2>4. Wide(i)' => Wide(i)
    BY <2>1, <2>2 DEF Wide, Pushing
  <2>5. Wide(i) => Match(i)
    BY <2>1, <2>3 DEF Pairs
  <2> QED
    BY <1>m, <2>1, <2>4, <2>5 DEF Pairs
<1>4. CASE StoreData
  <2>1. cpc' \in {"size", "load", "notify"} /\ entry' = entry /\ cur_size' = cur_size /\ cpc \in {"store", "data"}
    BY <1>4, DataEffect DEF Advance
  <2>2. Stands(i)
    BY <2>1 DEF Stands, BeingWritten
  <2>3. CASE i # entry
    <3>1. conns'[i] = conns[i]
      BY <1>4, <2>3, DataEffect
    <3>2. (Wide(i)' => Wide(i)) /\ (Wide(i) => Match(i))
      BY <2>1, <2>2, <2>3, <3>1 DEF Wide, Pushing, Pairs
    <3> QED
      BY <1>m, <3>1, <3>2 DEF Pairs
  <2>4. CASE i = entry
    <3>1. /\ conns'[i].size = conns[i].size /\ conns'[i].data[old] = NextPart
          /\ \A c \in 0 .. Cells - 1 : c # old => conns'[i].data[c] = conns[i].data[c]
      BY <1>0, <1>4, <2>4, DataEffect
    <3>2. CASE cpc = "store"
      <4>1. conns[i].size \in {0, old} /\ cpc' = "size" /\ old' = old
        BY <1>4, <2>4, <3>2, DataEffect DEF Pushed
      <4>2. Wide(i)' => old > 1
        BY <1>0, <3>1, <4>1 DEF Wide
      <4>3. old > 1 => Match(i)
        BY <2>2, <2>4, <3>2 DEF Pairs, Wide, Pushing
      <4>4. old > 1 => Match(i)'
        BY <1>0, <1>m, <3>1, <4>3
      <4> QED
        BY <4>2, <4>4 DEF Pairs
    <3>3. CASE cpc = "data"
      <4>1. conns[i].size \in {0, old + 1} /\ cpc' \in {"load", "notify"} /\ pos \in {0, 1}
        BY <1>4, <2>4, <3>3, DataEffect DEF Pushed, Advance, TInv, CbInv
      <4>2. Wide(i)' => conns[i].size > 1 /\ old >= 1
        BY <1>0, <3>1, <4>1 DEF Wide, Pushing
      <4>3. conns[i].size > 1 /\ old > 1 => Match(i)
        BY <2>2, <2>4, <3>3 DEF Pairs, Wide, Pushing
      <4>4. conns[i].size > 1 /\ old > 1 => Match(i)'
        BY <1>0, <1>m, <3>1, <4>3
      <4>5. old = 1 => Match(i)'
        <5>1. ASSUME old = 1 PROVE conns'[i].data[1] = NextPart /\ conns'[i].data[0] = conns[i].data[0]
          BY <1>0, <3>1, <5>1
        <5>2. ASSUME old = 1, pos = 1 PROVE conns[i].data[0] = Part(Coming, "head")
          BY <1>4, <2>4, <3>3, <5>2, DataEffect DEF Pushed
        <5> QED
          BY <4>1, <5>1, <5>2 DEF Match, Follows, NextPart, IsHead, Part
      <4> QED
        BY <1>0, <4>2, <4>4, <4>5 DEF Pairs
    <3> QED
      BY <2>1, <3>2, <3>3
  <2> QED
    BY <2>3, <2>4
<1>5. CASE StoreSize
  <2>1. cpc' \in {"data", "load", "notify"} /\ entry' = entry /\ cur_size' = cur_size /\ cpc \in {"store", "size"}
    BY <1>5, SizeEffect DEF Advance
  <2>2. Stands(i)
    BY <2>1 DEF Stands, BeingWritten
  <2>3. CASE i # entry
    <3>1. conns'[i] = conns[i]
      BY <1>5, <2>3, SizeEffect
    <3>2. (Wide(i)' => Wide(i)) /\ (Wide(i) => Match(i))
      BY <2>1, <2>2, <2>3, <3>1 DEF Wide, Pushing, Pairs
    <3> QED
      BY <1>m, <3>1, <3>2 DEF Pairs
  <2>4. CASE i = entry
    <3>1. conns'[i].size = old + 1 /\ conns'[i].data = conns[i].data
      BY <1>5, <2>4, SizeEffect
    <3>2. old > 1 => Match(i)
      BY <2>1, <2>2, <2>4 DEF Pairs, Wide, Pushing
    <3>3. old > 1 => Match(i)'
      BY <1>m, <3>1, <3>2
    <3>4. CASE cpc = "store"
      <4>1. cpc' = "data" /\ old' = old
        BY <1>5, <3>4, SizeEffect
      <4>2. Wide(i)' => old >= 1
        BY <1>0, <3>1, <4>1 DEF Wide, Pushing
      <4> QED
        BY <1>0, <2>1, <2>4, <3>3, <4>1, <4>2 DEF Pairs, Pushing
    <3>5. CASE cpc = "size"
      <4>1. cpc' \in {"load", "notify"} /\ pos \in {0, 1}
        BY <1>5, <3>5, SizeEffect DEF Advance, TInv, CbInv
      <4>2. Wide(i)' => old >= 1
        BY <1>0, <3>1, <4>1 DEF Wide, Pushing
      <4>3. old = 1 => Match(i)'
        <5>1. conns[i].data[old] = NextPart
          BY <1>5, <2>4, <3>5, SizeEffect DEF Pushed
        <5>2. ASSUME old = 1, pos = 1 PROVE conns[i].data[0] = Part(Coming, "head")
          BY <1>5, <2>4, <3>5, <5>2, SizeEffect DEF Pushed
        <5> QED
          BY <3>1, <4>1, <5>1, <5>2 DEF Match, Follows, NextPart, IsHead, Part
      <4> QED
        BY <1>0, <3>3, <4>2, <4>3 DEF Pairs
    <3> QED
      BY <2>1, <3>4, <3>5
  <2> QED
    BY <2>3, <2>4
<1>6. CASE Server
  <2>1. UNCHANGED <<cur_size, cpc, entry, old>>
    BY <1>6, ServerLeaves DEF tcpip
  <2>2. conns'[i].data = conns[i].data /\ (conns'[i].size > 1 => conns[i].size > 1)
    BY <1>6, ServerConns, ClearEffect
  <2>3. Stands(i) /\ (Wide(i)' => Wide(i)) /\ (Pushing(i) => Pushing(i)')
    BY <2>1, <2>2 DEF Stands, BeingWritten, Wide, Pushing
  <2>4. Match(i) => Match(i)'
    BY <1>m, <2>2
  <2> QED
    BY <2>1, <2>3, <2>4 DEF Pairs
<1>7. CASE UNCHANGED vars
  BY <1>7 DEF vars, list, tcpip, ghosts, Stands, BeingWritten, Pairs, Wide, Match, Pushing
<1>8. CASE (\E p \in Pcbs : Accept(p) \/ Recv(p) \/ Result(p) \/ Err(p))
           \/ FillEntry \/ CountEntry \/ Notify \/ CopyCell \/ CopySize
  <2>1. ~Pushes /\ cpc' \notin {"store", "data", "size"} /\ ~StoreData /\ ~StoreSize /\ ~Clear
    <3>1. CASE \E p \in Pcbs : Accept(p) \/ Recv(p) \/ Result(p) \/ Err(p)
      BY <3>1 DEF Accept, Recv, Result, Err, Callback, Runs, tcpip, Pushes, StoreData, StoreSize, Clear, Step,
         From, locals, task
    <3>2. CASE FillEntry \/ CountEntry \/ Notify \/ CopyCell \/ CopySize
      BY <3>2 DEF FillEntry, CountEntry, Notify, CopyCell, CopySize, Runs, Goes, Returns, Pushes, StoreData,
         StoreSize, Clear, Step, From, locals, task
    <3> QED
      BY <1>8, <3>1, <3>2
  <2>2. Wide(i)' => conns'[i].size > 1
    BY <2>1 DEF Wide, Pushing
  <2>3. ASSUME NEW j \in Index, Stands(j), conns'[i] = conns[j] PROVE Pairs(i)'
    <3>1. Wide(i)' => Match(j)
      BY <2>1, <2>2, <2>3 DEF Pairs, Wide, Pushing, Pushes
    <3> QED
      BY <1>m, <2>3, <3>1 DEF Pairs
  <2>4. CASE Stands(i)
    BY <2>1, <2>3, <2>4, ConnStep
  <2>5. CASE CopySize /\ Stands(cur_size) /\ conns'[i] = conns[cur_size]
    BY <2>3, <2>5, CopyDone
  <2>6. CASE conns'[i] = Empty(client)
    BY <2>2, <2>6 DEF Empty, Pairs
  <2> QED
    BY <2>4, <2>5, <2>6, StandsAfter
<1> QED
  BY <1>3, <1>4, <1>5, <1>6, <1>7, <1>8 DEF Next, Peers, PeerClose, Poll, Callbacks

\* A push into the slot that is read changes what is inside it only by what
\* comes, and a head inside it is one of the requests that are inside.
LEMMA InsideEffect ==
  ASSUME TInv, StoreData \/ StoreSize
  PROVE  Inside(entry)' \subseteq Inside(entry) \cup {Coming} /\ entry' = entry
<1>0. entry \in Index /\ conns \in [Index -> Conn] /\ entry' = entry
  BY DEF TInv, TypeOK, StoreData, StoreSize
<1>1. ASSUME NEW c \in 0 .. Cells - 1 PROVE conns'[entry].data[c].of \in {conns[entry].data[c].of, Coming}
  <2>1. CASE StoreData
    <3>1. NextPart.of = Coming
      BY <2>1, DataEffect, PartType
    <3> QED
      BY <2>1, <3>1, DataEffect
  <2>2. CASE StoreSize
    BY <2>2, SizeEffect
  <2> QED
    BY <2>1, <2>2
<1> QED
  BY <1>0, <1>1 DEF Inside

LEMMA HeadInside ==
  ASSUME NEW i, NEW c \in 0 .. Cells - 1, conns[i].data[c] \in Cell, IsHead(conns[i].data[c])
  PROVE  conns[i].data[c].of \in Inside(i) /\ conns[i].data[c] = Part(conns[i].data[c].of, "head")
<1>1. conns[i].data[c] \in [of : Requests, part : Parts] /\ conns[i].data[c].part = "head"
  BY DEF Cell, NoPart, Part, IsHead
<1>2. conns[i].data[c].of # NoReq
  BY <1>1 DEF Requests, Sessions, NoReq
<1> QED
  BY <1>1, <1>2 DEF Inside, Part

\* Callbacks that do not receive push only what they were pushing.
LEMMA PushesOn ==
  ASSUME Peers \/ Callbacks \/ UNCHANGED vars, ~\E p \in Pcbs : Recv(p), Pushes'
  PROVE  Pushes /\ Coming' = Coming /\ entry' = entry
<1>1. CASE Load \/ StoreData \/ StoreSize
  BY <1>1 DEF Load, StoreData, StoreSize, Runs, lwip, Coming, Pushes
<1>2. CASE UNCHANGED vars
  BY <1>2 DEF vars, lwip, tcpip, Coming, Pushes
<1>3. CASE (\E p \in Pcbs : Accept(p) \/ Result(p) \/ Err(p)) \/ FillEntry \/ CountEntry \/ Notify \/ CopyCell \/ CopySize
  BY <1>3 DEF Accept, Result, Err, Callback, Runs, FillEntry, CountEntry, Notify, CopyCell, CopySize,
     Goes, Returns, tcpip, Pushes
<1> QED
  BY <1>1, <1>2, <1>3 DEF Peers, PeerClose, Poll, Callbacks

LEMMA ReadableCallback ==
  ASSUME IInv, RInv, MInv, Peers \/ Callbacks \/ UNCHANGED vars
  PROVE  Readable'
<1>0. /\ conns \in [Index -> Conn] /\ TInv /\ Half /\ [Next]_vars /\ span \in Index
      /\ 0 \in 0 .. Cells - 1 /\ 1 \in 0 .. Cells - 1
  BY DEF IInv, TInv, TypeOK, Next
<1>1. UNCHANGED <<pc, span, len, req>> /\ ~Clear
  BY CallbackKeeps DEF task, locals, Clear, Step, From
<1> SUFFICES ASSUME ~everMoved'
             PROVE  /\ ~moved'
                    /\ Serves => Torn(span)'
                    /\ pc \in {"clear", "head", "tail"} /\ len > 1 => Match(span)'
                    /\ pc = "tail" => len > 1 /\ (req \in torn' \/ conns'[span].data[0] = Part(req, "head"))
  BY <1>1 DEF Readable, Serves
<1>2. ~everMoved /\ torn \subseteq torn'
  BY <1>0, Growing
<1>3. ~moved
  BY <1>2 DEF MInv, Readable
<1>4. ~moved'
  <2>1. ASSUME NEW i \in Index, Pop(i) PROVE ~moved'
    BY <1>2, <1>3, <2>1, Zenon DEF Pop
  <2> QED
    BY <1>3, <2>1, CallbackKeeps
<1>5. CASE ~Serves
  BY <1>4, <1>5 DEF Serves
<1>6. CASE Serves
  <2>i. PICK i \in Index : i = span
    BY <1>0
  <2>1. Stands(i) /\ Torn(i)
    BY <1>2, <1>3, <1>6, <2>i DEF RInv, InPlace, MInv, Readable, Stands
  <2>2. conns'[i] = conns[i] \/ ((StoreData \/ StoreSize) /\ i = entry)
    BY <1>0, <1>1, <2>1, ConnStep
  <2>3. Reading(i)' <=> Reading(i)
    BY <1>1 DEF Reading
  <2>4. ASSUME StoreData \/ StoreSize, i = entry, Reading(i)
        PROVE  Coming \in torn /\ Inside(i) \subseteq torn /\ Inside(i)' \subseteq torn'
    <3>1. Pushing(i)
      BY <2>4 DEF StoreData, StoreSize, Runs, Pushing
    <3>2. Coming \in torn /\ Inside(i) \subseteq torn
      BY <2>1, <2>4, <3>1 DEF Torn
    <3>3. PICK e \in Index : e = i /\ Inside(e)' \subseteq Inside(e) \cup {Coming}
      <4>1. entry' = entry /\ Inside(entry)' \subseteq Inside(entry) \cup {Coming}
        BY <1>0, <2>4, InsideEffect
      <4> QED
        BY <2>4, <4>1 DEF Inside
    <3> QED
      BY <1>2, <3>2, <3>3
  <2>5. Torn(i)'
    <3> SUFFICES ASSUME Reading(i)', Pushing(i)' PROVE Coming' \in torn' /\ Inside(i)' \subseteq torn'
      BY DEF Torn
    <3>1. CASE \E p \in Pcbs : Recv(p)
      <4>1. PICK p \in Pcbs : Recv(p)
        BY <3>1
      <4>2. First(i, p) /\ entry' = i /\ client' = p /\ sent' = [sent EXCEPT ![owner[p]] = @ + 1] /\ owner' = owner
            /\ torn' = torn \cup Inside(i) \cup {<<owner[p], sent[owner[p]] + 1>>} /\ conns' = conns
        <5>1. cpc' # "notify" /\ entry' = i
          BY DEF Pushing
        <5>2. PICK j \in Index : First(j, p) /\ entry' = j
                /\ torn' = IF Reading(j) THEN torn \cup Inside(j) \cup {<<owner[p], sent[owner[p]] + 1>>} ELSE torn
          BY <4>1, <5>1 DEF Recv
        <5>3. i = j /\ Reading(j)
          BY <2>3, <5>1, <5>2
        <5> QED
          BY <4>1, <5>2, <5>3 DEF Recv, list
      <4>3. Coming' = <<owner[p], sent[owner[p]] + 1>>
        <5>1. owner[p] \in Sessions /\ sent \in [Sessions -> 0 .. Window]
          BY <1>0, <4>1 DEF Recv, Callback, TInv, TypeOK, Sessions
        <5> QED
          BY <4>2, <5>1 DEF Coming
      <4>4. Inside(i)' = Inside(i)
        BY <4>2 DEF Inside
      <4> QED
        BY <4>2, <4>3, <4>4
    <3>2. CASE ~\E p \in Pcbs : Recv(p)
      <4>1. Pushes /\ Coming' = Coming /\ entry' = entry
        BY <3>2, PushesOn DEF Pushing, Pushes
      <4>2. Pushing(i)
        BY <4>1 DEF Pushing, Pushes
      <4>3. Coming \in torn /\ Inside(i) \subseteq torn
        BY <2>1, <2>3, <4>2 DEF Torn
      <4>4. CASE conns'[i] = conns[i]
        BY <1>2, <4>1, <4>3, <4>4 DEF Inside
      <4>5. CASE (StoreData \/ StoreSize) /\ i = entry
        BY <1>2, <2>3, <2>4, <4>1, <4>5
      <4> QED
        BY <2>2, <4>4, <4>5
    <3> QED
      BY <3>1, <3>2
  <2>6. ASSUME pc \in {"clear", "head", "tail"}, len > 1 PROVE Match(i)'
    <3>1. Match(i) /\ conns[i].data[0] \in Cell /\ conns[i].data[1] \in Cell
      BY <1>0, <1>2, <2>6, <2>i DEF MInv, Readable, Conn
    <3>2. CASE conns'[i] = conns[i]
      BY <1>2, <3>1, <3>2 DEF Match, Follows
    <3>3. CASE (StoreData \/ StoreSize) /\ i = entry
      <4>1. Inside(i)' \subseteq torn'
        BY <2>4, <2>6, <2>i, <3>3 DEF Reading
      <4>2. conns'[i].data[0] \in Cell
        <5>1. TInv'
          BY <1>0, CallbackType, <3>3 DEF Callbacks
        <5>2. conns' \in [Index -> Conn]
          BY <5>1 DEF TInv, TypeOK
        <5>3. conns'[i] \in Conn
          BY <5>2
        <5> QED
          BY <1>0, <5>3 DEF Conn
      <4>3. IsHead(conns'[i].data[0]) => conns'[i].data[0].of \in Inside(i)'
        <5>1. ASSUME IsHead(conns'[i].data[0]) PROVE conns'[i].data[0].of \in Inside(i)'
          <6>1. conns'[i].data[0].of # NoReq
            BY <4>2, <5>1 DEF Cell, NoPart, Part, IsHead, Requests, Sessions, NoReq
          <6> QED
            BY <1>0, <6>1 DEF Inside
        <5> QED
          BY <5>1
      <4> QED
        BY <4>1, <4>3 DEF Match, Follows
    <3> QED
      BY <2>2, <3>2, <3>3
  <2>7. ASSUME pc = "tail" PROVE len > 1 /\ (req \in torn' \/ conns'[i].data[0] = Part(req, "head"))
    <3>1. len > 1 /\ (req \in torn \/ conns[i].data[0] = Part(req, "head"))
      BY <1>2, <2>7, <2>i DEF MInv, Readable
    <3>2. CASE conns'[i] = conns[i]
      BY <1>2, <3>1, <3>2
    <3>3. CASE (StoreData \/ StoreSize) /\ i = entry
      <4>1. Inside(i) \subseteq torn
        BY <2>4, <2>7, <2>i, <3>3 DEF Reading
      <4>2. conns[i].data[0] = Part(req, "head") => req \in Inside(i)
        <5>1. conns[i].data[0] \in Cell
          BY <1>0 DEF Conn
        <5> QED
          BY <1>0, <5>1, HeadInside DEF IsHead, Part
      <4> QED
        BY <1>2, <3>1, <4>1, <4>2
    <3> QED
      BY <2>2, <3>2, <3>3
  <2>8. Torn(span)' /\ (pc \in {"clear", "head", "tail"} /\ len > 1 => Match(span)')
    BY <1>1, <2>5, <2>6, <2>i DEF Torn, Match, Reading, Pushing, Inside
  <2> QED
    BY <1>4, <2>7, <2>8, <2>i
<1> QED
  BY <1>5, <1>6

LEMMA ReadableServer ==
  ASSUME IInv, RInv, MInv, Server
  PROVE  Readable'
<1>0. /\ conns \in [Index -> Conn] /\ TInv /\ Half /\ [Next]_vars /\ span \in Index /\ idx \in 0 .. Slots
      /\ cur_size \in 0 .. Slots /\ 0 \in 0 .. Cells - 1 /\ 1 \in 0 .. Cells - 1
  BY DEF IInv, TInv, TypeOK, Next
<1>1. UNCHANGED <<cpc, client, entry, old, owner, sent, cur_size>> /\ Coming' = Coming
  BY ServerLeaves DEF tcpip, lwip, Coming
<1>2. torn \subseteq torn' /\ (~everMoved' => ~everMoved)
  BY <1>0, Growing
<1>3. CASE StartRead \/ ScanMiss \/ Arm \/ Take \/ Timeout
  <2>1. pc' \in {"scan", "take"} /\ moved' = moved
    BY <1>3 DEF StartRead, ScanMiss, Arm, Take, Timeout, Wake, Step, ghosts
  <2> QED
    BY <1>2, <2>1 DEF Readable, MInv, Serves
<1>4. CASE ScanHit
  <2>1. /\ pc' = "span" /\ span' = At(idx) /\ conns' = conns /\ (moved' => everMoved')
        /\ torn' = IF Pushing(At(idx)) THEN torn \cup Inside(At(idx)) \cup {Coming} ELSE torn
    <3>1. pc' = "span" /\ span' = At(idx) /\ conns' = conns
          /\ torn' = IF Pushing(At(idx)) THEN torn \cup Inside(At(idx)) \cup {Coming} ELSE torn
      BY <1>4 DEF ScanHit, Step, list
    <3>2. moved' => everMoved'
      BY <1>4, Zenon DEF ScanHit
    <3> QED
      BY <3>1, <3>2
  <2>2. Pushing(span)' <=> Pushing(At(idx))
    BY <1>1, <2>1 DEF Pushing
  <2>3. Inside(span)' = Inside(At(idx))
    BY <2>1 DEF Inside
  <2> QED
    BY <1>1, <2>1, <2>2, <2>3 DEF Readable, Torn
<1>5. CASE Span
  <2>1. pc = "span" /\ pc' = "clear" /\ span' = At(idx) /\ len' = conns[At(idx)].size /\ conns' = conns
        /\ UNCHANGED <<moved, everMoved, torn>>
    BY <1>5 DEF Span, Step, From, list, ghosts
  <2> SUFFICES ASSUME ~everMoved PROVE ~moved /\ Torn(span)' /\ (len' > 1 => Match(span)')
    BY <2>1 DEF Readable, Serves
  <2>2. ~moved /\ Torn(span)
    BY <2>1 DEF MInv, Readable, Serves
  <2>3. At(idx) = span /\ Stands(span)
    BY <1>0, <2>1, <2>2 DEF RInv, InPlace, Serves, At, Stands
  <2>4. Torn(span)'
    BY <1>1, <2>1, <2>2, <2>3 DEF Torn, Reading, Pushing, Inside
  <2>5. ASSUME len' > 1 PROVE Match(span)
    <3>1. Pairs(span) /\ Wide(span)
      BY <1>0, <2>1, <2>3, <2>5 DEF MInv, Wide
    <3>2. CASE Match(span)
      BY <3>2
    <3>3. CASE Pushing(span)
      <4>1. Inside(span) \subseteq torn
        BY <2>1, <2>2, <3>3 DEF Torn, Reading
      <4>2. conns[span].data[0] \in Cell
        BY <1>0 DEF Conn
      <4> QED
        BY <1>0, <4>1, <4>2, HeadInside DEF Match, Follows
    <3> QED
      BY <3>1, <3>2, <3>3 DEF Pairs
  <2> QED
    BY <2>1, <2>2, <2>3, <2>4, <2>5 DEF Match
<1>6. CASE Clear
  <2>1. pc = "clear" /\ pc' = "head" /\ UNCHANGED <<span, len, moved, everMoved, torn>>
    BY <1>6 DEF Clear, Step, From, locals, ghosts
  <2>2. conns'[span].data = conns[span].data
    BY <1>0, <1>6, ClearEffect
  <2>3. Inside(span)' = Inside(span) /\ (Match(span)' <=> Match(span))
    BY <2>1, <2>2 DEF Inside, Match
  <2> QED
    BY <1>1, <2>1, <2>3 DEF MInv, Readable, Serves, Torn, Reading, Pushing
<1>7. CASE ServeHead
  <2>1. CASE len > 1 /\ IsHead(conns[span].data[0])
    <3>1. /\ pc = "head" /\ pc' = "tail" /\ req' = conns[span].data[0].of /\ conns' = conns
          /\ UNCHANGED <<span, len, moved, everMoved, torn>>
      BY <1>7, <2>1 DEF ServeHead, From, list, ghosts
    <3>2. conns[span].data[0] = Part(conns[span].data[0].of, "head")
      <4>1. conns[span].data[0] \in Cell
        BY <1>0 DEF Conn
      <4> QED
        BY <1>0, <2>1, <4>1, HeadInside
    <3>3. conns'[span'].data[0] = Part(req', "head") /\ Inside(span)' = Inside(span) /\ (Match(span)' <=> Match(span))
      BY <3>1, <3>2 DEF Inside, Match
    <3> QED
      BY <1>1, <2>1, <3>1, <3>3 DEF MInv, Readable, Serves, Torn, Reading, Pushing
  <2>2. CASE ~(len > 1 /\ IsHead(conns[span].data[0]))
    BY <1>7, <2>2 DEF ServeHead, Ends, Readable, Serves
  <2> QED
    BY <2>1, <2>2
<1>8. CASE ServeTail
  <2>1. CASE pc' = "write"
    <3>1. pc = "tail" /\ UNCHANGED <<moved, everMoved>>
      BY <1>8, <2>1 DEF ServeTail, From, Ends, ghosts
    <3> QED
      BY <2>1, <3>1 DEF MInv, Readable, Torn, Reading
  <2>2. CASE pc' # "write"
    BY <1>8, <2>2 DEF ServeTail, Ends, Readable, Serves
  <2> QED
    BY <2>1, <2>2
<1>9. CASE Nothing \/ WriteBytes
  BY <1>9 DEF Nothing, WriteBytes, Ends, Readable, Serves
<1> QED
  BY <1>3, <1>4, <1>5, <1>6, <1>7, <1>8, <1>9 DEF Server

LEMMA InventedStep ==
  ASSUME IInv, MInv, [Next]_vars
  PROVE  NothingInvented'
<1>0. TInv /\ conns \in [Index -> Conn] /\ span \in Index /\ 0 \in 0 .. Cells - 1 /\ 1 \in 0 .. Cells - 1
  BY DEF IInv, TInv, TypeOK
<1>1. torn \subseteq torn' /\ (everMoved => everMoved')
  BY Growing
<1>2. CASE mixed' = mixed
  BY <1>1, <1>2 DEF MInv, NothingInvented
<1>3. CASE ServeTail /\ mixed' # mixed
  <2> DEFINE tail == conns[span].data[1]
             head == conns[span].data[0]
  <2>1. pc = "tail" /\ ~(IsHead(tail) \/ tail = NoPart) /\ mixed' = mixed \cup ({req} \ {tail.of})
    BY <1>3 DEF ServeTail, From
  <2>2. ASSUME ~everMoved, req # tail.of PROVE req \in torn
    <3>1. Follows(head, tail, torn) /\ (req \in torn \/ head = Part(req, "head"))
      BY <2>1, <2>2 DEF MInv, Readable, Match
    <3> HIDE DEF head, tail
    <3> QED
      BY <2>1, <2>2, <3>1 DEF Follows, IsHead, Part
  <2> QED
    BY <1>1, <2>1, <2>2 DEF MInv, NothingInvented
<1>4. CASE ~ServeTail
  <2>1. mixed' = mixed
    <3>1. CASE Server
      BY <1>4, <3>1 DEF Server, StartRead, ScanHit, ScanMiss, Span, Clear, Arm, Take, Timeout, Wake, Nothing, ServeHead,
         WriteBytes, work
    <3>2. CASE Peers \/ Callbacks \/ UNCHANGED vars
      BY <3>2, CallbackKeeps DEF task, work
    <3> QED
      BY <3>1, <3>2 DEF Next
  <2> QED
    BY <1>2, <2>1
<1> QED
  BY <1>2, <1>3, <1>4

LEMMA Tearing == Spec => []MInv
<1>1. Init => MInv
  BY DEF Init, MInv, Pushed, Pushes, Readable, Serves, NothingInvented, Stands, Index
<1>2. IInv /\ RInv /\ MInv /\ [Next]_vars => MInv'
  <2> SUFFICES ASSUME IInv, RInv, MInv, [Next]_vars PROVE MInv'
    OBVIOUS
  <2>1. Readable'
    BY ReadableCallback, ReadableServer DEF Next
  <2>2. Pushed'
    BY PushedStep DEF IInv, MInv
  <2>3. ASSUME NEW i \in Index, Stands(i)' PROVE Pairs(i)'
    BY <2>3, PairsStep DEF IInv, MInv
  <2> QED
    BY <2>1, <2>2, <2>3, InventedStep DEF MInv
<1> QED
  BY <1>1, <1>2, Accounting, Routing, PTL DEF Spec

\* The head of a request is executed with the tail of another one only if it
\* came while its buffer was read or was read while it came, or its slot had
\* been removed or refilled.
THEOREM OnlyWhatCame == Spec => []NothingInvented
<1>1. MInv => NothingInvented
  BY DEF MInv
<1> QED
  BY <1>1, Tearing, PTL

-----------------------------------------------------------------------------
(* Single execution, for clients that wait for their answers.  Until a     *)
(* slot moves in hand or a session is reset, an entry with bytes is of a   *)
(* session whose last request is neither executed nor answered, and two    *)
(* parts in it are the head and the tail of that request.  The task's slot *)
(* is empty when it serves, and no second request comes into it.           *)

Mine(i)    == owner[conns[i].client_socket]
LastOf(i)  == <<Mine(i), sent[Mine(i)]>>
Owed(i)    == answered[Mine(i)] # sent[Mine(i)]
Waiting(i) == Owed(i) /\ LastOf(i) \notin executed \cup mixed
Late(i)    == Pushing(i) /\ cpc = "data" /\ pos = 1 /\ old = 1
Tail(i)    == conns[i].data[1] = Part(LastOf(i), "tail")

Held(i) ==
  /\ conns[i].size > 0 => Waiting(i)
  /\ conns[i].size > 1 => conns[i].data[0] = Part(LastOf(i), "head") /\ (Tail(i) \/ Late(i))
Arrives ==
  /\ ~Pushes => old = 0
  /\ Pushes =>
       /\ Waiting(entry) \/ (cpc = "data" /\ pos = 1)
       /\ pos = 0 => old = 0
       /\ cpc = "load" /\ pos = 0 => conns[entry].size = 0
       /\ old \in {0, 1}
       /\ conns[entry].size <= 1 \/ Late(entry)
InService ==
  /\ pc \in {"span", "clear"} => conns[span].size > 0
  /\ pc = "clear" /\ len > 1 => conns[span].size > 1 /\ (Tail(span) \/ LastOf(span) \in torn)
  /\ pc \in {"head", "tail"} /\ len > 1 =>
       /\ Waiting(span) /\ conns[span].data[0] = Part(LastOf(span), "head")
       /\ Tail(span) \/ LastOf(span) \in torn
  /\ pc \in {"tail", "write"} => len > 1 /\ req = LastOf(span)
  /\ pc = "write" => Owed(span)
  /\ pc \in {"head", "tail", "write"} /\ len > 1 => conns[span].size = 0 /\ (Pushing(span) => Late(span))
Once ==
  /\ \A r \in executed \cup mixed : r[2] <= sent[r[1]]
  /\ \A s \in Sessions : answered[s] \in {sent[s] - 1, sent[s]}
  /\ \A i \in Index : Stands(i) => Held(i)
  /\ Arrives /\ InService
OnceInv == ~everMoved /\ resets = {} => Once

\* An entry that stands keeps its session.
LEMMA OwnStep ==
  ASSUME IInv, RInv, [Next]_vars, resets' = {}, NEW i \in Index, Stands(i)
  PROVE  /\ resets = {} /\ conns[i].client_socket \in Pcbs /\ Mine(i) \in Sessions
         /\ owner'[conns[i].client_socket] = Mine(i)
<1>0. owner \in [Pcbs -> 0 .. MaxSessions] /\ nsess \in Nat
  BY DEF IInv, TInv, TypeOK
<1>1. resets = {} /\ ~\E q \in Pcbs : Err(q) /\ resets' = resets \cup {owner[q]}
  BY OwnerStep
<1>2. conns[i].client_socket \in Pcbs /\ Alone(i) /\ (Busy => conns[i].client_socket # client)
  BY <1>1 DEF RInv, Distinct, Entries, Entry
<1> DEFINE p == conns[i].client_socket
<1>3. p \in Pcbs /\ owner[p] # 0 /\ owner[p] \in Sessions
  BY <1>0, <1>2 DEF Alone, Sessions
<1>4. CopySize => p # client
  BY <1>2 DEF CopySize, Runs, Busy
<1> HIDE DEF p
<1>5. ASSUME UNCHANGED owner PROVE owner'[p] = owner[p]
  BY <1>5
<1>6. ASSUME NEW q \in Pcbs, owner[q] = 0, owner' = [owner EXCEPT ![q] = nsess + 1] PROVE owner'[p] = owner[p]
  BY <1>0, <1>3, <1>6
<1>7. ASSUME CopySize, owner' = [owner EXCEPT ![client] = 0] PROVE owner'[p] = owner[p]
  BY <1>0, <1>3, <1>4, <1>7
<1>8. owner'[p] = owner[p]
  BY <1>1, <1>5, <1>6, <1>7, OwnerStep
<1> QED
  BY <1>1, <1>3, <1>8 DEF p, Mine

\* No two entries that stand are of one session.
LEMMA Apart ==
  ASSUME IInv, RInv, resets = {}, NEW i \in Index, NEW j \in Index, Stands(i), Stands(j), i # j
  PROVE  Mine(i) # Mine(j)
<1>1. /\ conns[i].client_socket \in Pcbs /\ conns[j].client_socket \in Pcbs
      /\ owner[conns[i].client_socket] # 0 /\ owner[conns[j].client_socket] # 0
      /\ conns[i].client_socket # conns[j].client_socket
  BY DEF RInv, Distinct, Entries, Entry, Alone
<1> QED
  BY <1>1 DEF IInv, Fresh, Open, Mine

\* What an entry is held to depends on itself and its session.
LEMMA HeldSame ==
  ASSUME NEW i, NEW j, Held(j), conns'[i] = conns[j], Mine(i)' = Mine(j), LastOf(i)' = LastOf(j),
         Owed(i)' = Owed(j), LastOf(j) \in (executed \cup mixed)' => LastOf(j) \in executed \cup mixed,
         Late(j) => Late(i)'
  PROVE  Held(i)'
<1>1. Waiting(j) => Waiting(i)'
  BY DEF Waiting
<1>2. Tail(j) => Tail(i)'
  BY DEF Tail, Part
<1>3. Part(LastOf(j), "head") = Part(LastOf(i)', "head")
  OBVIOUS
<1> QED
  BY <1>1, <1>2, <1>3 DEF Held

\* What the task has in service depends on its slot and that slot's session.
LEMMA ServiceSame ==
  ASSUME InService, UNCHANGED <<pc, span, len, req>>, torn \subseteq torn',
         Serves => /\ LastOf(span)' = LastOf(span) /\ Owed(span)' = Owed(span)
                   /\ UNCHANGED <<executed, mixed>>
                   /\ pc \in {"span", "clear"} => conns'[span].size >= conns[span].size /\ conns[span].size \in Int
                   /\ pc \in {"clear", "head", "tail", "write"} /\ len > 1 =>
                        /\ conns'[span].data[0] = conns[span].data[0] /\ (Tail(span) => Tail(span)')
                        /\ pc # "clear" => conns'[span].size = conns[span].size
                        /\ Pushing(span)' => Pushing(span) /\ (Late(span) => Late(span)')
         , conns'[span].size \in Int
  PROVE  InService'
<1>1. CASE ~Serves
  BY <1>1 DEF InService, Serves
<1>2. CASE pc = "span"
  BY <1>2 DEF InService, Serves
<1>3. CASE pc = "clear"
  BY <1>3 DEF InService, Serves
<1>4. CASE pc \in {"head", "tail", "write"}
  <2>1. CASE len > 1
    <3>1. Waiting(span) => Waiting(span)'
      BY <1>4 DEF Waiting, Serves
    <3>2. Part(LastOf(span), "head") = Part(LastOf(span)', "head")
      BY <1>4 DEF Serves
    <3>3. /\ LastOf(span)' = LastOf(span) /\ Owed(span)' = Owed(span) /\ conns'[span].data[0] = conns[span].data[0]
          /\ (Tail(span) => Tail(span)') /\ conns'[span].size = conns[span].size
          /\ Pushing(span)' => Pushing(span) /\ (Late(span) => Late(span)')
      BY <1>4, <2>1 DEF Serves
    <3> QED
      BY <1>4, <2>1, <3>1, <3>2, <3>3 DEF InService
  <2>2. CASE ~(len > 1)
    BY <1>4, <2>2 DEF InService
  <2> QED
    BY <2>1, <2>2
<1> QED
  BY <1>1, <1>2, <1>3, <1>4 DEF Serves

\* The slot in service stands.
LEMMA ServedStands ==
  ASSUME RInv, MInv, ~everMoved, Serves
  PROVE  span = idx /\ span < cur_size /\ ~BeingWritten(span) /\ Stands(span)
BY DEF RInv, MInv, Readable, InPlace, Serves, Stands

\* What a recv callback fills stands, and what comes is of its session.
LEMMA TargetStands ==
  ASSUME IInv, RInv, Pushes
  PROVE  /\ Stands(entry) /\ entry \in Index /\ LastOf(entry) = Coming /\ Mine(entry) = owner[client]
         /\ client \in Pcbs /\ Coming \in Requests
<1>1. Stands(entry) /\ entry \in Index /\ conns[entry].client_socket = client
  BY DEF RInv, Target, Stands, BeingWritten, Pushes, IInv, TInv, TypeOK
<1> QED
  BY <1>1, PartType DEF LastOf, Mine, Coming, IInv, TInv, CbInv, Pushes

\* Steps of callbacks that receive nothing.
Others == \/ \E p \in Pcbs : Accept(p) \/ Result(p) \/ Err(p)
          \/ FillEntry \/ CountEntry \/ Notify \/ CopyCell \/ CopySize \/ UNCHANGED vars

LEMMA OthersLeave ==
  ASSUME Others
  PROVE  /\ UNCHANGED <<sent, task>> /\ (Pushes => UNCHANGED vars)
         /\ (Pushes' => UNCHANGED vars) /\ (old' = old \/ (~Pushes' /\ old' = 0))
         /\ (~StoreData /\ ~StoreSize /\ ~Clear) \/ UNCHANGED vars
<1>1. ASSUME NEW p \in Pcbs, Accept(p) \/ Result(p) \/ Err(p)
      PROVE  UNCHANGED <<sent, task, old>> /\ cpc = "idle" /\ cpc' \in {"idle", "accept", "copy"}
  BY <1>1 DEF Accept, Result, Err, Callback, Runs, tcpip
<1>2. CASE FillEntry \/ CountEntry
  BY <1>2 DEF FillEntry, CountEntry, Runs, Goes, Returns, lwip, Pushes, StoreData, StoreSize, Clear, Step, From, task, locals
<1>3. CASE Notify \/ CopyCell \/ CopySize
  BY <1>3 DEF Notify, CopyCell, CopySize, Runs, Returns, lwip, Pushes, StoreData, StoreSize, Clear, Step, From, task, locals
<1>4. CASE UNCHANGED vars
  BY <1>4 DEF vars, lwip, tcpip, task, Pushes
<1> QED
  BY <1>1, <1>2, <1>3, <1>4 DEF Others, Pushes, StoreData, StoreSize, Clear, Runs, Step, From, task, locals

LEMMA OnceOthers ==
  ASSUME IInv, RInv, MInv, Once, Others, ~everMoved, ~everMoved', resets' = {}
  PROVE  Once'
<1>0. /\ TInv /\ Half /\ [Next]_vars /\ conns \in [Index -> Conn] /\ span \in Index
      /\ \A i \in Index : conns[i].size \in Int
  BY DEF IInv, TInv, TypeOK, Conn, Others, Next, Peers, PeerClose, Poll, Callbacks
<1>1. UNCHANGED <<sent, pc, span, len, req, executed, mixed, answered>>
  BY OthersLeave DEF task, locals, work
<1>2. CASE UNCHANGED vars
  BY <1>2 DEF Once, Arrives, InService, Held, Waiting, LastOf, Owed, Mine, Tail, Late, Stands, BeingWritten,
     Pushing, Pushes, vars, lwip, list, tcpip, task, locals, work, ghosts
<1>3. CASE ~UNCHANGED vars
  <2>1. ~Pushes /\ ~Pushes' /\ (old' = old \/ old' = 0) /\ ~StoreData /\ ~StoreSize /\ ~Clear
    BY <1>3, OthersLeave
  <2>2. Arrives'
    BY <2>1 DEF Once, Arrives
  <2>3. ASSUME NEW i \in Index, NEW j \in Index, Stands(j), conns'[i] = conns[j]
        PROVE  Mine(i)' = Mine(j) /\ LastOf(i)' = LastOf(j) /\ Owed(i)' = Owed(j) /\ ~Late(j)
    <3>1. owner'[conns[j].client_socket] = Mine(j)
      BY <1>0, <2>3, OwnStep
    <3>2. Mine(i)' = Mine(j)
      BY <2>3, <3>1 DEF Mine
    <3>3. ~Late(j)
      BY <2>1 DEF Late, Pushing, Pushes
    <3> QED
      BY <1>1, <3>2, <3>3 DEF LastOf, Owed
  <2>4. ASSUME NEW i \in Index, Stands(i)' PROVE Held(i)'
    <3>1. ASSUME NEW j \in Index, Stands(j), conns'[i] = conns[j] PROVE Held(i)'
      BY <1>1, <2>3, <3>1, HeldSame DEF Once
    <3>2. CASE Stands(i)
      BY <1>0, <2>1, <3>1, <3>2, ConnStep
    <3>3. CASE CopySize /\ Stands(cur_size) /\ conns'[i] = conns[cur_size]
      BY <1>0, <3>1, <3>3, CopyDone
    <3>4. CASE conns'[i] = Empty(client)
      BY <3>4 DEF Held, Empty
    <3> QED
      BY <1>0, <2>4, <3>2, <3>3, <3>4, StandsAfter
  <2>5. InService'
    <3>1. ASSUME Serves
          PROVE  /\ conns'[span] = conns[span] /\ LastOf(span)' = LastOf(span) /\ Owed(span)' = Owed(span)
                 /\ ~Pushing(span)' /\ ~Late(span) /\ (Tail(span) => Tail(span)')
      <4>1. PICK j \in Index : j = span /\ Stands(j)
        BY <1>0, <3>1, ServedStands
      <4>2. conns'[j] = conns[j]
        BY <1>0, <2>1, <4>1, ConnStep
      <4>3. LastOf(j)' = LastOf(j) /\ Owed(j)' = Owed(j) /\ ~Late(j)
        BY <2>3, <4>1, <4>2
      <4>4. LastOf(span)' = LastOf(span) /\ Owed(span)' = Owed(span)
        BY <1>1, <4>1, <4>3 DEF LastOf, Owed, Mine
      <4> QED
        BY <1>1, <2>1, <4>1, <4>2, <4>3, <4>4 DEF Pushing, Pushes, Tail
    <3>2. CASE Serves
      <4>1. conns'[span].size \in Int
        BY <1>0, <3>1, <3>2
      <4> QED
        BY <1>0, <1>1, <3>1, <3>2, <4>1, ServiceSame, Growing DEF Once
    <3>3. CASE ~Serves
      BY <1>1, <3>3 DEF InService, Serves
    <3> QED
      BY <3>2, <3>3
  <2> QED
    BY <1>1, <2>2, <2>4, <2>5 DEF Once
<1> QED
  BY <1>2, <1>3

LEMMA OnceRecv ==
  ASSUME IInv, RInv, MInv, Once, ~Pipelined, NEW p \in Pcbs, Recv(p), ~everMoved, ~everMoved', resets' = {}
  PROVE  Once'
<1> DEFINE s == owner[p]
<1>0. /\ TInv /\ Half /\ [Next]_vars /\ conns \in [Index -> Conn] /\ span \in Index
      /\ sent \in [Sessions -> 0 .. Window] /\ answered \in [Sessions -> 0 .. Window]
      /\ executed \cup mixed \subseteq Requests /\ \A i \in Index : conns[i].size \in Nat
  BY DEF IInv, TInv, TypeOK, Conn, Next, Peers
<1>1. /\ s \in Sessions /\ answered[s] = sent[s] /\ sent' = [sent EXCEPT ![s] = @ + 1] /\ client' = p
      /\ UNCHANGED <<owner, conns, cur_size, pos, old, pc, span, len, req, executed, mixed, answered, resets>>
      /\ cpc = "idle" /\ cpc' \in {"load", "notify"} /\ pos = 0
  BY <1>0 DEF Recv, Callback, MaySend, list, task, locals, work, TInv, TypeOK, CbInv, Sessions
<1> HIDE DEF s
<1>2. sent'[s] = sent[s] + 1 /\ \A r \in Sessions : r # s => sent'[r] = sent[r]
  BY <1>0, <1>1
<1>3. ASSUME NEW r \in executed \cup mixed PROVE r[2] <= sent'[r[1]] /\ r # <<s, sent[s] + 1>>
  <2>1. r[2] <= sent[r[1]] /\ r[1] \in Sessions /\ r[2] \in Int
    BY <1>0 DEF Once, Requests
  <2> QED
    BY <1>0, <1>1, <1>2, <2>1
<1>4. ASSUME NEW t \in Sessions PROVE answered'[t] \in {sent'[t] - 1, sent'[t]}
  BY <1>0, <1>1, <1>2 DEF Once
<1>5. ASSUME NEW i \in Index, Stands(i) PROVE Mine(i) \in Sessions /\ conns[i].client_socket \in Pcbs
  BY <1>0, <1>5, OwnStep
<1>6. ASSUME NEW i \in Index, Mine(i) \in Sessions, Mine(i) # s
      PROVE  LastOf(i)' = LastOf(i) /\ Owed(i)' = Owed(i) /\ Mine(i)' = Mine(i)
  BY <1>1, <1>2, <1>6 DEF LastOf, Owed, Mine
<1>7. ASSUME NEW i \in Index, Stands(i), Mine(i) = s PROVE conns[i].size = 0 /\ ~Owed(i)
  BY <1>0, <1>1, <1>7 DEF Once, Held, Waiting, Owed
<1>8. ASSUME NEW i \in Index, Stands(i)' PROVE Held(i)'
  <2>1. Stands(i)
    BY <1>1, <1>8 DEF Stands, BeingWritten
  <2>2. CASE Mine(i) # s
    <3>1. Held(i) /\ ~Late(i)
      BY <1>1, <2>1 DEF Once, Late
    <3> QED
      BY <1>1, <1>5, <1>6, <2>1, <2>2, <3>1, HeldSame
  <2>3. CASE Mine(i) = s
    BY <1>1, <1>7, <2>1, <2>3 DEF Held
  <2> QED
    BY <2>2, <2>3
<1>9. Arrives'
  <2>1. old = 0
    BY <1>1 DEF Once, Arrives, Pushes
  <2>2. CASE cpc' = "load"
    <3>1. PICK i \in Index : First(i, p) /\ entry' = i
      BY <2>2 DEF Recv
    <3>2. Stands(i) /\ Mine(i) = s /\ conns[i].client_socket = p
      BY <1>1, <3>1 DEF First, Holds, Stands, BeingWritten, Mine, s
    <3>3. conns[i].size = 0
      BY <1>7, <3>2
    <3>4. Waiting(i)'
      <4>1. Mine(i)' = s /\ sent'[s] = sent[s] + 1 /\ answered'[s] = sent[s] /\ sent[s] \in Int
        BY <1>0, <1>1, <1>2, <3>2 DEF Mine, s
      <4>2. LastOf(i)' = <<s, sent[s] + 1>> /\ Owed(i)'
        BY <4>1 DEF LastOf, Owed
      <4>3. <<s, sent[s] + 1>> \notin executed \cup mixed
        BY <1>3
      <4> QED
        BY <1>1, <4>2, <4>3 DEF Waiting
    <3>5. Waiting(entry)' /\ conns'[entry'].size = 0 /\ old' = 0 /\ pos' = 0
      BY <1>1, <2>1, <3>1, <3>3, <3>4 DEF Waiting, LastOf, Owed, Mine
    <3> QED
      BY <2>2, <3>5 DEF Arrives
  <2>3. CASE cpc' = "notify"
    BY <1>1, <2>1, <2>3 DEF Arrives, Pushes
  <2> QED
    BY <1>1, <2>2, <2>3
<1>10. InService'
  <2>1. CASE ~Serves
    BY <1>1, <2>1 DEF InService, Serves
  <2>2. CASE Serves /\ Mine(span) = s
    <3>1. Stands(span)
      BY <2>2, ServedStands
    <3>2. pc = "head" /\ ~(len > 1)
      BY <1>0, <1>7, <2>2, <3>1 DEF Serves, Once, InService, Waiting
    <3> QED
      BY <1>1, <3>2 DEF InService
  <2>3. CASE Serves /\ Mine(span) # s
    <3>1. Stands(span)
      BY <2>3, ServedStands
    <3>2. PICK j \in Index : j = span
      BY <1>0
    <3>3. LastOf(j)' = LastOf(j) /\ Owed(j)' = Owed(j) /\ Mine(j) \in Sessions
      BY <1>5, <1>6, <2>3, <3>1, <3>2
    <3>4. LastOf(span)' = LastOf(span) /\ Owed(span)' = Owed(span)
      BY <1>1, <3>2, <3>3 DEF LastOf, Owed, Mine
    <3>5. ~Pushing(span)'
      <4>1. ASSUME Pushing(span)' PROVE Mine(span) = s
        <5>1. PICK i \in Index : First(i, p) /\ entry' = i
          BY <1>1, <4>1 DEF Recv, Pushing
        <5> QED
          BY <1>1, <4>1, <5>1 DEF First, Holds, Mine, s, Pushing
      <4> QED
        BY <2>3, <4>1
    <3>6. ~Late(span) /\ (Tail(span) => Tail(span)') /\ conns'[span] = conns[span] /\ conns'[span].size \in Int
      BY <1>0, <1>1, <3>4 DEF Late, Tail
    <3> QED
      BY <1>0, <1>1, <3>4, <3>5, <3>6, ServiceSame, Growing DEF Once
  <2> QED
    BY <2>1, <2>2, <2>3
<1> QED
  BY <1>1, <1>3, <1>4, <1>8, <1>9, <1>10 DEF Once

\* A push that nobody disturbs.
LEMMA OnceLoad ==
  ASSUME IInv, RInv, MInv, Once, Load, ~everMoved, ~everMoved', resets' = {}
  PROVE  Once'
<1>0. /\ conns \in [Index -> Conn] /\ span \in Index /\ \A i \in Index : conns[i].size \in Nat
  BY DEF IInv, TInv, TypeOK, Conn
<1>1. /\ UNCHANGED <<owner, sent, answered, executed, mixed, conns, cur_size, client, entry, pc, span, len, req, torn>>
      /\ cpc = "load" /\ Pushes
  BY DEF Load, Runs, lwip, list, task, locals, work, ghosts, Pushes
<1>2. /\ pos \in {0, 1} /\ Stands(entry) /\ entry \in Index /\ Waiting(entry) /\ conns[entry].size <= 1
      /\ (pos = 0 => conns[entry].size = 0)
  BY <1>1, TargetStands DEF Once, Arrives, Late, Pushes, IInv, TInv, CbInv
<1>3. cpc' = "store" /\ old' = conns[entry].size /\ pos' = pos
  BY <1>0, <1>2 DEF Load, Fits
<1>4. ASSUME NEW i \in Index
      PROVE  LastOf(i)' = LastOf(i) /\ Owed(i)' = Owed(i) /\ Mine(i)' = Mine(i) /\ ~Late(i)
  BY <1>1 DEF LastOf, Owed, Mine, Late
<1>5. ASSUME NEW i \in Index, Stands(i)' PROVE Held(i)'
  <2>1. Stands(i) /\ Held(i)
    BY <1>1, <1>3, <1>5 DEF Stands, BeingWritten, Once
  <2> QED
    BY <1>1, <1>4, <2>1, HeldSame
<1>6. Arrives'
  <2>1. Waiting(entry)'
    BY <1>1, <1>2 DEF Waiting, LastOf, Owed, Mine
  <2>2. old' \in {0, 1} /\ (pos' = 0 => old' = 0)
    BY <1>0, <1>2, <1>3
  <2> QED
    BY <1>1, <1>2, <1>3, <2>1, <2>2 DEF Arrives, Pushes
<1>7. InService'
  <2>1. LastOf(span)' = LastOf(span) /\ Owed(span)' = Owed(span) /\ (Tail(span) => Tail(span)') /\ ~Late(span)
    BY <1>1 DEF LastOf, Owed, Mine, Tail, Late
  <2>2. pc \in {"clear", "head", "tail", "write"} /\ len > 1 => ~Pushing(span)'
    <3>1. ASSUME Pushing(span)', pc \in {"clear", "head", "tail", "write"}, len > 1 PROVE FALSE
      <4>1. Pushing(span)
        BY <1>1, <3>1 DEF Pushing
      <4>2. entry = span
        BY <4>1 DEF Pushing
      <4> QED
        BY <1>0, <1>2, <2>1, <3>1, <4>1, <4>2 DEF Once, InService
    <3> QED
      BY <3>1
  <2> QED
    BY <1>0, <1>1, <2>1, <2>2, ServiceSame DEF Once
<1> QED
  BY <1>1, <1>5, <1>6, <1>7 DEF Once

LEMMA OnceStoreData ==
  ASSUME IInv, RInv, MInv, Once, StoreData, ~everMoved, ~everMoved', resets' = {}
  PROVE  Once'
<1>0. /\ TInv /\ conns \in [Index -> Conn] /\ span \in Index /\ \A i \in Index : conns[i].size \in Nat
      /\ 0 \in 0 .. Cells - 1 /\ 1 \in 0 .. Cells - 1
  BY DEF IInv, TInv, TypeOK, Conn
<1>1. /\ UNCHANGED <<owner, sent, answered, executed, mixed, cur_size, client, entry, pc, span, len, req, torn>>
      /\ Pushes /\ cpc \in {"store", "data"} /\ entry \in Index /\ old \in 0 .. Cells - 1
  BY <1>0, DataEffect DEF lwip, task, locals, work, ghosts
<1>2. /\ pos \in {0, 1} /\ Stands(entry) /\ (Waiting(entry) \/ (cpc = "data" /\ pos = 1)) /\ old \in {0, 1}
      /\ (pos = 0 => old = 0) /\ (conns[entry].size <= 1 \/ Late(entry)) /\ LastOf(entry) = Coming
  BY <1>0, <1>1, TargetStands DEF Once, Arrives, TInv, CbInv
<1>3. /\ \A i \in Index : i # entry => conns'[i] = conns[i]
      /\ conns'[entry].client_socket = conns[entry].client_socket /\ conns'[entry].size = conns[entry].size
      /\ conns'[entry].data[old] = NextPart
      /\ \A c \in 0 .. Cells - 1 : c # old => conns'[entry].data[c] = conns[entry].data[c]
      /\ cpc = "store" => cpc' = "size" /\ pos' = pos /\ old' = old
      /\ cpc = "data" => Advance
  BY <1>0, <1>1, DataEffect
<1>4. ASSUME NEW i \in Index
      PROVE  LastOf(i)' = LastOf(i) /\ Owed(i)' = Owed(i) /\ Mine(i)' = Mine(i)
  <2>1. conns'[i].client_socket = conns[i].client_socket
    BY <1>3
  <2> QED
    BY <1>1, <2>1 DEF LastOf, Owed, Mine
<1>5. Late(entry) => conns'[entry].data[0] = conns[entry].data[0] /\ NextPart = Part(LastOf(entry), "tail")
  BY <1>0, <1>2, <1>3 DEF Late, NextPart
<1>6. ~Late(entry) => conns[entry].size <= 1
  BY <1>2
<1>7. ASSUME NEW i \in Index, Stands(i)' PROVE Held(i)'
  <2>1. Stands(i) /\ Held(i)
    BY <1>1, <1>3, <1>7 DEF Stands, BeingWritten, Once, Advance, Pushes
  <2>2. CASE i # entry
    <3>1. ~Late(i)
      BY <2>2 DEF Late, Pushing
    <3> QED
      BY <1>1, <1>3, <1>4, <2>1, <2>2, <3>1, HeldSame
  <2>3. CASE i = entry
    <3>1. conns[i].size > 0 => Waiting(i)'
      BY <1>1, <1>4, <2>1 DEF Held, Waiting
    <3>2. ASSUME conns[i].size > 1 PROVE conns'[i].data[0] = Part(LastOf(i), "head") /\ conns'[i].data[1] = Part(LastOf(i), "tail")
      <4>1. Late(i)
        BY <1>6, <2>3, <3>2, <1>0
      <4>2. old = 1
        BY <4>1 DEF Late
      <4> QED
        BY <1>3, <1>5, <2>1, <2>3, <3>2, <4>1, <4>2 DEF Held
    <3> QED
      BY <1>3, <1>4, <2>3, <3>1, <3>2 DEF Held, Tail
  <2> QED
    BY <2>2, <2>3
<1>8. Arrives'
  <2>1. Waiting(entry) => Waiting(entry)'
    BY <1>1, <1>4 DEF Waiting
  <2>2. CASE cpc = "store"
    <3>1. ~Late(entry)
      BY <2>2 DEF Late
    <3> QED
      BY <1>1, <1>2, <1>3, <1>6, <2>1, <2>2, <3>1 DEF Arrives, Pushes
  <2>3. CASE cpc = "data" /\ pos = 0
    <3>1. ~Late(entry) /\ pos' = 1 /\ old' = 0 /\ cpc' = "load"
      BY <1>3, <2>3 DEF Late, Advance
    <3> QED
      BY <1>1, <1>2, <1>3, <1>6, <2>1, <2>3, <3>1 DEF Arrives, Pushes
  <2>4. CASE cpc = "data" /\ pos = 1
    <3>1. cpc' = "notify" /\ old' = 0
      BY <1>3, <2>4 DEF Advance
    <3> QED
      BY <3>1 DEF Arrives, Pushes
  <2> QED
    BY <1>1, <1>2, <2>2, <2>3, <2>4
<1>9. InService'
  <2>1. LastOf(span)' = LastOf(span) /\ Owed(span)' = Owed(span) /\ conns'[span].size = conns[span].size
    BY <1>0, <1>1, <1>3, <1>4 DEF LastOf, Owed, Mine
  <2>2. CASE span = entry
    <3>1. ASSUME pc \in {"clear", "head", "tail", "write"}, len > 1
          PROVE  /\ Late(span) /\ ~Pushing(span)' /\ conns'[span].data[0] = conns[span].data[0] /\ Tail(span)'
      <4>1. Pushing(span)
        BY <1>1, <2>2 DEF Pushing, Pushes
      <4>2. Late(span)
        BY <1>0, <1>6, <2>2, <3>1, <4>1 DEF Once, InService
      <4>3. cpc' = "notify" /\ old = 1
        BY <1>3, <4>2 DEF Late, Advance
      <4>4. conns'[span].data[1] = Part(LastOf(span), "tail") /\ conns'[span].data[0] = conns[span].data[0]
        BY <1>3, <1>5, <2>2, <4>2, <4>3
      <4>5. Tail(span)'
        BY <1>1, <2>1, <4>4 DEF Tail
      <4> QED
        BY <4>2, <4>3, <4>4, <4>5 DEF Pushing
    <3> QED
      BY <1>0, <1>1, <2>1, <3>1, ServiceSame DEF Once
  <2>3. CASE span # entry
    <3>1. ~Pushing(span)' /\ ~Late(span) /\ conns'[span] = conns[span]
      BY <1>0, <1>1, <1>3, <2>3 DEF Late, Pushing
    <3>2. Tail(span) => Tail(span)'
      BY <1>1, <2>1, <3>1 DEF Tail
    <3> QED
      BY <1>0, <1>1, <2>1, <3>1, <3>2, ServiceSame DEF Once
  <2> QED
    BY <2>2, <2>3
<1> QED
  BY <1>1, <1>7, <1>8, <1>9 DEF Once

LEMMA OnceStoreSize ==
  ASSUME IInv, RInv, MInv, Once, StoreSize, ~everMoved, ~everMoved', resets' = {}
  PROVE  Once'
<1>0. /\ TInv /\ conns \in [Index -> Conn] /\ span \in Index /\ \A i \in Index : conns[i].size \in Nat
      /\ 0 \in 0 .. Cells - 1 /\ 1 \in 0 .. Cells - 1
  BY DEF IInv, TInv, TypeOK, Conn
<1>1. /\ UNCHANGED <<owner, sent, answered, executed, mixed, cur_size, client, entry, pc, span, len, req, torn>>
      /\ Pushes /\ cpc \in {"store", "size"} /\ entry \in Index /\ old \in 0 .. Cells - 1
  BY <1>0, SizeEffect DEF lwip, task, locals, work, ghosts
<1>2. /\ pos \in {0, 1} /\ Stands(entry) /\ Waiting(entry) /\ old \in {0, 1}
      /\ (pos = 0 => old = 0) /\ conns[entry].size <= 1 /\ LastOf(entry) = Coming
  BY <1>0, <1>1, TargetStands DEF Once, Arrives, TInv, CbInv, Late
<1>3. /\ \A i \in Index : i # entry => conns'[i] = conns[i]
      /\ conns'[entry].client_socket = conns[entry].client_socket /\ conns'[entry].size = old + 1
      /\ conns'[entry].data = conns[entry].data
      /\ cpc = "store" => cpc' = "data" /\ pos' = pos /\ old' = old
      /\ cpc = "size" => Advance
  BY <1>0, <1>1, SizeEffect
<1>4. ASSUME NEW i \in Index
      PROVE  LastOf(i)' = LastOf(i) /\ Owed(i)' = Owed(i) /\ Mine(i)' = Mine(i)
  <2>1. conns'[i].client_socket = conns[i].client_socket
    BY <1>3
  <2> QED
    BY <1>1, <2>1 DEF LastOf, Owed, Mine
<1>5. old = 1 => pos = 1 /\ conns[entry].data[0] = Part(LastOf(entry), "head")
  <2>1. ASSUME old = 1, pos = 1 PROVE conns[entry].data[0] = Part(Coming, "head")
    BY <1>1, <2>1 DEF MInv, Pushed
  <2> QED
    BY <1>2, <2>1
<1>6. cpc = "size" /\ old = 1 => conns[entry].data[1] = Part(LastOf(entry), "tail")
  BY <1>1, <1>2, <1>5 DEF MInv, Pushed, NextPart
<1>7. ASSUME NEW i \in Index, Stands(i)' PROVE Held(i)'
  <2>1. Stands(i) /\ Held(i)
    BY <1>1, <1>3, <1>7 DEF Stands, BeingWritten, Once, Advance, Pushes
  <2>2. CASE i # entry
    <3>1. ~Late(i)
      BY <2>2 DEF Late, Pushing
    <3> QED
      BY <1>1, <1>3, <1>4, <2>1, <2>2, <3>1, HeldSame
  <2>3. CASE i = entry
    <3>1. Waiting(i)'
      BY <1>1, <1>2, <1>4, <2>3 DEF Waiting
    <3>2. ASSUME conns'[i].size > 1 PROVE conns'[i].data[0] = Part(LastOf(i)', "head") /\ (Tail(i)' \/ Late(i)')
      <4>1. old = 1 /\ pos = 1
        BY <1>2, <1>3, <1>5, <2>3, <3>2
      <4>2. conns'[i].data[0] = Part(LastOf(i)', "head")
        BY <1>3, <1>4, <1>5, <2>3, <4>1
      <4>3. CASE cpc = "store"
        BY <1>1, <1>3, <2>3, <4>1, <4>2, <4>3 DEF Late, Pushing
      <4>4. CASE cpc = "size"
        BY <1>3, <1>4, <1>6, <2>3, <4>1, <4>2, <4>4 DEF Tail
      <4> QED
        BY <1>1, <4>3, <4>4
    <3> QED
      BY <3>1, <3>2 DEF Held
  <2> QED
    BY <2>2, <2>3
<1>8. Arrives'
  <2>1. Waiting(entry)'
    BY <1>1, <1>2, <1>4 DEF Waiting
  <2>2. CASE cpc = "store"
    <3>1. cpc' = "data" /\ pos' = pos /\ old' = old /\ entry' = entry
      BY <1>1, <1>3, <2>2
    <3>2. conns'[entry].size <= 1 \/ Late(entry)'
      <4>1. CASE old = 0
        BY <1>3, <4>1
      <4>2. CASE old = 1
        BY <1>5, <3>1, <4>2 DEF Late, Pushing
      <4> QED
        BY <1>2, <4>1, <4>2
    <3> QED
      BY <1>1, <1>2, <2>1, <3>1, <3>2 DEF Arrives, Pushes
  <2>3. CASE cpc = "size" /\ pos = 0
    <3>1. pos' = 1 /\ old' = 0 /\ cpc' = "load" /\ conns'[entry].size = 1
      BY <1>2, <1>3, <2>3 DEF Advance
    <3> QED
      BY <1>1, <2>1, <3>1 DEF Arrives, Pushes
  <2>4. CASE cpc = "size" /\ pos = 1
    <3>1. cpc' = "notify" /\ old' = 0
      BY <1>3, <2>4 DEF Advance
    <3> QED
      BY <3>1 DEF Arrives, Pushes
  <2> QED
    BY <1>1, <1>2, <2>2, <2>3, <2>4
<1>9. InService'
  <2>1. LastOf(span)' = LastOf(span) /\ Owed(span)' = Owed(span)
    BY <1>0, <1>1, <1>3, <1>4 DEF LastOf, Owed, Mine
  <2>2. CASE span = entry
    <3>1. ~(pc \in {"clear", "head", "tail", "write"} /\ len > 1)
      <4>1. Pushing(span) /\ ~Late(span)
        BY <1>1, <2>2 DEF Pushing, Pushes, Late
      <4> QED
        BY <1>0, <1>2, <2>2, <4>1 DEF Once, InService
    <3>2. conns'[span].size \in Int /\ conns'[span].size >= conns[span].size /\ conns'[span].data = conns[span].data
      <4>1. conns[entry].size \in {0, old}
        BY <1>1 DEF MInv, Pushed
      <4> QED
        BY <1>0, <1>1, <1>3, <2>2, <4>1
    <3> QED
      BY <1>0, <1>1, <2>1, <3>1, <3>2, ServiceSame DEF Once
  <2>3. CASE span # entry
    <3>1. ~Pushing(span)' /\ ~Late(span) /\ conns'[span] = conns[span]
      BY <1>0, <1>1, <1>3, <2>3 DEF Late, Pushing
    <3>2. Tail(span) => Tail(span)'
      BY <1>1, <2>1, <3>1 DEF Tail
    <3> QED
      BY <1>0, <1>1, <2>1, <3>1, <3>2, ServiceSame DEF Once
  <2> QED
    BY <2>2, <2>3
<1> QED
  BY <1>1, <1>7, <1>8, <1>9 DEF Once

\* The task serves one request of a session at a time.
LEMMA OnceServer ==
  ASSUME IInv, RInv, MInv, Once, Server, ~everMoved, ~everMoved', resets' = {}
  PROVE  Once'
<1>0. /\ TInv /\ conns \in [Index -> Conn] /\ span \in Index /\ entry \in Index /\ req \in Requests \cup {NoReq}
      /\ \A i \in Index : conns[i].size \in Nat
      /\ executed \cup mixed \subseteq Requests /\ answered \in [Sessions -> 0 .. Window]
      /\ sent \in [Sessions -> 0 .. Window] /\ owner \in [Pcbs -> 0 .. MaxSessions]
  BY DEF IInv, TInv, TypeOK, Conn
<1>1. UNCHANGED <<owner, nsess, resets, sent, cur_size, cpc, client, entry, pos, old>> /\ resets = {}
  BY ServerLeaves DEF lwip, tcpip
<1>2. ASSUME NEW i \in Index
      PROVE  /\ LastOf(i)' = LastOf(i) /\ Mine(i)' = Mine(i) /\ (Tail(i)' <=> Tail(i)) /\ (Late(i)' <=> Late(i))
             /\ (Pushing(i)' <=> Pushing(i)) /\ (Stands(i)' <=> Stands(i))
  <2>1. conns'[i].client_socket = conns[i].client_socket /\ conns'[i].data = conns[i].data
    BY <1>0, ServerConns, ClearEffect
  <2> QED
    BY <1>1, <2>1 DEF LastOf, Mine, Tail, Late, Pushing, Stands, BeingWritten, Part
<1>3. ASSUME NEW i \in Index, Stands(i) PROVE Mine(i) \in Sessions /\ conns[i].client_socket \in Pcbs
  <2>1. [Next]_vars
    BY DEF Next
  <2> QED
    BY <1>3, <2>1, OwnStep
<1>4. Pushes => Stands(entry) /\ LastOf(entry) = Coming
  BY TargetStands
\* Nothing but what is in service has to be looked at when nothing is cleared,
\* executed or answered.
<1>5. ASSUME conns' = conns, UNCHANGED <<executed, mixed, answered>>, InService' PROVE Once'
  <2>1. \A i \in Index : Owed(i)' = Owed(i) /\ (Waiting(i) => Waiting(i)')
    BY <1>2, <1>5 DEF Owed, Waiting, LastOf, Mine
  <2>2. ASSUME NEW i \in Index, Stands(i)' PROVE Held(i)'
    BY <1>2, <1>5, <2>1, <2>2, HeldSame DEF Once
  <2>3. Arrives'
    <3>1. Waiting(entry) => Waiting(entry)'
      BY <1>0, <1>1, <1>2, <2>1 DEF Waiting, LastOf, Owed, Mine
    <3>2. Late(entry) => Late(entry)'
      BY <1>1 DEF Late, Pushing
    <3> QED
      BY <1>1, <1>5, <3>1, <3>2 DEF Once, Arrives, Pushes
  <2> QED
    BY <1>1, <1>5, <2>2, <2>3 DEF Once
<1>6. CASE StartRead \/ ScanMiss \/ Arm \/ Take \/ Timeout \/ Nothing
  <2>1. conns' = conns /\ UNCHANGED <<executed, mixed, answered>> /\ pc' \in {"scan", "take", "poll"}
    BY <1>6 DEF StartRead, ScanMiss, Arm, Take, Timeout, Wake, Nothing, Ends, Step, list, work
  <2> QED
    BY <1>5, <2>1 DEF InService
<1>7. CASE ScanHit
  <2>1. /\ conns' = conns /\ UNCHANGED <<executed, mixed, answered>> /\ pc' = "span"
        /\ span' = At(idx) /\ conns[At(idx)].size > 0
    BY <1>7 DEF ScanHit, Step, list, work
  <2> QED
    BY <1>5, <2>1 DEF InService
<1>8. CASE Span
  <2>1. /\ conns' = conns /\ UNCHANGED <<executed, mixed, answered, torn>> /\ pc = "span" /\ pc' = "clear"
        /\ span' = At(idx) /\ len' = conns[At(idx)].size
    BY <1>8 DEF Span, Step, From, list, work, ghosts
  <2>2. Stands(span) /\ At(idx) = span /\ conns[span].size > 0
    BY <2>1, ServedStands DEF Serves, At, Once, InService
  <2>3. ASSUME conns[span].size > 1 PROVE Tail(span) \/ LastOf(span) \in torn
    <3>1. ASSUME Late(span) PROVE LastOf(span) \in torn
      <4>1. Pushing(span) /\ Pushes /\ entry = span
        BY <3>1 DEF Late, Pushing, Pushes
      <4>2. Coming \in torn
        BY <2>1, <4>1 DEF MInv, Readable, Serves, Torn, Reading
      <4> QED
        BY <1>4, <4>1, <4>2
    <3>2. Tail(span) \/ Late(span)
      BY <1>0, <2>2, <2>3 DEF Once, Held
    <3> QED
      BY <3>1, <3>2
  <2>4. (Tail(span) => Tail(span)') /\ LastOf(span)' = LastOf(span)
    BY <1>1, <2>1, <2>2 DEF Tail, LastOf, Mine, Part
  <2> QED
    BY <1>5, <2>1, <2>2, <2>3, <2>4 DEF InService
<1>9. CASE Clear
  <2>1. pc = "clear" /\ pc' = "head" /\ UNCHANGED <<span, len, executed, mixed, answered, torn>>
    BY <1>9 DEF Clear, Step, From, locals, work, ghosts
  <2>2. Stands(span) /\ At(idx) = span
    BY <2>1, ServedStands DEF Serves, At
  <2>3. /\ \A i \in Index : i # span => conns'[i] = conns[i]
        /\ conns'[span].size = 0 /\ conns'[span].data = conns[span].data
        /\ conns'[span].client_socket = conns[span].client_socket
    BY <1>0, <1>9, <2>2, ClearEffect
  <2>4. ASSUME NEW i \in Index PROVE Owed(i)' = Owed(i) /\ (Waiting(i) => Waiting(i)')
    <3>1. Owed(i)' = Owed(i) /\ LastOf(i)' = LastOf(i)
      BY <1>1, <1>2, <2>1 DEF Owed
    <3> QED
      BY <2>1, <3>1 DEF Waiting
  <2>5. ASSUME NEW i \in Index, Stands(i)' PROVE Held(i)'
    <3>1. CASE i = span
      BY <2>3, <3>1 DEF Held
    <3>2. CASE i # span
      BY <1>2, <2>1, <2>3, <2>4, <2>5, <3>2, HeldSame DEF Once
    <3> QED
      BY <3>1, <3>2
  <2>6. Arrives'
    <3>1. PICK e \in Index : e = entry
      BY <1>0
    <3>2. (Waiting(e) => Waiting(e)') /\ (Late(e) => Late(e)')
      BY <1>2, <2>4
    <3>3. (Waiting(entry) => Waiting(entry)') /\ (Late(entry) => Late(entry)')
      BY <1>1, <3>1, <3>2 DEF Waiting, LastOf, Owed, Mine, Late, Pushing
    <3>4. conns'[entry].size \in {0, conns[entry].size}
      BY <1>0, <2>3
    <3> QED
      BY <1>0, <1>1, <3>3, <3>4 DEF Once, Arrives, Pushes
  <2>7. InService'
    <3>1. ASSUME len > 1
          PROVE  /\ Waiting(span) /\ conns[span].data[0] = Part(LastOf(span), "head")
                 /\ Tail(span) \/ LastOf(span) \in torn
                 /\ Pushing(span) => Late(span)
      <4>1. conns[span].size > 1 /\ (Tail(span) \/ LastOf(span) \in torn)
        BY <2>1, <3>1 DEF Once, InService
      <4>2. Pushing(span) => Late(span)
        BY <1>0, <4>1 DEF Pushing, Pushes, Once, Arrives
      <4> QED
        BY <1>0, <2>2, <4>1, <4>2 DEF Once, Held
    <3>2. PICK i \in Index : i = span
      BY <1>0
    <3>3. /\ LastOf(i)' = LastOf(i) /\ (Tail(i)' <=> Tail(i)) /\ (Late(i)' <=> Late(i)) /\ (Pushing(i)' <=> Pushing(i))
          /\ (Waiting(i) => Waiting(i)')
      BY <1>2, <2>4
    <3>4. /\ LastOf(span)' = LastOf(span) /\ (Tail(span)' <=> Tail(span)) /\ (Late(span)' <=> Late(span))
          /\ (Pushing(span)' <=> Pushing(span)) /\ (Waiting(span) => Waiting(span)')
      BY <2>1, <3>2, <3>3 DEF LastOf, Tail, Late, Pushing, Waiting, Owed, Mine
    <3>5. Part(LastOf(span)', "head") = Part(LastOf(span), "head")
      BY <3>4
    <3> QED
      BY <2>1, <2>3, <3>1, <3>4, <3>5 DEF InService
  <2> QED
    BY <1>1, <2>1, <2>5, <2>6, <2>7 DEF Once
<1>10. CASE ServeHead
  <2>1. CASE len > 1 /\ IsHead(conns[span].data[0])
    <3>1. /\ pc = "head" /\ pc' = "tail" /\ req' = conns[span].data[0].of /\ conns' = conns
          /\ UNCHANGED <<span, len, torn, executed, mixed, answered>>
      BY <1>10, <2>1 DEF ServeHead, From, list, work, ghosts
    <3>2. /\ Waiting(span) /\ conns[span].data[0] = Part(LastOf(span), "head")
          /\ Tail(span) \/ LastOf(span) \in torn
          /\ conns[span].size = 0 /\ (Pushing(span) => Late(span))
      BY <2>1, <3>1 DEF Once, InService
    <3>3. req' = LastOf(span)
      BY <3>1, <3>2 DEF Part
    <3>4. LastOf(span)' = LastOf(span) /\ Owed(span)' = Owed(span)
      BY <1>1, <3>1 DEF LastOf, Owed, Mine
    <3>5. /\ Waiting(span)' /\ (Tail(span) => Tail(span)') /\ (Pushing(span)' <=> Pushing(span))
          /\ (Late(span) => Late(span)') /\ Part(LastOf(span)', "head") = Part(LastOf(span), "head")
      BY <1>1, <3>1, <3>2, <3>4 DEF Waiting, Tail, Pushing, Late
    <3> QED
      BY <1>5, <2>1, <3>1, <3>2, <3>3, <3>4, <3>5 DEF InService
  <2>2. CASE ~(len > 1 /\ IsHead(conns[span].data[0]))
    <3>1. conns' = conns /\ UNCHANGED <<executed, mixed, answered>> /\ pc' = "poll"
      BY <1>10, <2>2 DEF ServeHead, Ends, list, work
    <3> QED
      BY <1>5, <3>1 DEF InService
  <2> QED
    BY <2>1, <2>2
<1>11. CASE ServeTail
  <2>1. CASE pc' = "write"
    <3>1. /\ pc = "tail" /\ conns' = conns /\ UNCHANGED <<span, len, req, torn, answered>>
          /\ executed' \cup mixed' \subseteq executed \cup mixed \cup {req}
      BY <1>11, <2>1 DEF ServeTail, From, Ends, list, locals, ghosts
    <3>2. Stands(span) /\ Serves
      BY <3>1, ServedStands DEF Serves
    <3>3. /\ len > 1 /\ req = LastOf(span) /\ Waiting(span) /\ conns[span].size = 0 /\ (Pushing(span) => Late(span))
      BY <3>1 DEF Once, InService
    <3>4. ASSUME NEW i \in Index, Stands(i), i # span
          PROVE  Owed(i)' = Owed(i) /\ (Waiting(i) => Waiting(i)')
                 /\ (LastOf(i) \in (executed \cup mixed)' => LastOf(i) \in executed \cup mixed)
      <4>1. Mine(i) # Mine(span)
        BY <1>0, <1>1, <3>2, <3>4, Apart
      <4>2. LastOf(i) # req
        BY <3>3, <4>1 DEF LastOf
      <4>3. Owed(i)' = Owed(i) /\ LastOf(i)' = LastOf(i)
        BY <1>1, <1>2, <3>1 DEF Owed
      <4>4. LastOf(i) \in (executed \cup mixed)' => LastOf(i) \in executed \cup mixed
        BY <3>1, <4>2
      <4> QED
        BY <4>3, <4>4 DEF Waiting
    <3>5. ASSUME NEW i \in Index, Stands(i)' PROVE Held(i)'
      <4>1. CASE i = span
        BY <3>1, <3>3, <4>1 DEF Held
      <4>2. CASE i # span
        BY <1>2, <3>1, <3>4, <3>5, <4>2, HeldSame DEF Once
      <4> QED
        BY <4>1, <4>2
    <3>6. Arrives'
      <4>1. Late(entry) => Late(entry)'
        BY <1>1 DEF Late, Pushing
      <4>2. ASSUME Pushes, Waiting(entry) PROVE Waiting(entry)' \/ (cpc = "data" /\ pos = 1)
        <5>1. CASE entry = span
          BY <3>3, <4>2, <5>1 DEF Pushing, Pushes, Late
        <5>2. CASE entry # span
          <6>1. PICK e \in Index : e = entry
            BY <1>0
          <6>2. Waiting(e)'
            BY <1>4, <3>4, <4>2, <5>2, <6>1
          <6> QED
            BY <1>1, <6>1, <6>2 DEF Waiting, LastOf, Owed, Mine
        <5> QED
          BY <5>1, <5>2
      <4> QED
        BY <1>1, <3>1, <4>1, <4>2 DEF Once, Arrives, Pushes
    <3>7. InService'
      <4>1. LastOf(span)' = LastOf(span) /\ Owed(span)' = Owed(span) /\ Owed(span)
        BY <1>1, <3>1, <3>3 DEF LastOf, Owed, Mine, Waiting
      <4>2. (Pushing(span)' <=> Pushing(span)) /\ (Late(span) => Late(span)')
        BY <1>1, <3>1 DEF Late, Pushing
      <4> QED
        BY <2>1, <3>1, <3>3, <4>1, <4>2 DEF InService
    <3>8. \A r \in (executed \cup mixed)' : r[2] <= sent'[r[1]]
      <4>1. req[2] <= sent[req[1]]
        BY <1>0, <1>3, <3>2, <3>3 DEF LastOf
      <4> QED
        BY <1>1, <3>1, <4>1 DEF Once
    <3> QED
      BY <1>1, <3>1, <3>5, <3>6, <3>7, <3>8 DEF Once
  <2>2. CASE pc' # "write"
    <3>1. conns' = conns /\ UNCHANGED <<executed, mixed, answered>> /\ pc' = "poll"
      BY <1>11, <2>2 DEF ServeTail, Ends, list
    <3> QED
      BY <1>5, <3>1 DEF InService
  <2> QED
    BY <2>1, <2>2
<1>12. CASE WriteBytes
  <2>1. pc = "write" /\ pc' = "poll" /\ conns' = conns /\ UNCHANGED <<executed, mixed>>
        /\ answered' \in {answered, [answered EXCEPT ![req[1]] = req[2]]}
    BY <1>12 DEF WriteBytes, From, Ends, list
  <2>2. Stands(span) /\ len > 1 /\ req = LastOf(span) /\ conns[span].size = 0 /\ (Pushing(span) => Late(span))
    BY <2>1, ServedStands DEF Serves, Once, InService
  <2>3. req[1] = Mine(span) /\ req[2] = sent[req[1]] /\ req[1] \in Sessions
    BY <1>0, <1>3, <2>2 DEF LastOf
  <2>4. ASSUME NEW s \in Sessions PROVE answered'[s] \in {sent'[s] - 1, sent'[s]} /\ (s # req[1] => answered'[s] = answered[s])
    BY <1>0, <1>1, <2>1, <2>3 DEF Once
  <2>5. ASSUME NEW i \in Index, Stands(i), i # span PROVE Owed(i)' = Owed(i) /\ (Waiting(i) => Waiting(i)')
    <3>1. Mine(i) # req[1] /\ Mine(i) \in Sessions
      BY <1>0, <1>1, <1>3, <2>2, <2>3, <2>5, Apart
    <3>2. answered'[Mine(i)] = answered[Mine(i)]
      BY <2>4, <3>1
    <3>3. Owed(i)' = Owed(i)
      BY <1>1, <1>2, <3>2 DEF Owed
    <3> QED
      BY <1>2, <2>1, <3>3 DEF Waiting
  <2>6. ASSUME NEW i \in Index, Stands(i)' PROVE Held(i)'
    <3>1. CASE i = span
      BY <2>1, <2>2, <3>1 DEF Held
    <3>2. CASE i # span
      BY <1>2, <2>1, <2>5, <2>6, <3>2, HeldSame DEF Once
    <3> QED
      BY <3>1, <3>2
  <2>7. Arrives'
    <3>1. Late(entry) => Late(entry)'
      BY <1>1 DEF Late, Pushing
    <3>2. ASSUME Pushes, Waiting(entry) PROVE Waiting(entry)' \/ (cpc = "data" /\ pos = 1)
      <4>1. CASE entry = span
        BY <2>2, <3>2, <4>1 DEF Pushing, Pushes, Late
      <4>2. CASE entry # span
        <5>1. PICK e \in Index : e = entry
          BY <1>0
        <5>2. Waiting(e)'
          BY <1>4, <2>5, <3>2, <4>2, <5>1
        <5> QED
          BY <1>1, <5>1, <5>2 DEF Waiting, LastOf, Owed, Mine
      <4> QED
        BY <4>1, <4>2
    <3> QED
      BY <1>1, <2>1, <3>1, <3>2 DEF Once, Arrives, Pushes
  <2>8. InService'
    BY <2>1 DEF InService
  <2> QED
    BY <1>1, <2>1, <2>4, <2>6, <2>7, <2>8 DEF Once
<1> QED
  BY <1>6, <1>7, <1>8, <1>9, <1>10, <1>11, <1>12 DEF Server

LEMMA OnceStep ==
  ASSUME IInv, RInv, MInv, OnceInv, ~Pipelined, [Next]_vars
  PROVE  OnceInv'
<1> SUFFICES ASSUME ~everMoved', resets' = {} PROVE Once'
  BY DEF OnceInv
<1>1. ~everMoved
  BY Growing
<1>2. resets = {}
  BY OwnerStep
<1>3. Once
  BY <1>1, <1>2 DEF OnceInv
<1>4. CASE Others
  BY <1>1, <1>3, <1>4, OnceOthers
<1>5. CASE \E p \in Pcbs : Recv(p)
  BY <1>1, <1>3, <1>5, OnceRecv
<1>6. CASE Load
  BY <1>1, <1>3, <1>6, OnceLoad
<1>7. CASE StoreData
  BY <1>1, <1>3, <1>7, OnceStoreData
<1>8. CASE StoreSize
  BY <1>1, <1>3, <1>8, OnceStoreSize
<1>9. CASE Server
  BY <1>1, <1>3, <1>9, OnceServer
<1> QED
  BY <1>4, <1>5, <1>6, <1>7, <1>8, <1>9 DEF Next, Peers, PeerClose, Poll, Callbacks, Others

LEMMA Single ==
  ASSUME ~Pipelined
  PROVE  Spec => []OnceInv
<1>1. Init => OnceInv
  BY DEF Init, OnceInv, Once, Arrives, InService, Pushes, Stands, Index
<1>2. IInv /\ RInv /\ MInv /\ OnceInv /\ [Next]_vars => OnceInv'
  BY OnceStep
<1> QED
  BY <1>1, <1>2, Accounting, Routing, Tearing, PTL DEF Spec

\* With clients that wait for their answers no request is executed twice,
\* whole or mixed, unless a slot moved in hand or a session was reset.
THEOREM OnceExecuted ==
  ASSUME ~Pipelined
  PROVE  Spec => ExecutedOnce
<1>1. OnceInv /\ [Next]_vars =>
        [ServeTail /\ pc' = "write" /\ ~everMoved /\ resets = {} => req \notin executed \cup mixed]_vars
  <2> SUFFICES ASSUME OnceInv, ServeTail, pc' = "write", ~everMoved, resets = {} PROVE req \notin executed \cup mixed
    OBVIOUS
  <2>1. pc = "tail"
    BY DEF ServeTail, From
  <2> QED
    BY <2>1 DEF OnceInv, Once, InService, Waiting
<1> QED
  BY <1>1, Single, PTL DEF Spec, ExecutedOnce

-----------------------------------------------------------------------------
(* The refinement of RequestService, for clients that wait.                *)

Calm == IInv /\ RInv /\ MInv /\ Once /\ ~everMoved /\ resets = {} /\ ~everMoved' /\ resets' = {}

\* What the service sees of a step that executes and answers nothing.
LEMMA Seen ==
  ASSUME Calm, UNCHANGED <<executed, mixed, answered>>, pc # "write", pc' # "write"
  PROVE  UNCHANGED <<InHand, executed, mixed, answered, Disturbed>> /\ ~Disturbed /\ ~Disturbed'
<1>1. ~Disturbed /\ ~Disturbed'
  BY DEF Disturbed, Calm
<1>2. Disturbed' = Disturbed
  BY <1>1, Zenon DEF Disturbed
<1> QED
  BY <1>1, <1>2 DEF InHand

LEMMA SeenCallback ==
  ASSUME Calm, Peers \/ Callbacks
  PROVE  UNCHANGED <<InHand, executed, mixed, answered, Disturbed>> /\ ~Disturbed /\ ~Disturbed'
<1>1. ~Disturbed /\ ~Disturbed'
  BY DEF Disturbed, Calm
<1>2. Disturbed' = Disturbed
  BY <1>1, Zenon DEF Disturbed
<1>3. UNCHANGED <<InHand, executed, mixed, answered>>
  BY CallbackKeeps DEF task, locals, work, InHand
<1> QED
  BY <1>1, <1>2, <1>3

\* The session of an entry that stands is open, and all of its bytes are of it.
LEMMA EntryOpen ==
  ASSUME IInv, RInv, resets = {}, NEW i \in Index, Stands(i)
  PROVE  /\ Mine(i) \in OpenSessions /\ Mine(i) \in Sessions
         /\ Inside(i) \subseteq {Mine(i)} \X (1 .. Window)
<1>1. conns[i].client_socket \in Pcbs /\ Mine(i) # 0 /\ Entry(conns[i])
  BY DEF RInv, Distinct, Entries, Entry, Alone, Mine
<1>2. owner \in [Pcbs -> 0 .. MaxSessions] /\ conns[i] \in Conn
  BY DEF IInv, TInv, TypeOK
<1>3. Mine(i) \in Sessions /\ Mine(i) \in OpenSessions
  BY <1>1, <1>2 DEF Mine, Sessions, OpenSessions, Open
<1>4. ASSUME NEW c \in 0 .. Cells - 1, conns[i].data[c].of # NoReq
      PROVE  conns[i].data[c].of \in {Mine(i)} \X (1 .. Window)
  <2>1. conns[i].data[c] \in Cell
    BY <1>2 DEF Conn
  <2>2. PICK r \in Requests : r = conns[i].data[c].of
    BY <1>4, <2>1 DEF Cell, NoPart, Part
  <2>3. r[1] = Mine(i)
    BY <1>1, <1>4, <2>2 DEF Entry, Belongs, Mine
  <2> QED
    BY <2>2, <2>3 DEF Requests
<1> QED
  BY <1>3, <1>4 DEF Inside

LEMMA AcceptBegins ==
  ASSUME Calm, NEW p \in Pcbs, Accept(p)
  PROVE  Service!Orderly
<1>0. owner \in [Pcbs -> 0 .. MaxSessions] /\ nsess \in Nat /\ owner[p] = 0
  BY DEF Calm, IInv, TInv, TypeOK, Accept
<1>1. nsess' = nsess + 1 /\ sent' = sent /\ torn' = torn
  BY DEF Accept, ghosts
<1>2. OpenSessions' \in {OpenSessions, OpenSessions \cup {nsess + 1}}
  <2>1. CASE owner' = owner
    BY <2>1 DEF OpenSessions, Open
  <2>2. CASE owner' = [owner EXCEPT ![p] = nsess + 1]
    <3>1. Open' = Open \cup {p}
      BY <1>0, <2>2 DEF Open
    <3>2. owner'[p] = nsess + 1 /\ \A q \in Open : owner'[q] = owner[q]
      BY <1>0, <2>2 DEF Open
    <3> QED
      BY <3>1, <3>2 DEF OpenSessions
  <2> QED
    BY <2>1, <2>2 DEF Accept
<1>3. UNCHANGED <<InHand, executed, mixed, answered>> /\ ~Disturbed /\ ~Disturbed'
  BY SeenCallback DEF Peers
<1> QED
  BY <1>1, <1>2, <1>3 DEF Service!Orderly, Service!Begin

LEMMA RecvReceives ==
  ASSUME ~Pipelined, Calm, NEW p \in Pcbs, Recv(p)
  PROVE  Service!Orderly
<1> DEFINE s == owner[p]
<1>0. /\ sent \in [Sessions -> 0 .. Window] /\ owner \in [Pcbs -> 0 .. MaxSessions]
      /\ answered \in [Sessions -> 0 .. Window]
  BY DEF Calm, IInv, TInv, TypeOK
<1>1. /\ s # 0 /\ answered[s] = sent[s] /\ owner' = owner /\ nsess' = nsess /\ cpc = "idle"
      /\ sent' = [sent EXCEPT ![s] = @ + 1] /\ sent[s] < Window
  BY DEF Recv, MaySend, Callback
<1>2. s \in OpenSessions /\ s \in Sessions /\ OpenSessions' = OpenSessions
  BY <1>0, <1>1 DEF OpenSessions, Open, Sessions
<1>3. torn \subseteq torn' /\ torn' \subseteq torn \cup ({s} \X (1 .. Window))
  <2>1. CASE torn' = torn
    BY <2>1
  <2>2. ASSUME NEW i \in Index, First(i, p), torn' = torn \cup Inside(i) \cup {<<s, sent[s] + 1>>}
        PROVE  torn \subseteq torn' /\ torn' \subseteq torn \cup ({s} \X (1 .. Window))
    <3>1. Stands(i) /\ Mine(i) = s
      BY <1>1, <2>2 DEF First, Holds, Stands, BeingWritten, Mine
    <3>2. Inside(i) \subseteq {s} \X (1 .. Window)
      BY <3>1, EntryOpen DEF Calm
    <3>3. <<s, sent[s] + 1>> \in {s} \X (1 .. Window)
      BY <1>0, <1>1, <1>2
    <3> QED
      BY <2>2, <3>2, <3>3
  <2> QED
    BY <2>1, <2>2 DEF Recv
<1>4. UNCHANGED <<InHand, executed, mixed, answered>> /\ ~Disturbed /\ ~Disturbed'
  BY SeenCallback DEF Peers
<1>5. Service!Receive(s)
  BY <1>1, <1>2, <1>3, <1>4 DEF Service!Receive, Service!Tear
<1> QED
  BY <1>2, <1>4, <1>5 DEF Service!Orderly, Service!Serve

LEMMA CopyEnds ==
  ASSUME Calm, CopySize
  PROVE  Service!Orderly
<1>0. owner \in [Pcbs -> 0 .. MaxSessions] /\ Fresh /\ client \in Pcbs /\ owner[client] # 0
  BY DEF Calm, IInv, TInv, TypeOK, CbInv, CopySize, Runs
<1>1. nsess' = nsess /\ sent' = sent /\ torn' = torn /\ owner' = [owner EXCEPT ![client] = 0]
  BY DEF CopySize, Freed, ghosts
<1>2. owner[client] \in OpenSessions /\ owner[client] \in Sessions
  BY <1>0 DEF OpenSessions, Open, Sessions
<1>3. Open' = Open \ {client} /\ client \in Open /\ \A q \in Open' : owner'[q] = owner[q]
  BY <1>0, <1>1 DEF Open
<1>4. \A q \in Open \ {client} : owner[q] # owner[client]
  BY <1>0, <1>3 DEF Fresh
<1>5. OpenSessions' = OpenSessions \ {owner[client]}
  BY <1>3, <1>4 DEF OpenSessions
<1>6. UNCHANGED <<InHand, executed, mixed, answered>> /\ ~Disturbed /\ ~Disturbed'
  BY SeenCallback DEF Callbacks
<1>7. Service!End(owner[client])
  BY <1>1, <1>2, <1>5, <1>6 DEF Service!End
<1> QED
  BY <1>2, <1>6, <1>7 DEF Service!Orderly, Service!Serve

\* The callbacks that the service does not see.
LEMMA QuietCallbacks ==
  ASSUME Calm, (\E p \in Pcbs : Result(p)) \/ FillEntry \/ CountEntry \/ Load \/ StoreData \/ StoreSize \/ Notify \/ CopyCell
  PROVE  UNCHANGED Service!vars
<1>1. UNCHANGED <<nsess, sent, owner>>
  <2>1. ASSUME NEW p \in Pcbs, Result(p) PROVE UNCHANGED <<nsess, sent, owner>>
    <3>1. cpc = "idle" /\ p \in Open /\ nsess' = nsess /\ sent' = sent
      BY <2>1 DEF Result, Callback, Open
    <3>2. Listed(p)
      BY <3>1, OpenListed DEF Calm, IInv
    <3> QED
      BY <2>1, <3>1, <3>2 DEF Result
  <2> QED
    BY <2>1 DEF FillEntry, CountEntry, Load, StoreData, StoreSize, Notify, CopyCell, lwip
<1>2. torn' = torn
  BY DEF Result, Pop, FillEntry, CountEntry, Load, StoreData, StoreSize, Notify, CopyCell, ghosts
<1>3. UNCHANGED <<InHand, executed, mixed, answered, Disturbed>>
  BY SeenCallback DEF Peers, PeerClose, Callbacks
<1>4. OpenSessions' = OpenSessions
  BY <1>1 DEF OpenSessions, Open
<1> QED
  BY <1>1, <1>2, <1>3, <1>4 DEF Service!vars

LEMMA QuietServer ==
  ASSUME Calm, Server, ~ScanHit, ~ServeTail, ~WriteBytes
  PROVE  UNCHANGED Service!vars
<1>1. UNCHANGED <<owner, nsess, sent>>
  BY ServerLeaves DEF lwip
<1>2. UNCHANGED <<executed, mixed, answered, torn>> /\ pc # "write" /\ pc' # "write"
  BY DEF Server, StartRead, ScanMiss, Span, Clear, Arm, Take, Timeout, Wake, Nothing, ServeHead, Step, From,
     Ends, work, ghosts
<1>3. UNCHANGED <<InHand, Disturbed>>
  BY <1>2, Seen
<1>4. OpenSessions' = OpenSessions
  BY <1>1 DEF OpenSessions, Open
<1> QED
  BY <1>1, <1>2, <1>3, <1>4 DEF Service!vars

LEMMA HitTears ==
  ASSUME Calm, ScanHit
  PROVE  Service!Orderly \/ UNCHANGED Service!vars
<1>1. UNCHANGED <<owner, nsess, sent>>
  BY ServerLeaves DEF lwip, Server
<1>2. /\ UNCHANGED <<executed, mixed, answered>> /\ pc # "write" /\ pc' # "write"
      /\ torn' = IF Pushing(At(idx)) THEN torn \cup Inside(At(idx)) \cup {Coming} ELSE torn
  BY DEF ScanHit, Step, From, work
<1>3. UNCHANGED <<InHand, Disturbed>> /\ ~Disturbed /\ ~Disturbed'
  BY <1>2, Seen
<1>4. OpenSessions' = OpenSessions
  BY <1>1 DEF OpenSessions, Open
<1>5. CASE ~Pushing(At(idx))
  BY <1>1, <1>2, <1>3, <1>4, <1>5 DEF Service!vars
<1>6. CASE Pushing(At(idx))
  <2> DEFINE s == owner[client]
  <2>1. entry = At(idx) /\ Pushes
    BY <1>6 DEF Pushing, Pushes
  <2>2. Stands(entry) /\ entry \in Index /\ Mine(entry) = s /\ Coming \in Requests
    BY <2>1, TargetStands DEF Calm
  <2>3. s \in OpenSessions /\ s \in Sessions /\ Inside(entry) \subseteq {s} \X (1 .. Window)
    BY <2>2, EntryOpen DEF Calm
  <2>4. Coming \in {s} \X (1 .. Window)
    BY <2>2 DEF Coming, Requests
  <2>5. torn \subseteq torn' /\ torn' \subseteq torn \cup ({s} \X (1 .. Window))
    BY <1>2, <1>6, <2>1, <2>3, <2>4
  <2>6. Service!TearOnly(s)
    BY <1>1, <1>2, <1>3, <1>4, <2>3, <2>5 DEF Service!TearOnly, Service!Tear
  <2> QED
    BY <1>3, <2>3, <2>6 DEF Service!Orderly, Service!Serve
<1> QED
  BY <1>5, <1>6

\* While nothing is disturbed the request in hand is the last one of the session
\* whose entry is served, which is open and waits for the answer.
LEMMA Hand ==
  ASSUME Calm, pc \in {"tail", "write"}
  PROVE  /\ Mine(span) \in Sessions /\ Mine(span) \in OpenSessions
         /\ req = <<Mine(span), sent[Mine(span)]>> /\ req # NoReq
         /\ answered[Mine(span)] = sent[Mine(span)] - 1
         /\ pc = "tail" => /\ req \notin executed \cup mixed
                           /\ Tail(span) \/ req \in torn
<1>1. Stands(span) /\ span \in Index
  BY ServedStands DEF Calm, Serves, IInv, TInv, TypeOK
<1>2. Mine(span) \in Sessions /\ Mine(span) \in OpenSessions
  BY <1>1, EntryOpen DEF Calm
<1>3. req = LastOf(span) /\ Owed(span) /\ (pc = "tail" => Waiting(span) /\ (Tail(span) \/ LastOf(span) \in torn))
  BY DEF Calm, Once, InService, Waiting
<1>4. answered[Mine(span)] = sent[Mine(span)] - 1
  BY <1>2, <1>3 DEF Calm, Once, Owed
<1>5. req # NoReq
  BY <1>2, <1>3 DEF LastOf, NoReq, Sessions
<1> QED
  BY <1>2, <1>3, <1>4, <1>5 DEF LastOf, Waiting

LEMMA TailExecutes ==
  ASSUME Calm, ServeTail
  PROVE  Service!Orderly \/ UNCHANGED Service!vars
<1> DEFINE s == Mine(span)
           tail == conns[span].data[1]
<1>1. UNCHANGED <<owner, nsess, sent>>
  BY ServerLeaves DEF lwip, Server
<1>2. OpenSessions' = OpenSessions
  BY <1>1 DEF OpenSessions, Open
<1>3. CASE pc' # "write"
  <2>1. UNCHANGED <<executed, mixed, answered, torn>> /\ pc # "write"
    BY <1>3 DEF ServeTail, From, Ends, ghosts
  <2>2. UNCHANGED <<InHand, Disturbed>>
    BY <1>3, <2>1, Seen
  <2> QED
    BY <1>1, <1>2, <2>1, <2>2 DEF Service!vars
<1>4. CASE pc' = "write"
  <2>1. /\ pc = "tail" /\ req' = req /\ answered' = answered /\ torn' = torn
        /\ executed' = executed \cup ({req} \cap {tail.of})
        /\ mixed' = mixed \cup ({req} \ {tail.of})
    BY <1>4 DEF ServeTail, From, Ends, locals, ghosts
  <2>2. /\ s \in Sessions /\ s \in OpenSessions /\ req = <<s, sent[s]>> /\ req # NoReq
        /\ answered[s] = sent[s] - 1 /\ req \notin executed \cup mixed
        /\ Tail(span) \/ req \in torn
    BY <2>1, Hand
  <2>3. InHand = NoReq /\ InHand' = req
    BY <1>4, <2>1 DEF InHand
  <2>4. \/ executed' = executed \cup {req} /\ mixed' = mixed
        \/ req \in torn /\ mixed' = mixed \cup {req} /\ executed' = executed
    <3>1. CASE req = tail.of
      BY <2>1, <3>1
    <3>2. CASE req # tail.of
      <4>1. ~Tail(span)
        BY <2>2, <3>2 DEF Tail, Part, LastOf
      <4> QED
        BY <2>1, <2>2, <3>2, <4>1
    <3> QED
      BY <3>1, <3>2
  <2>5. sent[s] \in Nat /\ answered[s] < sent[s]
    BY <2>2 DEF Calm, IInv, TInv, TypeOK
  <2>6. Service!Execute(s)
    BY <1>1, <1>2, <2>1, <2>2, <2>3, <2>4, <2>5 DEF Service!Execute, Service!Request
  <2>7. ~Disturbed /\ ~Disturbed'
    BY DEF Disturbed, Calm
  <2> QED
    BY <2>2, <2>6, <2>7 DEF Service!Orderly, Service!Serve
<1> QED
  BY <1>3, <1>4

LEMMA WriteAnswers ==
  ASSUME Calm, WriteBytes
  PROVE  Service!Orderly
<1> DEFINE s == Mine(span)
<1>1. UNCHANGED <<owner, nsess, sent>>
  BY ServerLeaves DEF lwip, Server
<1>2. OpenSessions' = OpenSessions
  BY <1>1 DEF OpenSessions, Open
<1>3. /\ pc = "write" /\ pc' = "poll" /\ UNCHANGED <<executed, mixed, torn>>
      /\ answered' = answered \/ answered' = [answered EXCEPT ![req[1]] = req[2]]
  BY DEF WriteBytes, From, Ends
<1>4. /\ s \in Sessions /\ s \in OpenSessions /\ req = <<s, sent[s]>> /\ req # NoReq
      /\ answered[s] = sent[s] - 1
  BY <1>3, Hand
<1>5. InHand = req /\ InHand' = NoReq /\ ~Disturbed /\ ~Disturbed'
  BY <1>3 DEF InHand, Disturbed, Calm
<1>6. CASE answered' = answered
  <2>1. Service!GiveUp
    BY <1>1, <1>2, <1>3, <1>4, <1>5, <1>6 DEF Service!GiveUp
  <2> QED
    BY <1>5, <2>1 DEF Service!Orderly
<1>7. CASE answered' = [answered EXCEPT ![req[1]] = req[2]]
  <2>1. answered' = [answered EXCEPT ![s] = sent[s]]
    BY <1>4, <1>7
  <2>2. Service!Answer(s)
    BY <1>1, <1>2, <1>3, <1>4, <1>5, <2>1 DEF Service!Answer, Service!Request
  <2> QED
    BY <1>4, <1>5, <2>2 DEF Service!Orderly, Service!Serve
<1> QED
  BY <1>3, <1>6, <1>7

LEMMA ServiceStep ==
  ASSUME ~Pipelined, IInv, RInv, MInv, OnceInv, [Next]_vars
  PROVE  [Service!Next]_(Service!vars)
<1>1. CASE Disturbed'
  BY <1>1 DEF Service!Next, Service!Disturbed
<1>2. CASE ~Disturbed'
  <2>1. ~everMoved' /\ resets' = {}
    BY <1>2 DEF Disturbed
  <2>2. Calm
    <3>1. ~everMoved /\ resets = {}
      BY <2>1, Growing, OwnerStep
    <3> QED
      BY <2>1, <3>1 DEF Calm, OnceInv
  <2>3. CASE UNCHANGED vars
    BY <2>3 DEF vars, lwip, list, task, locals, work, ghosts, Service!vars, OpenSessions, Open, InHand, Disturbed
  <2>4. ASSUME NEW p \in Pcbs, Err(p) PROVE FALSE
    BY <2>1, <2>4 DEF Err
  <2>5. CASE Peers
    <3>1. PICK p \in Pcbs : Accept(p) \/ Recv(p) \/ Result(p)
      BY <2>4, <2>5 DEF Peers, PeerClose, Poll
    <3> QED
      BY <2>2, <3>1, AcceptBegins, RecvReceives, QuietCallbacks DEF Service!Next
  <2>6. CASE Callbacks
    BY <2>2, <2>6, QuietCallbacks, CopyEnds DEF Callbacks, Service!Next
  <2>7. CASE Server
    BY <2>2, <2>7, QuietServer, HitTears, TailExecutes, WriteAnswers DEF Service!Next, Server
  <2> QED
    BY <2>3, <2>5, <2>6, <2>7 DEF Next
<1> QED
  BY <1>1, <1>2

\* For clients that wait for their answers the server is, until a slot moves in
\* hand or a session is reset, a service that executes each request once while
\* its session is open and then answers it, to that session or not at all; and
\* only a request whose buffer two threads used is executed with bytes of
\* another.
THEOREM ServesRequests ==
  ASSUME ~Pipelined
  PROVE  Spec => IsRequestService
<1>1. Init => Service!Init
  BY DEF Init, Service!Init, OpenSessions, Open, InHand, Disturbed
<1>2. IInv /\ RInv /\ MInv /\ OnceInv /\ [Next]_vars => [Service!Next]_(Service!vars)
  BY ServiceStep
<1> QED
  BY <1>1, <1>2, Accounting, Routing, Tearing, Single, PTL DEF Spec, IsRequestService, Service!Spec

-----------------------------------------------------------------------------
(* A call of poll_update_state ends: each of its steps brings it nearer to *)
(* its end, and no callback sends it back, since the length of the list is *)
(* read once per scan.                                                     *)

RoundLeft ==
  CASE pc = "poll" -> 0 [] pc = "write" -> 1 [] pc = "tail" -> 2 [] pc = "head" -> 3
    [] pc = "clear" -> 4 [] pc = "span" -> 5
    [] pc = "scan" /\ pass = 2 -> 6 + (n - idx)
    [] pc = "take" -> Slots + 7
    [] pc = "scan" /\ pass = 1 -> Slots + 8 + (n - idx)

\* Each step of a call of poll_update_state is one of at most 2 * Slots + 8 that
\* are left, and the callbacks that come between add none.
RoundBounded ==
  [][pc # "poll" => /\ RoundLeft \in 1 .. 2 * Slots + 8
                    /\ IF Server THEN RoundLeft' < RoundLeft ELSE RoundLeft' = RoundLeft]_vars

THEOREM RoundEnds == Spec => RoundBounded
<1>1. TInv => (pc # "poll" => RoundLeft \in 1 .. 2 * Slots + 8)
  BY DEF TInv, TypeOK, TaskInv, RoundLeft
<1>2. TInv /\ pc # "poll" /\ Server => RoundLeft' < RoundLeft
  <2> SUFFICES ASSUME TInv, pc # "poll", Server PROVE RoundLeft' < RoundLeft
    OBVIOUS
  <2>0. /\ pass \in {1, 2} /\ idx \in 0 .. Slots /\ n \in 0 .. Slots /\ cur_size \in 0 .. Slots /\ idx <= n
        /\ pc \in {"poll", "scan", "span", "clear", "take", "head", "tail", "write"}
    BY DEF TInv, TypeOK, TaskInv
  <2>1. CASE ScanMiss \/ Nothing
    BY <2>0, <2>1 DEF ScanMiss, Nothing, Ends, Step, From, RoundLeft
  <2>2. CASE ScanHit \/ Arm
    BY <2>0, <2>2 DEF ScanHit, Arm, Step, From, RoundLeft, locals
  <2>3. CASE Take \/ Timeout
    BY <2>0, <2>3 DEF Take, Timeout, Wake, Step, From, BeginScan, RoundLeft
  <2>4. CASE Span \/ Clear \/ WriteBytes
    BY <2>0, <2>4 DEF Span, Clear, WriteBytes, Ends, Step, From, RoundLeft
  <2>5. CASE ServeHead \/ ServeTail
    BY <2>0, <2>5 DEF ServeHead, ServeTail, Ends, From, RoundLeft
  <2> QED
    BY <2>1, <2>2, <2>3, <2>4, <2>5 DEF Server, StartRead, Step, From
<1>3. [Next]_vars /\ ~Server => RoundLeft' = RoundLeft
  <2> SUFFICES ASSUME Peers \/ Callbacks \/ UNCHANGED vars PROVE RoundLeft' = RoundLeft
    BY DEF Next
  <2> QED
    BY CallbackKeeps DEF task, locals, RoundLeft
<1>4. TInv /\ [Next]_vars
      => [pc # "poll" => /\ RoundLeft \in 1 .. 2 * Slots + 8
                         /\ IF Server THEN RoundLeft' < RoundLeft ELSE RoundLeft' = RoundLeft]_vars
  BY <1>1, <1>2, <1>3
<1> QED
  BY <1>4, Typing, PTL DEF Spec, RoundBounded
=============================================================================
