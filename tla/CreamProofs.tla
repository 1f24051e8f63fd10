----------------------------- MODULE CreamProofs -----------------------------
(***************************************************************************)
(* Theorems about hw5/src/cream.c for any number of workers, connections,  *)
(* keys and pairs and any table size.  The server's steps are steps of the *)
(* map (HashMap) and of the queue (Fifo), so it inherits what is proved of *)
(* them; CInv adds what ties workers, connections and the map together.    *)
(***************************************************************************)
EXTENDS Cream, HashMapProofs

-----------------------------------------------------------------------------
(* The invariant.                                                          *)

Answering == {"header", "value", "close"}
WorkerPlaces == {"dequeue", "read", "serve", "await"} \cup Answering

\* A worker between two connections has none; otherwise its connection has a request.
Connected ==
  /\ req \in [Conns -> Requests]
  /\ queue \in Seq(Conns)
  /\ conn \in [Workers -> Conns \cup {NULL}]
  /\ at \in [Workers -> WorkerPlaces]
  /\ \A w \in Workers : at[w] = "dequeue" <=> conn[w] = NULL

CreamTypes ==
  /\ client \in [Conns -> {"new", "silent", "short", "whole"}]
  /\ hung \in [Conns -> BOOLEAN]
  /\ out \in [Workers -> Responses]
  /\ response \in [Conns -> Responses]

\* A connection is in one place, and an accepted one.
OnePlace ==
  /\ \A m, n \in DOMAIN queue : queue[m] = queue[n] => m = n
  /\ \A n \in DOMAIN queue : client[queue[n]] # "new"
  /\ \A w \in Workers, n \in DOMAIN queue : conn[w] # queue[n]
  /\ \A v, w \in Workers : conn[v] = conn[w] /\ conn[v] # NULL => v = w
  /\ \A w \in Workers : conn[w] # NULL => client[conn[w]] # "new"

\* The place of a worker tells what its connection has sent and what the map is
\* doing for it.
InStep ==
  \A w \in Workers :
    /\ at[w] = "await" <=> pc[w] # "idle"
    /\ at[w] \in {"serve", "await"} => client[conn[w]] = "whole"
    /\ at[w] = "await" =>
         /\ req[conn[w]].op = "PUT" => call[w].op = "put"
         /\ call[w].op = "put" => call[w].force
         /\ req[conn[w]].op = "GET" => call[w].op = "get"
    /\ at[w] \in Answering => client[conn[w]] # "silent" \/ hung[conn[w]]

\* No call has closed the map, and no error of an earlier request is left in errno.
ErrnoIsClean ==
  /\ ~invalid /\ \A w \in Workers : call[w].op # "invalidate"
  /\ \A w \in Workers :
       /\ at[w] \in {"dequeue", "read", "serve"} => errno[w] = "0"
       /\ call[w].op = "put" /\ pc[w] \in {"lock", "write"} => errno[w] = "0"
       /\ call[w].op = "put" /\ pc[w] = "ret" => ok[w]

\* The length get loads with no lock held is that of some pair, or the key was
\* missing meanwhile.
LengthOrAbsent ==
  \A w \in Workers : call[w].op = "get" =>
    /\ pc[w] \in {"load", "load_base", "load_len"} /\ nodes[slot[w]].len = NULL => absent[w]
    /\ pc[w] \in {"load_base", "ret"} /\ ret[w].len = NULL => absent[w]

Whole(r) == r.code # "none" /\ (r.val = NULL <=> r.len = NULL)

\* What the connection of a worker has received, by where the worker is.
Answers(w) ==
  /\ at[w] \in {"dequeue", "read"} => out[w].val = NULL /\ out[w].len = NULL
  /\ at[w] \in {"read", "serve", "await", "header"} => response[conn[w]] = NoOut
  /\ at[w] \in Answering => Whole(out[w])
  /\ at[w] = "value" => /\ out[w].len # NULL
                        /\ response[conn[w]].code # "none"
                        /\ response[conn[w]].len = out[w].len
  /\ at[w] = "close" => Whole(response[conn[w]])
  /\ at[w] \in Answering /\ client[conn[w]] = "whole" /\ req[conn[w]].op = "PUT" =>
       out[w].code = "OK"

\* A connection no worker has had is unanswered, a closed one is answered, and
\* none is before its client has sent something or gone.
Served ==
  /\ \A n \in DOMAIN queue : response[queue[n]] = NoOut
  /\ \A c \in Conns : client[c] = "new" => response[c] = NoOut
  /\ \A c \in Conns : Closed(c) => Whole(response[c])
  /\ \A c \in Conns : response[c].code # "none" => client[c] # "silent" \/ hung[c]

CInv == /\ Connected /\ CreamTypes /\ OnePlace /\ InStep /\ ErrnoIsClean /\ LengthOrAbsent
        /\ (\A w \in Workers : Answers(w)) /\ Served /\ PutIsAccepted

-----------------------------------------------------------------------------
(* Sequences.                                                              *)

LEMMA Appended ==
  ASSUME NEW S, NEW s \in Seq(S), NEW x \in S
  PROVE  /\ Append(s, x) \in Seq(S)
         /\ DOMAIN Append(s, x) = DOMAIN s \cup {Len(s) + 1}
         /\ Len(s) + 1 \notin DOMAIN s
         /\ \A n \in DOMAIN s : Append(s, x)[n] = s[n]
         /\ Append(s, x)[Len(s) + 1] = x
OBVIOUS

LEMMA Shortened ==
  ASSUME NEW S, NEW s \in Seq(S), s # <<>>
  PROVE  /\ Tail(s) \in Seq(S)
         /\ 1 \in DOMAIN s /\ Head(s) = s[1] /\ Head(s) \in S
         /\ \A n \in DOMAIN Tail(s) : n + 1 \in DOMAIN s /\ n + 1 # 1 /\ Tail(s)[n] = s[n + 1]
         /\ \A n \in DOMAIN s : n # 1 => n - 1 \in DOMAIN Tail(s) /\ Tail(s)[n - 1] = s[n]
OBVIOUS

-----------------------------------------------------------------------------
(* Who has which connection.                                               *)

LEMMA HasRequest ==
  ASSUME Connected, NEW w \in Workers, at[w] # "dequeue"
  PROVE  conn[w] \in Conns /\ req[conn[w]].key \in Keys
<1>1. conn[w] \in Conns
  BY DEF Connected
<1>2. req[conn[w]] \in Requests
  BY <1>1 DEF Connected
<1> QED BY <1>1, <1>2, CreamAssumption

LEMMA Moves ==
  ASSUME Connected, NEW w \in Workers, NEW a, NEW b \in WorkerPlaces, Move(w, a, b)
  PROVE  /\ at' \in [Workers -> WorkerPlaces] /\ at[w] = a /\ at'[w] = b
         /\ \A v \in Workers \ {w} : at'[v] = at[v]
BY DEF Connected, Move

LEMMA ConnectedKept ==
  ASSUME Connected, [CreamNext]_creamVars
  PROVE  Connected'
<1> USE DEF Connected
<1>1. CASE UNCHANGED creamVars
  BY <1>1 DEF creamVars, clients, server, link
<1>2. ASSUME NEW c \in Conns, Send(c) \/ HangUp(c)
      PROVE  Connected'
  BY <1>2 DEF Send, HangUp, server, link
<1>3. ASSUME NEW c \in Conns, Accept(c)
      PROVE  Connected'
  <2>1. queue' \in Seq(Conns)
    BY <1>3, Appended DEF Accept, Requested!Enqueue
  <2> QED BY <1>3, <2>1 DEF Accept, Requested!Enqueue
<1>4. ASSUME NEW w \in Workers, Work(w)
      PROVE  Connected'
  <2>1. CASE Take(w)
    <3>1. queue' \in Seq(Conns) /\ conn' = [conn EXCEPT ![w] = Head(queue)] /\ Head(queue) \in Conns
      BY <2>1, Shortened DEF Take, Requested!Dequeue
    <3>2. at' \in [Workers -> WorkerPlaces] /\ at'[w] = "read" /\ \A v \in Workers \ {w} : at'[v] = at[v]
      BY <2>1, Moves DEF Take, WorkerPlaces
    <3> QED BY <2>1, <3>1, <3>2, CreamAssumption DEF Take, clients
  <2>2. CASE Close(w)
    <3>1. queue' = queue /\ conn' = [conn EXCEPT ![w] = NULL]
      BY <2>2 DEF Close, Requested!Release
    <3>2. at' \in [Workers -> WorkerPlaces] /\ at'[w] = "dequeue" /\ \A v \in Workers \ {w} : at'[v] = at[v]
      BY <2>2, Moves DEF Close, WorkerPlaces
    <3> QED BY <2>2, <3>1, <3>2 DEF Close, clients
  <2>3. CASE Read(w) \/ Serve(w) \/ Decide(w) \/ WriteHeader(w) \/ WriteValue(w) \/ MapStep(w) \/ Exit(w)
    <3> DEFINE Stays == /\ at' \in [Workers -> WorkerPlaces]
                        /\ at[w] # "dequeue" /\ at'[w] # "dequeue"
                        /\ \A v \in Workers \ {w} : at'[v] = at[v]
    <3> USE Moves DEF WorkerPlaces, Answering
    <3>1. Read(w) => Stays
      BY DEF Read
    <3>2. Serve(w) => Stays
      BY DEF Serve
    <3>3. Decide(w) => Stays
      BY DEF Decide
    <3>4. WriteHeader(w) => Stays
      BY DEF WriteHeader
    <3>5. WriteValue(w) => Stays
      BY DEF WriteValue
    <3>6. Exit(w) \/ MapStep(w) => at' = at
      BY DEF Exit, MapStep, server
    <3>7. Stays \/ at' = at
      BY <2>3, <3>1, <3>2, <3>3, <3>4, <3>5, <3>6
    <3>8. UNCHANGED <<queue, conn, req>>
      BY <2>3 DEF Read, Serve, Decide, WriteHeader, WriteValue, Exit, MapStep, server, clients, link
    <3> QED BY <3>7, <3>8
  <2> QED BY <1>4, <2>1, <2>2, <2>3 DEF Work
<1> QED BY <1>1, <1>2, <1>3, <1>4 DEF CreamNext

LEMMA AlwaysConnected == CreamSpec => []Connected
<1>1. CreamInit => Connected
  BY DEF CreamInit, Connected, WorkerPlaces
<1> QED BY <1>1, ConnectedKept, PTL DEF CreamSpec

-----------------------------------------------------------------------------
(* The server's steps are steps of the map and of the queue.               *)

\* What a step of worker w does to the map.
LEMMA MapActs ==
  ASSUME Connected, NEW w \in Workers, Serve(w) \/ Decide(w) \/ Close(w) \/ MapStep(w), NoteAbsence
  PROVE  Next
<1>1. CASE Serve(w)
  <2>1. ASSUME NEW o \in Objs, CallPut(w, o, TRUE) PROVE Call(w)
    BY <2>1, Zenon DEF Call
  <2>2. req[conn[w]].key \in Keys
    BY <1>1, HasRequest DEF Serve, Move
  <2>3. Call(w)
    BY <1>1, <2>1, <2>2 DEF Serve, Call
  <2> QED BY <2>3 DEF Next, Workers
<1>2. CASE Decide(w)
  BY <1>2 DEF Decide, Step, Next, Workers
<1>3. CASE Close(w)
  BY <1>3 DEF Close, Next, Workers
<1>4. CASE MapStep(w)
  BY <1>4 DEF MapStep, Next, Workers
<1> QED BY <1>1, <1>2, <1>3, <1>4

LEMMA MapWorks ==
  ASSUME Connected, [CreamNext]_creamVars
  PROVE  [Next]_vars
<1>1. CASE UNCHANGED creamVars
  BY <1>1 DEF creamVars
<1>2. ASSUME NEW c \in Conns, Send(c) \/ HangUp(c) \/ Accept(c)
      PROVE  UNCHANGED vars
  BY <1>2 DEF Send, HangUp, Accept
<1>3. ASSUME NEW w \in Workers, Work(w)
      PROVE  [Next]_vars
  <2>1. CASE Serve(w) \/ Decide(w) \/ Close(w) \/ MapStep(w)
    BY <1>3, <2>1, MapActs DEF Work
  <2>2. CASE Take(w) \/ Read(w) \/ WriteHeader(w) \/ WriteValue(w) \/ Exit(w)
    BY <2>2 DEF Take, Read, WriteHeader, WriteValue, Exit
  <2> QED BY <1>3, <2>1, <2>2 DEF Work
<1> QED BY <1>1, <1>2, <1>3 DEF CreamNext

\* A run of the server is a run of the map: whatever holds of hashmap.c under any
\* callers holds under the workers of cream.c.
THEOREM ServerRunsTheMap == CreamSpec => Spec
<1>1. CreamInit => Init
  BY DEF CreamInit
<1> QED BY <1>1, MapWorks, AlwaysConnected, PTL DEF CreamSpec, Spec

\* A run of the server is a run of the queue: main enqueues an accepted
\* connection once, a worker takes the oldest and gives it up when it closes it.
THEOREM ServerRunsTheQueue == CreamSpec => Requested!FifoSpec
<1>1. CreamInit => Requested!FifoInit
  BY DEF CreamInit, Requested!FifoInit, Workers
<1>2. [CreamNext]_creamVars => [Requested!FifoNext]_(Requested!fifoVars)
  <2> SUFFICES ASSUME [CreamNext]_creamVars PROVE [Requested!FifoNext]_(Requested!fifoVars)
    OBVIOUS
  <2>1. CASE UNCHANGED creamVars
    BY <2>1 DEF creamVars, server, link, Requested!fifoVars
  <2>2. ASSUME NEW c \in Conns, Send(c) \/ HangUp(c) \/ Accept(c)
        PROVE  [Requested!FifoNext]_(Requested!fifoVars)
    BY <2>2 DEF Send, HangUp, Accept, server, link, Requested!FifoNext, Requested!fifoVars
  <2>3. ASSUME NEW w \in Workers, Work(w)
        PROVE  [Requested!FifoNext]_(Requested!fifoVars)
    <3>1. CASE Take(w)
      BY <3>1 DEF Take, Requested!FifoNext, Workers
    <3>2. CASE Close(w)
      BY <3>2 DEF Close, Requested!FifoNext, Workers
    <3>3. CASE UNCHANGED link
      BY <3>3 DEF link, Requested!fifoVars
    <3> QED BY <2>3, <3>1, <3>2, <3>3 DEF Work, Read, Serve, Decide, WriteHeader, WriteValue,
              MapStep, Exit, server
  <2> QED BY <2>1, <2>2, <2>3 DEF CreamNext
<1> QED BY <1>1, <1>2, PTL DEF CreamSpec, Requested!FifoSpec

\* In the server too every call of the map sees the table it is promised.
LEMMA MapHolds == CreamSpec => []HInv
BY ServerRunsTheMap, MapInvariant, PTL

-----------------------------------------------------------------------------
(* What each step does to the connection of its worker.                    *)

LEMMA ResponseFields ==
  ASSUME NEW r \in Responses
  PROVE  r.code \in Codes /\ r.val \in Objs \cup {NULL, "freed"} /\ r.len \in Objs \cup {NULL}
BY DEF Responses

LEMMA CodeSet ==
  ASSUME NEW I, NEW f \in [I -> Responses], NEW i \in I, NEW a \in Codes
  PROVE  /\ [f EXCEPT ![i].code = a] \in [I -> Responses]
         /\ [f EXCEPT ![i].code = a][i].code = a
         /\ [f EXCEPT ![i].code = a][i].val = f[i].val
         /\ [f EXCEPT ![i].code = a][i].len = f[i].len
         /\ \A j \in I \ {i} : [f EXCEPT ![i].code = a][j] = f[j]
<1>1. f[i] \in Responses
  OBVIOUS
<1>2. [f[i] EXCEPT !.code = a] \in Responses
      /\ [f[i] EXCEPT !.code = a].code = a
      /\ [f[i] EXCEPT !.code = a].val = f[i].val
      /\ [f[i] EXCEPT !.code = a].len = f[i].len
  BY <1>1 DEF Responses
<1> QED BY <1>2

LEMMA LenSet ==
  ASSUME NEW I, NEW f \in [I -> Responses], NEW i \in I, NEW b \in Objs \cup {NULL}
  PROVE  /\ [f EXCEPT ![i].len = b] \in [I -> Responses]
         /\ [f EXCEPT ![i].len = b][i].code = f[i].code
         /\ [f EXCEPT ![i].len = b][i].val = f[i].val
         /\ [f EXCEPT ![i].len = b][i].len = b
         /\ \A j \in I \ {i} : [f EXCEPT ![i].len = b][j] = f[j]
<1>1. f[i] \in Responses
  OBVIOUS
<1>2. [f[i] EXCEPT !.len = b] \in Responses
      /\ [f[i] EXCEPT !.len = b].code = f[i].code
      /\ [f[i] EXCEPT !.len = b].val = f[i].val
      /\ [f[i] EXCEPT !.len = b].len = b
  BY <1>1 DEF Responses
<1> QED BY <1>2

LEMMA ValSet ==
  ASSUME NEW I, NEW f \in [I -> Responses], NEW i \in I, NEW b \in Objs \cup {NULL, "freed"}
  PROVE  /\ [f EXCEPT ![i].val = b] \in [I -> Responses]
         /\ [f EXCEPT ![i].val = b][i].code = f[i].code
         /\ [f EXCEPT ![i].val = b][i].val = b
         /\ [f EXCEPT ![i].val = b][i].len = f[i].len
         /\ \A j \in I \ {i} : [f EXCEPT ![i].val = b][j] = f[j]
<1>1. f[i] \in Responses
  OBVIOUS
<1>2. [f[i] EXCEPT !.val = b] \in Responses
      /\ [f[i] EXCEPT !.val = b].code = f[i].code
      /\ [f[i] EXCEPT !.val = b].val = b
      /\ [f[i] EXCEPT !.val = b].len = f[i].len
  BY <1>1 DEF Responses
<1> QED BY <1>2

LEMMA NothingOut == NoOut \in Responses /\ NoOut.code = "none" /\ NoOut.val = NULL /\ NoOut.len = NULL
BY DEF NoOut, Responses, Codes

OnlyMovedOut(w) == /\ out' \in [Workers -> Responses]
                   /\ \A v \in Workers \ {w} : out'[v] = out[v]

OnlyMovedAt(w, a, b) == /\ at[w] = a /\ at'[w] = b
                        /\ \A v \in Workers \ {w} : at'[v] = at[v]

LEMMA MovesOnly ==
  ASSUME Connected, NEW w \in Workers, NEW a, NEW b, Move(w, a, b)
  PROVE  OnlyMovedAt(w, a, b)
BY DEF Connected, Move, OnlyMovedAt

LEMMA TakeDoes ==
  ASSUME Connected, NEW w \in Workers, Take(w)
  PROVE  /\ OnlyMovedAt(w, "dequeue", "read")
         /\ queue # <<>> /\ queue' = Tail(queue)
         /\ conn'[w] = Head(queue) /\ \A v \in Workers \ {w} : conn'[v] = conn[v]
         /\ UNCHANGED <<clients, out, response, vars>>
BY MovesOnly DEF Take, Connected, Requested!Dequeue

ReadDone(w) ==
  LET c == conn[w] IN
  /\ at[w] = "read" /\ c \in Conns
  /\ client[c] # "silent" \/ hung[c]
  /\ \/ OnlyMovedAt(w, "read", "serve") /\ client[c] = "whole" /\ out'[w].code = "none"
     \/ /\ OnlyMovedAt(w, "read", "header") /\ out'[w].code = "UNSUPPORTED"
        /\ client[c] # "whole" \/ req[c].op = "malformed"
  /\ OnlyMovedOut(w) /\ out'[w].val = out[w].val /\ out'[w].len = out[w].len
  /\ UNCHANGED <<clients, queue, conn, response, vars>>

LEMMA ReadDoes ==
  ASSUME Connected, CreamTypes, NEW w \in Workers, Read(w)
  PROVE  ReadDone(w)
<1> DEFINE c == conn[w]
           readable == client[c] = "whole" /\ req[c].op # "malformed"
<1>1. UNCHANGED <<clients, queue, conn, response, vars>> /\ (client[c] # "silent" \/ hung[c])
  BY Zenon DEF Read, link
<1>2. at[w] = "read" /\ c \in Conns
  BY Zenon, HasRequest DEF Read, Move
<1>5. out \in [Workers -> Responses] /\ "none" \in Codes /\ "UNSUPPORTED" \in Codes
  BY DEF CreamTypes, Codes
<1>3. CASE readable
  <2>1. Move(w, "read", "serve") /\ out' = [out EXCEPT ![w].code = "none"]
    BY <1>3, Zenon DEF Read
  <2>2. OnlyMovedOut(w) /\ out'[w].code = "none" /\ out'[w].val = out[w].val /\ out'[w].len = out[w].len
    BY <2>1, <1>5, CodeSet DEF OnlyMovedOut
  <2>3. Move(w, "read", "serve")
    BY <2>1
  <2> QED BY <1>1, <1>2, <1>3, <2>2, <2>3, MovesOnly DEF ReadDone
<1>4. CASE ~readable
  <2>1. Move(w, "read", "header") /\ out' = [out EXCEPT ![w].code = "UNSUPPORTED"]
    BY <1>4, Zenon DEF Read
  <2>2. OnlyMovedOut(w) /\ out'[w].code = "UNSUPPORTED" /\ out'[w].val = out[w].val /\ out'[w].len = out[w].len
    BY <2>1, <1>5, CodeSet DEF OnlyMovedOut
  <2>3. Move(w, "read", "header")
    BY <2>1
  <2> QED BY <1>1, <1>2, <1>4, <2>2, <2>3, MovesOnly DEF ReadDone
<1> QED BY <1>3, <1>4

LEMMA ServeDoes ==
  ASSUME Connected, TypeOK, NEW w \in Workers, Serve(w)
  PROVE  /\ OnlyMovedAt(w, "serve", "await") /\ OnlyMoved(w)
         /\ pc[w] = "idle" /\ pc'[w] \in {"lock", "enter"}
         /\ req[conn[w]].op = "PUT" => call'[w].op = "put"
         /\ call'[w].op = "put" => call'[w].force
         /\ req[conn[w]].op = "GET" => call'[w].op = "get"
         /\ call'[w].op # "invalidate"
         /\ UNCHANGED <<clients, queue, conn, out, response, errno, map>>
<1>1. OnlyMovedAt(w, "serve", "await") /\ UNCHANGED <<clients, queue, conn, out, response, errno>>
  BY MovesOnly DEF Serve, link
<1> DEFINE r == req[conn[w]]
<1>2. \/ r.op = "PUT" /\ \E o \in Objs : KeyOf[o] = r.key /\ CallPut(w, o, TRUE)
      \/ r.op = "GET" /\ CallGet(w, r.key)
      \/ r.op = "EVICT" /\ CallDelete(w, r.key)
      \/ r.op = "CLEAR" /\ CallClear(w)
  BY DEF Serve
<1> HIDE DEF r
<1> DEFINE Begun(op) == /\ OnlyMoved(w) /\ UNCHANGED map
                        /\ pc[w] = "idle" /\ pc'[w] \in {"lock", "enter"} /\ call'[w].op = op
<1> USE DEF Start, KeyCall, map, locks, results, Goto, TypeOK, OnlyMoved, Workers
<1>3. ASSUME NEW o \in Objs, CallPut(w, o, TRUE) PROVE Begun("put") /\ call'[w].force
  BY <1>3 DEF CallPut
<1>4. CASE CallGet(w, r.key) /\ r.op = "GET"
  <2>1. Begun("get")
    BY <1>4 DEF CallGet
  <2> QED BY <1>1, <1>4, <2>1 DEF r
<1>5. CASE CallDelete(w, r.key) /\ r.op = "EVICT"
  <2>1. Begun("delete")
    BY <1>5 DEF CallDelete
  <2> QED BY <1>1, <1>5, <2>1 DEF r
<1>6. CASE CallClear(w) /\ r.op = "CLEAR"
  <2>1. Begun("clear")
    BY <1>6 DEF CallClear
  <2> QED BY <1>1, <1>6, <2>1 DEF r
<1> QED BY <1>1, <1>2, <1>3, <1>4, <1>5, <1>6 DEF r

DecideDone(w) ==
  /\ OnlyMovedAt(w, "await", "header") /\ OnlyMoved(w)
  /\ pc[w] = "ret" /\ pc'[w] = "idle" /\ call'[w].op = "none"
  /\ OnlyMovedOut(w) /\ Whole(out'[w])
  /\ req[conn[w]].op = "PUT" /\ ok[w] => out'[w].code = "OK"
  /\ out'[w].code = "NOT_FOUND" =>
       req[conn[w]].op = "GET" /\ (ret[w].base = NULL \/ ret[w].len = NULL)
  /\ UNCHANGED <<clients, queue, conn, response, errno, map>>

LEMMA DecideDoes ==
  ASSUME Connected, CreamTypes, TypeOK, NEW w \in Workers, Decide(w)
  PROVE  DecideDone(w)
<1> DEFINE op == req[conn[w]].op
           a == Answered(op, ok[w], ret[w])
<1>1. OnlyMovedAt(w, "await", "header") /\ UNCHANGED <<clients, queue, conn, response>>
  BY MovesOnly DEF Decide, link
<1>2. Return(w) /\ out' = [out EXCEPT ![w] = a]
  BY DEF Decide
<1>3. OnlyMoved(w) /\ pc[w] = "ret" /\ pc'[w] = "idle" /\ call'[w].op = "none"
      /\ UNCHANGED <<errno, map>>
  BY <1>2 DEF Return, OnlyMoved, Workers, Goto, TypeOK, NoCall, KeyCall, map
<1>4. ret[w].base \in Objs \cup {NULL} /\ ret[w].len \in Objs \cup {NULL}
  BY DEF TypeOK, Workers
<1>5. /\ a \in Responses /\ Whole(a)
      /\ op = "PUT" /\ ok[w] => a.code = "OK"
      /\ a.code = "NOT_FOUND" => op = "GET" /\ (ret[w].base = NULL \/ ret[w].len = NULL)
  <2>1. CASE op = "PUT"
    <3>1. a = [code |-> IF ok[w] THEN "OK" ELSE "BAD_REQUEST", val |-> NULL, len |-> NULL]
      BY <2>1 DEF Answered, NoOut
    <3> QED BY <2>1, <3>1 DEF Responses, Codes, Whole
  <2>2. CASE op = "GET" /\ ret[w].base # NULL /\ ret[w].len # NULL
    <3>1. a = [code |-> "OK", val |-> ret[w].base, len |-> ret[w].len]
      BY <2>2 DEF Answered
    <3> QED BY <1>4, <2>2, <3>1 DEF Responses, Codes, Whole
  <2>3. CASE op = "GET" /\ ~(ret[w].base # NULL /\ ret[w].len # NULL)
    <3>1. a = [code |-> "NOT_FOUND", val |-> NULL, len |-> NULL]
      BY <2>3 DEF Answered, NoOut
    <3> QED BY <2>3, <3>1 DEF Responses, Codes, Whole
  <2>4. CASE op # "PUT" /\ op # "GET"
    <3>1. a = [code |-> "OK", val |-> NULL, len |-> NULL]
      BY <2>4 DEF Answered, NoOut
    <3> QED BY <2>4, <3>1 DEF Responses, Codes, Whole
  <2> QED BY <2>1, <2>2, <2>3, <2>4
<1>6. OnlyMovedOut(w) /\ out'[w] = a
  BY <1>2, <1>5 DEF CreamTypes, OnlyMovedOut
<1> HIDE DEF a
<1> QED BY <1>1, <1>3, <1>5, <1>6 DEF DecideDone

LEMMA MapStepDoes ==
  ASSUME TypeOK, NEW w \in Workers, MapStep(w)
  PROVE  /\ OnlyMoved(w) /\ Moved(w) /\ Step(w)
         /\ pc[w] # "idle" /\ pc'[w] # "idle" /\ call' = call
         /\ UNCHANGED <<clients, queue, conn, at, out, response>>
<1>1. Step(w) /\ pc[w] # "ret" /\ UNCHANGED <<clients, queue, conn, at, out, response>>
  BY DEF MapStep, server, link
<1> QED BY <1>1, Moving DEF Moved, Workers

HeaderDone(w) ==
  LET c == conn[w] IN
  /\ c \in Conns
  /\ \/ OnlyMovedAt(w, "header", "value") /\ out[w].len # NULL
     \/ OnlyMovedAt(w, "header", "close") /\ out[w].len = NULL
  /\ response' \in [Conns -> Responses]
  /\ response'[c].code = out[w].code /\ response'[c].len = out[w].len
  /\ response'[c].val = response[c].val
  /\ \A d \in Conns \ {c} : response'[d] = response[d]
  /\ UNCHANGED <<clients, queue, conn, out, vars>>

LEMMA WriteHeaderDoes ==
  ASSUME Connected, CreamTypes, InStep, NEW w \in Workers, WriteHeader(w)
  PROVE  HeaderDone(w)
<1> DEFINE c == conn[w]
<1>1. UNCHANGED <<clients, queue, conn, out, vars>>
  BY DEF WriteHeader, link
<1>2. out[w].code \in Codes /\ out[w].len \in Objs \cup {NULL}
  BY ResponseFields DEF CreamTypes
<1>3. \/ OnlyMovedAt(w, "header", "value") /\ out[w].len # NULL
      \/ OnlyMovedAt(w, "header", "close") /\ out[w].len = NULL
  <2>1. CASE out[w].len # NULL
    <3>1. Move(w, "header", "value")
      BY <2>1 DEF WriteHeader
    <3> QED BY <2>1, <3>1, MovesOnly
  <2>2. CASE out[w].len = NULL
    <3>1. Move(w, "header", "close")
      BY <2>2 DEF WriteHeader
    <3> QED BY <2>2, <3>1, MovesOnly
  <2> QED BY <2>1, <2>2
<1>4. c \in Conns
  BY <1>3, HasRequest DEF OnlyMovedAt
<1>5. response' = [response EXCEPT ![c].code = out[w].code, ![c].len = out[w].len]
  BY Zenon DEF WriteHeader
<1>6. /\ response' \in [Conns -> Responses]
      /\ response'[c].code = out[w].code /\ response'[c].val = response[c].val
      /\ response'[c].len = out[w].len
      /\ \A d \in Conns \ {c} : response'[d] = response[d]
  <2>1. response \in [Conns -> Responses]
    BY DEF CreamTypes
  <2> HIDE DEF c
  <2>2. PICK h : h = [response EXCEPT ![c].code = out[w].code]
    OBVIOUS
  <2>3. /\ h \in [Conns -> Responses] /\ h[c].code = out[w].code /\ h[c].val = response[c].val
        /\ \A d \in Conns \ {c} : h[d] = response[d]
    BY <1>2, <1>4, <2>1, <2>2, CodeSet
  <2>4. response' = [h EXCEPT ![c].len = out[w].len]
    BY <1>5, <2>2, Zenon
  <2> QED BY <1>2, <1>4, <2>3, <2>4, LenSet
<1> QED BY <1>1, <1>3, <1>4, <1>6 DEF HeaderDone

ValueDone(w) ==
  LET c == conn[w] IN
  /\ c \in Conns
  /\ OnlyMovedAt(w, "value", "close")
  /\ response' \in [Conns -> Responses]
  /\ response'[c].code = response[c].code /\ response'[c].len = response[c].len
  /\ out[w].val # NULL => response'[c].val # NULL
  /\ \A d \in Conns \ {c} : response'[d] = response[d]
  /\ UNCHANGED <<clients, queue, conn, out, vars>>

LEMMA WriteValueDoes ==
  ASSUME Connected, CreamTypes, NEW w \in Workers, WriteValue(w)
  PROVE  ValueDone(w)
<1> DEFINE c == conn[w]
<1>1. UNCHANGED <<clients, queue, conn, out, vars>> /\ OnlyMovedAt(w, "value", "close")
  BY MovesOnly DEF WriteValue, link
<1>2. c \in Conns
  BY <1>1, HasRequest DEF OnlyMovedAt
<1>3. PICK v \in {"freed", out[w].val} : response' = [response EXCEPT ![c].val = v]
  <2>1. CASE out[w].val \in destroyed
    <3>1. response' = [response EXCEPT ![c].val = "freed"]
      BY <2>1, Zenon DEF WriteValue
    <3> QED BY <3>1, Zenon
  <2>2. CASE out[w].val \notin destroyed
    <3>1. response' = [response EXCEPT ![c].val = out[w].val]
      BY <2>2, Zenon DEF WriteValue
    <3> QED BY <3>1, Zenon
  <2> QED BY <2>1, <2>2
<1>4. v \in Objs \cup {NULL, "freed"} /\ (out[w].val # NULL => v # NULL)
  BY ResponseFields, CreamAssumption DEF CreamTypes
<1>5. /\ response' \in [Conns -> Responses]
      /\ response'[c].code = response[c].code /\ response'[c].val = v
      /\ response'[c].len = response[c].len
      /\ \A d \in Conns \ {c} : response'[d] = response[d]
  <2>1. response \in [Conns -> Responses]
    BY DEF CreamTypes
  <2> HIDE DEF c
  <2> QED BY <1>2, <1>3, <1>4, <2>1, ValSet
<1> QED BY <1>1, <1>2, <1>4, <1>5 DEF ValueDone

LEMMA CloseDoes ==
  ASSUME Connected, CreamTypes, TypeOK, NEW w \in Workers, Close(w)
  PROVE  /\ OnlyMovedAt(w, "close", "dequeue") /\ conn[w] \in Conns
         /\ conn'[w] = NULL /\ \A v \in Workers \ {w} : conn'[v] = conn[v]
         /\ OnlyMovedOut(w) /\ out'[w] = NoOut
         /\ errno'[w] = "0" /\ \A v \in Workers \ {w} : errno'[v] = errno[v]
         /\ UNCHANGED <<clients, queue, response, map, pc, call, slot, ret, ok>>
<1>1. /\ OnlyMovedAt(w, "close", "dequeue")
      /\ conn' = [conn EXCEPT ![w] = NULL] /\ out' = [out EXCEPT ![w] = NoOut]
      /\ ResetErrno(w) /\ UNCHANGED <<clients, queue, response>>
  BY MovesOnly DEF Close, Requested!Release
<1>2. conn[w] \in Conns
  BY <1>1, HasRequest DEF OnlyMovedAt
<1>3. OnlyMovedOut(w) /\ out'[w] = NoOut
  BY <1>1, NothingOut DEF CreamTypes, OnlyMovedOut
<1>4. /\ errno'[w] = "0" /\ \A v \in Workers \ {w} : errno'[v] = errno[v]
      /\ UNCHANGED <<map, pc, call, slot, ret, ok>>
  BY <1>1 DEF ResetErrno, TypeOK, Workers
<1>5. conn'[w] = NULL /\ \A v \in Workers \ {w} : conn'[v] = conn[v]
  BY <1>1 DEF Connected
<1> QED BY <1>1, <1>2, <1>3, <1>4, <1>5

LEMMA ExitDoes ==
  ASSUME NEW w \in Workers, Exit(w)
  PROVE  UNCHANGED <<clients, queue, conn, at, out, response, vars>>
BY DEF Exit, link

-----------------------------------------------------------------------------
(* Connections.                                                            *)

LEMMA AcceptDoes ==
  ASSUME Connected, CreamTypes, NEW c \in Conns, Accept(c)
  PROVE  /\ client[c] = "new" /\ client'[c] = "silent"
         /\ \A d \in Conns \ {c} : client'[d] = client[d]
         /\ queue' = Append(queue, c)
         /\ \A n \in DOMAIN queue : queue[n] # c
         /\ \A w \in Workers : conn[w] # c
         /\ UNCHANGED <<req, hung, conn, at, out, response, vars>>
BY DEF Accept, Requested!Enqueue, CreamTypes, Workers

LEMMA SendDoes ==
  ASSUME CreamTypes, NEW c \in Conns, Send(c)
  PROVE  /\ client[c] = "silent" /\ ~hung[c] /\ client'[c] \in {"whole", "short"}
         /\ \A d \in Conns \ {c} : client'[d] = client[d]
         /\ UNCHANGED <<req, hung, queue, conn, at, out, response, vars>>
BY DEF Send, CreamTypes, server, link

LEMMA HangUpDoes ==
  ASSUME CreamTypes, NEW c \in Conns, HangUp(c)
  PROVE  /\ client[c] # "new" /\ hung'[c] /\ \A d \in Conns \ {c} : hung'[d] = hung[d]
         /\ hung' \in [Conns -> BOOLEAN]
         /\ UNCHANGED <<client, req, queue, conn, at, out, response, vars>>
BY DEF HangUp, CreamTypes, server, link

\* The steps of a worker that leave its connection and the queue alone.
Inner(w) == Read(w) \/ Serve(w) \/ Decide(w) \/ WriteHeader(w) \/ WriteValue(w) \/ MapStep(w) \/ Exit(w)

LEMMA InnerKeeps ==
  ASSUME NEW w \in Workers, Inner(w)
  PROVE  UNCHANGED <<clients, queue, conn>>
BY Zenon DEF Inner, Read, Serve, Decide, WriteHeader, WriteValue, MapStep, Exit, link, server

LEMMA CreamSteps ==
  ASSUME CreamNext
  PROVE  \/ \E c \in Conns : Send(c) \/ HangUp(c) \/ Accept(c)
         \/ \E w \in Workers : NoteAbsence /\ (Take(w) \/ Close(w) \/ Inner(w))
BY Zenon DEF CreamNext, Work, Inner

LEMMA OnePlaceKept ==
  ASSUME Connected, CreamTypes, TypeOK, OnePlace, CreamNext
  PROVE  OnePlace'
<1>0. queue \in Seq(Conns) /\ conn \in [Workers -> Conns \cup {NULL}]
  BY DEF Connected
<1>1. ASSUME NEW c \in Conns, Send(c) \/ HangUp(c)
      PROVE  OnePlace'
  <2>1. /\ UNCHANGED <<queue, conn>>
        /\ \A d \in Conns : client[d] # "new" => client'[d] # "new"
    BY <1>1, SendDoes, HangUpDoes
  <2> QED BY <1>0, <2>1 DEF OnePlace
<1>2. ASSUME NEW c \in Conns, Accept(c)
      PROVE  OnePlace'
  <2>1. /\ DOMAIN queue' = DOMAIN queue \cup {Len(queue) + 1} /\ Len(queue) + 1 \notin DOMAIN queue
        /\ queue'[Len(queue) + 1] = c
        /\ \A n \in DOMAIN queue : queue'[n] = queue[n] /\ queue[n] # c
    <3>1. queue' = Append(queue, c) /\ \A n \in DOMAIN queue : queue[n] # c
      BY <1>2, AcceptDoes
    <3> QED BY <1>0, <3>1, Appended
  <2>2. \A d \in Conns : client[d] # "new" => client'[d] # "new"
    BY <1>2, AcceptDoes
  <2>3. conn' = conn /\ client'[c] # "new" /\ \A w \in Workers : conn[w] # c
    BY <1>2, AcceptDoes
  <2> QED BY <1>0, <2>1, <2>2, <2>3 DEF OnePlace
<1>3. ASSUME NEW w \in Workers, Take(w)
      PROVE  OnePlace'
  <2>1. /\ UNCHANGED client
        /\ conn'[w] = queue[1] /\ 1 \in DOMAIN queue
        /\ \A v \in Workers \ {w} : conn'[v] = conn[v]
        /\ \A n \in DOMAIN queue' : n + 1 \in DOMAIN queue /\ n + 1 # 1 /\ queue'[n] = queue[n + 1]
    BY <1>0, <1>3, TakeDoes, Shortened DEF clients
  <2>2. \A n \in DOMAIN queue' : n \in Nat
    BY <1>0, <1>3, TakeDoes, Shortened
  <2> QED BY <1>0, <2>1, <2>2 DEF OnePlace
<1>4. ASSUME NEW w \in Workers, Close(w)
      PROVE  OnePlace'
  <2>1. conn'[w] = NULL /\ (\A v \in Workers \ {w} : conn'[v] = conn[v]) /\ UNCHANGED <<queue, client>>
    BY <1>4, CloseDoes DEF clients
  <2> QED BY <1>0, <2>1, CreamAssumption DEF OnePlace
<1>5. ASSUME NEW w \in Workers, Inner(w)
      PROVE  OnePlace'
  BY <1>5, InnerKeeps DEF OnePlace, clients
<1> QED BY CreamSteps, <1>1, <1>2, <1>3, <1>4, <1>5

LEMMA CreamTypesKept ==
  ASSUME Connected, CreamTypes, TypeOK, InStep, CreamNext
  PROVE  CreamTypes'
<1>1. ASSUME NEW c \in Conns, Send(c) \/ HangUp(c) \/ Accept(c)
      PROVE  CreamTypes'
  BY <1>1 DEF Send, HangUp, Accept, server, CreamTypes
<1>2. ASSUME NEW w \in Workers, Take(w)
      PROVE  CreamTypes'
  BY <1>2, TakeDoes DEF CreamTypes, clients
<1>3. ASSUME NEW w \in Workers, Close(w)
      PROVE  CreamTypes'
  BY <1>3, CloseDoes DEF CreamTypes, clients, OnlyMovedOut
<1>4. ASSUME NEW w \in Workers, Inner(w)
      PROVE  CreamTypes'
  <2>1. client' = client /\ hung' = hung
    BY <1>4, InnerKeeps DEF clients
  <2>2. out' = out \/ OnlyMovedOut(w)
    BY <1>4, ReadDoes, ServeDoes, DecideDoes, WriteHeaderDoes, WriteValueDoes, MapStepDoes, ExitDoes
       DEF Inner, ReadDone, DecideDone, HeaderDone, ValueDone
  <2>3. response' = response \/ response' \in [Conns -> Responses]
    BY <1>4, ReadDoes, ServeDoes, DecideDoes, WriteHeaderDoes, WriteValueDoes, MapStepDoes, ExitDoes
       DEF Inner, ReadDone, DecideDone, HeaderDone, ValueDone
  <2> QED BY <2>1, <2>2, <2>3 DEF CreamTypes, OnlyMovedOut
<1> QED BY CreamSteps, <1>1, <1>2, <1>3, <1>4

-----------------------------------------------------------------------------
(* Workers and the map.                                                    *)

\* A step of the map changes neither the place nor the connection of a worker,
\* and only the worker that is at work on it.
LEMMA InStepKept ==
  ASSUME Connected, CreamTypes, TypeOK, OnePlace, InStep, CreamNext
  PROVE  InStep'
<1>0. conn \in [Workers -> Conns \cup {NULL}]
  BY DEF Connected
<1>1. ASSUME NEW c \in Conns, Send(c)
      PROVE  InStep'
  BY <1>0, <1>1, SendDoes DEF InStep, Connected, vars, WorkerPlaces, Answering
<1>2. ASSUME NEW c \in Conns, HangUp(c)
      PROVE  InStep'
  BY <1>0, <1>2, HangUpDoes DEF InStep, Connected, vars, WorkerPlaces, Answering
<1>3. ASSUME NEW c \in Conns, Accept(c)
      PROVE  InStep'
  BY <1>0, <1>3, AcceptDoes DEF InStep, Connected, vars, WorkerPlaces, Answering
<1>4. ASSUME NEW w \in Workers, Take(w)
      PROVE  InStep'
  BY <1>0, <1>4, TakeDoes DEF InStep, OnlyMovedAt, Answering, clients, vars
<1>5. ASSUME NEW w \in Workers, Close(w)
      PROVE  InStep'
  BY <1>0, <1>5, CloseDoes DEF InStep, OnlyMovedAt, Answering, clients
<1>6. ASSUME NEW w \in Workers, Inner(w)
      PROVE  InStep'
  <2>1. UNCHANGED <<client, req, hung, queue, conn>>
    BY <1>6, InnerKeeps DEF clients
  <2>2. CASE Read(w)
    BY <2>1, <2>2, ReadDoes DEF ReadDone, InStep, OnlyMovedAt, Answering, vars
  <2>3. CASE Serve(w)
    BY <2>1, <2>3, ServeDoes DEF InStep, OnlyMovedAt, OnlyMoved, Answering, Workers
  <2>4. CASE Decide(w)
    BY <2>1, <2>4, DecideDoes DEF DecideDone, InStep, OnlyMovedAt, OnlyMoved, Answering, Workers
  <2>5. CASE WriteHeader(w)
    BY <2>1, <2>5, WriteHeaderDoes DEF HeaderDone, InStep, OnlyMovedAt, Answering, vars
  <2>6. CASE WriteValue(w)
    BY <2>1, <2>6, WriteValueDoes DEF ValueDone, InStep, OnlyMovedAt, Answering, vars
  <2>7. CASE MapStep(w)
    BY <2>1, <2>7, MapStepDoes DEF InStep, OnlyMoved, Workers
  <2>8. CASE Exit(w)
    BY <2>1, <2>8, ExitDoes DEF InStep, vars
  <2> QED BY <1>6, <2>2, <2>3, <2>4, <2>5, <2>6, <2>7, <2>8 DEF Inner
<1> QED BY CreamSteps, <1>1, <1>2, <1>3, <1>4, <1>5, <1>6

\* put leaves a clean errno clean: the server always lets it overwrite.
LEMMA PutKeepsErrno ==
  ASSUME TypeOK, NEW w \in Workers, Step(w), pc[w] # "ret", call[w].op = "put",
         call[w].force, ~invalid, errno[w] = "0" \/ pc[w] \notin {"lock", "write"}, Calls
  PROVE  pc'[w] \in {"lock", "write", "ret"} => errno'[w] = "0" /\ (pc'[w] = "ret" => ok'[w])
<1>1. WriteLock(w) \/ PutVacant(w) \/ PutFull(w)
  <2>1. pc[w] \in {"lock", "write"}
    BY DEF Calls, Workers, Step, WriteLock, PutVacant, PutFull, Refuse, Delete, Clear, Invalidate,
       Finish, LoadNode, GetRefused, GetEnter, GetFirst, Scan, GetLeave, LoadBase, LoadLen, Return, Goto
  <2> QED BY <2>1 DEF Step, Refuse, Delete, Clear, Invalidate,
       Finish, LoadNode, GetRefused, GetEnter, GetFirst, Scan, GetLeave, LoadBase, LoadLen, Return, Goto
<1>2. pc[w] \in {"lock", "write"} /\ errno[w] = "0"
  BY <1>1 DEF WriteLock, PutVacant, PutFull, Finish, Goto
<1>3. CASE WriteLock(w)
  BY <1>2, <1>3 DEF WriteLock, results, Goto, TypeOK, Workers
<1>4. CASE PutVacant(w)
  BY <1>2, <1>4 DEF PutVacant, Answer, TypeOK, Workers
<1>5. CASE PutFull(w)
  BY <1>2, <1>5 DEF PutFull, Answer, TypeOK, Workers
<1> QED BY <1>1, <1>3, <1>4, <1>5

\* A worker's errno is its own.
LEMMA ErrnoIsOwn ==
  ASSUME TypeOK, NEW w \in Workers, Step(w)
  PROVE  \A v \in Workers \ {w} : errno'[v] = errno[v]
BY DEF Step, WriteLock, PutVacant, PutFull, Refuse, Delete, Clear, Invalidate, LoadNode, GetRefused,
       GetEnter, GetFirst, Scan, GetLeave, LoadBase, LoadLen, Return, SetErrno, Answer, results, TypeOK,
       Workers

LEMMA StaysOpen ==
  ASSUME HInv, NEW w \in Workers, Step(w), call[w].op # "invalidate", ~invalid
  PROVE  ~invalid'
<1>1. TableStep(w)
  BY TableSteps DEF Workers
<1> QED BY <1>1 DEF TableStep, StoreStep, Stores, BuryStep, Buries, WipeStep, map

LEMMA ErrnoKept ==
  ASSUME Connected, CreamTypes, HInv, InStep, ErrnoIsClean, CreamNext
  PROVE  ErrnoIsClean'
<1> USE DEF HInv
<1>1. ASSUME NEW c \in Conns, Send(c) \/ HangUp(c) \/ Accept(c)
      PROVE  ErrnoIsClean'
  <2>1. UNCHANGED <<at, vars>>
    BY <1>1, SendDoes, HangUpDoes, AcceptDoes
  <2> QED BY <2>1 DEF ErrnoIsClean, vars, map, results
<1>2. ASSUME NEW w \in Workers, Take(w)
      PROVE  ErrnoIsClean'
  BY <1>2, TakeDoes DEF ErrnoIsClean, OnlyMovedAt, vars, map, results
<1>3. ASSUME NEW w \in Workers, Close(w)
      PROVE  ErrnoIsClean'
  <2>1. pc[w] = "idle"
    BY <1>3, CloseDoes DEF InStep, OnlyMovedAt
  <2> QED BY <1>3, <2>1, CloseDoes DEF ErrnoIsClean, OnlyMovedAt, map
<1>4. ASSUME NEW w \in Workers, Inner(w)
      PROVE  ErrnoIsClean'
  <2>1. CASE Read(w)
    BY <2>1, ReadDoes DEF ReadDone, ErrnoIsClean, OnlyMovedAt, vars, map, results
  <2>2. CASE Serve(w)
    BY <2>2, ServeDoes DEF ErrnoIsClean, OnlyMovedAt, OnlyMoved, map, Workers
  <2>3. CASE Decide(w)
    BY <2>3, DecideDoes DEF DecideDone, ErrnoIsClean, OnlyMovedAt, OnlyMoved, map, Workers
  <2>4. CASE WriteHeader(w)
    BY <2>4, WriteHeaderDoes DEF HeaderDone, ErrnoIsClean, OnlyMovedAt, vars, map, results
  <2>5. CASE WriteValue(w)
    BY <2>5, WriteValueDoes DEF ValueDone, ErrnoIsClean, OnlyMovedAt, vars, map, results
  <2>6. CASE MapStep(w)
    <3>1. /\ OnlyMoved(w) /\ Step(w) /\ pc[w] # "ret" /\ pc[w] # "idle" /\ pc'[w] # "idle"
          /\ call' = call /\ at' = at
      BY <2>6, MapStepDoes DEF MapStep
    <3>2. ~invalid'
      BY <3>1, StaysOpen DEF ErrnoIsClean
    <3>3. at[w] = "await"
      BY <3>1 DEF InStep
    <3>4. \A v \in Workers \ {w} : errno'[v] = errno[v]
      BY <3>1, ErrnoIsOwn
    <3>5. ASSUME call[w].op = "put"
          PROVE  /\ pc'[w] \in {"lock", "write"} => errno'[w] = "0"
                 /\ pc'[w] = "ret" => ok'[w]
      <4>1. call[w].force
        BY <3>3, <3>5 DEF InStep
      <4>2. errno[w] = "0" \/ pc[w] \notin {"lock", "write"}
        BY <3>5 DEF ErrnoIsClean
      <4> QED BY <3>1, <3>5, <4>1, <4>2, PutKeepsErrno DEF ErrnoIsClean
    <3> QED BY <3>1, <3>2, <3>3, <3>4, <3>5 DEF ErrnoIsClean, OnlyMoved, Workers
  <2>7. CASE Exit(w)
    BY <2>7, ExitDoes DEF ErrnoIsClean, vars, map, results
  <2> QED BY <1>4, <2>1, <2>2, <2>3, <2>4, <2>5, <2>6, <2>7 DEF Inner
<1> QED BY CreamSteps, <1>1, <1>2, <1>3, <1>4

LEMMA LengthStays ==
  ASSUME HInv, NEW t \in Threads, TableStep(t), NEW i \in Slots,
         nodes[i].len # NULL, nodes'[i].len = NULL
  PROVE  WipeStep(t)
<1> USE DEF HInv
<1>1. CASE StoreStep(t)
  <2>1. PICK v \in Slots : Stores(t, v) /\ call[t].obj \in Objs
    BY <1>1 DEF StoreStep, Stores
  <2>2. nodes'[v] = Full(call[t].obj) /\ \A j \in Slots \ {v} : nodes'[j] = nodes[j]
    BY <2>1, StoreCounted
  <2> QED BY <2>1, <2>2, HashTableAssumption DEF Full
<1>2. CASE BuryStep(t)
  <2>1. PICK j \in Slots : Buries(t, j)
    BY <1>2 DEF BuryStep
  <2>2. nodes'[j].len = nodes[j].len /\ \A k \in Slots \ {j} : nodes'[k] = nodes[k]
    <3>1. \A k \in Slots \ {j} : nodes'[k] = nodes[k]
      BY <2>1, BuryCounted
    <3>2. nodes' = [nodes EXCEPT ![j].tomb = TRUE] /\ nodes \in [Slots -> Slot]
      BY <2>1 DEF Buries, Bury, TypeOK
    <3>3. nodes'[j] = [nodes[j] EXCEPT !.tomb = TRUE] /\ nodes[j] \in Slot
      BY <3>2
    <3> QED BY <3>1, <3>3, SlotBuried
  <2> QED BY <2>2
<1> QED BY <1>1, <1>2 DEF TableStep, map

LEMMA MatchIsLive ==
  ASSUME HInv, NEW k \in Keys, First(k, Matching(nodes, k)) # NoSlot
  PROVE  First(k, Matching(nodes, k)) \in Live(nodes)
<1>1. First(k, Matching(nodes, k)) \in Matching(nodes, k)
  <2>1. Matching(nodes, k) \subseteq Slots
    BY DEF Matching
  <2> QED BY <2>1, ProbingFinds
<1> QED BY <1>1, FoundPoints DEF Matching, Live, Vacant

LEMMA BaseKeepsLength ==
  ASSUME NEW f \in [Threads -> Loaded], NEW t \in Threads, NEW x \in Objs \cup {NULL}
  PROVE  [f EXCEPT ![t].base = x][t].len = f[t].len
<1>1. f[t] \in Loaded
  OBVIOUS
<1>2. [f[t] EXCEPT !.base = x].len = f[t].len
  BY <1>1 DEF Loaded
<1> QED BY <1>2

LEMMA LengthLoaded ==
  ASSUME NEW f \in [Threads -> Loaded], NEW t \in Threads, NEW x \in Objs \cup {NULL}
  PROVE  [f EXCEPT ![t].len = x][t].len = x
<1>1. f[t] \in Loaded
  OBVIOUS
<1>2. [f[t] EXCEPT !.len = x].len = x
  BY <1>1 DEF Loaded
<1> QED BY <1>2

\* A slot found by get keeps the length of some pair until a clear_map wipes it;
\* the key is missing then.
LEMMA LengthKept ==
  ASSUME HInv, Next, LengthOrAbsent
  PROVE  LengthOrAbsent'
<1> USE DEF HInv, Workers
<1>1. PICK t \in Threads :
        /\ Acts(t) /\ OnlyMoved(t)
        /\ \/ Called(t)
           \/ Step(t) /\ Moved(t)
           \/ pc'[t] = "idle" /\ UNCHANGED map
           \/ UNCHANGED <<map, pc, call, slot, ret>>
  BY OneActs
<1>2. \A u \in Threads :
        /\ pc'[u] # "idle" /\ pc[u] # "idle" /\ absent[u] => absent'[u]
        /\ pc'[u] # "idle" /\ Matching(nodes', call'[u].key) = {} => absent'[u]
  BY DEF Next, NoteAbsence
<1> DEFINE Slotted == {"load", "load_base", "load_len"}
<1>3. CASE Called(t)
  BY <1>1, <1>2, <1>3 DEF LengthOrAbsent, OnlyMoved, Called, map
<1>4. CASE pc'[t] = "idle" /\ UNCHANGED map
  BY <1>1, <1>2, <1>4 DEF LengthOrAbsent, OnlyMoved, map
<1>5. CASE UNCHANGED <<map, pc, call, slot, ret>>
  BY <1>2, <1>5 DEF LengthOrAbsent, map
<1>6. CASE Step(t) /\ Moved(t)
  <2>1. TableStep(t)
    BY <1>6, TableSteps
  <2>2. ASSUME NEW u \in Threads, u # t, call'[u].op = "get", pc'[u] \in Slotted,
               nodes'[slot'[u]].len = NULL
        PROVE  absent'[u]
    <3>1. /\ pc[u] = pc'[u] /\ slot'[u] = slot[u] /\ call'[u] = call[u]
          /\ slot[u] \in Slots /\ call[u].key \in Keys
      BY <1>1, <2>2, InGet DEF OnlyMoved, Found
    <3>2. CASE nodes[slot[u]].len = NULL
      BY <1>2, <2>2, <3>1, <3>2 DEF LengthOrAbsent
    <3>3. CASE nodes[slot[u]].len # NULL
      <4>1. WipeStep(t)
        BY <2>1, <2>2, <3>1, <3>3, LengthStays
      <4>2. Matching(nodes', call'[u].key) = {}
        BY <3>1, <4>1, HashTableAssumption DEF WipeStep, Matching
      <4> QED BY <1>2, <2>2, <4>2
    <3> QED BY <3>2, <3>3
  <2>3. ASSUME NEW u \in Threads, u # t, call'[u].op = "get", pc'[u] \in {"load_base", "ret"},
               ret'[u].len = NULL
        PROVE  absent'[u]
    BY <1>1, <1>2, <2>3 DEF OnlyMoved, LengthOrAbsent
  <2>4. ASSUME call'[t].op = "get", pc'[t] \in Slotted \cup {"ret"}
        PROVE  /\ pc'[t] \in Slotted /\ nodes'[slot'[t]].len = NULL => absent'[t]
               /\ pc'[t] \in {"load_base", "ret"} /\ ret'[t].len = NULL => absent'[t]
    <3>1. call' = call /\ call[t].op = "get" /\ pc[t] # "idle" /\ call[t].key \in Keys
      BY <1>6, <2>4 DEF Moved, Calls
    <3>2. GetRefused(t) \/ GetLeave(t) \/ LoadBase(t) \/ LoadLen(t)
      BY <1>6, <2>4, <3>1 DEF Moved, Calls, Step, WriteLock, PutVacant, PutFull, Refuse, Delete, Clear,
         Invalidate, Finish, LoadNode, GetEnter, GetFirst, Scan, Return, Goto, TypeOK
    <3>3. nodes' = nodes /\ slot' = slot
      BY <3>2 DEF GetRefused, GetLeave, LoadBase, LoadLen, map
    <3>4. ASSUME Matching(nodes, call[t].key) = {} PROVE absent'[t]
      BY <1>2, <2>4, <3>1, <3>3, <3>4
    <3>5. CASE GetRefused(t)
      BY <3>1, <3>4, <3>5, NoMatch DEF GetRefused, Goto, TypeOK
    <3>6. CASE GetLeave(t)
      <4>1. pc[t] = "leave" /\ slot[t] = First(call[t].key, Matching(nodes, call[t].key))
        BY <3>6 DEF GetLeave, Goto, ReadStable
      <4>2. CASE slot[t] = NoSlot
        BY <3>1, <3>4, <3>6, <4>1, <4>2, NoMatch
      <4>3. CASE slot[t] # NoSlot
        <5>1. slot[t] \in Live(nodes)
          BY <3>1, <4>1, <4>3, MatchIsLive
        <5>2. nodes[slot[t]].len # NULL
          BY <5>1 DEF LiveSlotsOwn, Live, Vacant
        <5>3. pc'[t] = "load"
          BY <3>6, <4>3 DEF GetLeave, Goto, TypeOK
        <5> QED BY <3>3, <5>2, <5>3
      <4> QED BY <4>2, <4>3
    <3> DEFINE len == nodes[slot[t]].len
    <3>7. ret \in [Threads -> Loaded]
      BY DEF TypeOK, Loaded
    <3>8. pc[t] \in Slotted =>
            nodes[slot[t]].base \in Objs \cup {NULL} /\ len \in Objs \cup {NULL}
      BY SlotFields DEF TypeOK, Found
    <3>9. pc[t] \in Slotted /\ len = NULL => absent'[t]
      BY <1>2, <2>4, <3>1 DEF LengthOrAbsent
    <3>10. CASE LoadBase(t)
      <4>1. pc[t] \in Slotted /\ ret' = [ret EXCEPT ![t].base = nodes[slot[t]].base]
            /\ (pc'[t] \in {"load_base", "ret"} => pc[t] = "load_base")
        BY <3>10 DEF LoadBase, Goto, TypeOK
      <4>2. ret'[t].len = ret[t].len
        BY <3>7, <3>8, <4>1, BaseKeepsLength
      <4> QED BY <1>2, <2>4, <3>1, <3>3, <3>9, <4>1, <4>2 DEF LengthOrAbsent
    <3>11. CASE LoadLen(t)
      <4>1. pc[t] \in Slotted /\ ret' = [ret EXCEPT ![t].len = len]
        BY <3>11 DEF LoadLen, Goto
      <4>2. ret'[t].len = len
        BY <3>7, <3>8, <4>1, LengthLoaded
      <4> QED BY <3>3, <3>9, <4>1, <4>2
    <3> QED BY <3>2, <3>5, <3>6, <3>10, <3>11
  <2> QED BY <2>2, <2>3, <2>4 DEF LengthOrAbsent
<1> QED BY <1>1, <1>3, <1>4, <1>5, <1>6

-----------------------------------------------------------------------------
(* Answers.                                                                *)

\* What a step of one worker does for the others: nothing.
LEMMA OthersAnswer ==
  ASSUME Connected, OnePlace, NEW w \in Workers, NEW v \in Workers \ {w}, Answers(v),
         at'[v] = at[v], conn'[v] = conn[v], out'[v] = out[v], UNCHANGED <<client, req>>,
         \A d \in Conns : d # conn[w] => response'[d] = response[d]
  PROVE  Answers(v)'
<1>1. CASE at[v] = "dequeue"
  BY <1>1 DEF Answers, Answering
<1>2. CASE at[v] # "dequeue"
  <2>1. conn[v] \in Conns /\ conn[v] # conn[w]
    BY <1>2, CreamAssumption DEF Connected, OnePlace
  <2>2. response'[conn[v]] = response[conn[v]]
    BY <2>1
  <2> QED BY <2>2 DEF Answers, Whole
<1> QED BY <1>1, <1>2

LEMMA AnswersKept ==
  ASSUME Connected, CreamTypes, TypeOK, OnePlace, InStep, ErrnoIsClean, Served,
         \A w \in Workers : Answers(w), CreamNext
  PROVE  \A w \in Workers : Answers(w)'
<1>1. ASSUME NEW c \in Conns, Send(c), NEW w \in Workers
      PROVE  Answers(w)'
  <2>1. at[w] \in Answering => conn[w] # c
    BY <1>1, SendDoes DEF InStep
  <2>2. at[w] \in Answering => conn[w] \in Conns
    BY DEF Connected, Answering
  <2> QED BY <1>1, <2>1, <2>2, SendDoes DEF Answers, Whole
<1>2. ASSUME NEW c \in Conns, HangUp(c), NEW w \in Workers
      PROVE  Answers(w)'
  BY <1>2, HangUpDoes DEF Answers, Whole
<1>3. ASSUME NEW c \in Conns, Accept(c), NEW w \in Workers
      PROVE  Answers(w)'
  <2>1. at[w] \in Answering => conn[w] \in Conns
    BY DEF Connected, Answering
  <2> QED BY <1>3, <2>1, AcceptDoes DEF Answers, Whole
<1>4. ASSUME NEW w \in Workers, Take(w)
      PROVE  \A v \in Workers : Answers(v)'
  <2>1. /\ OnlyMovedAt(w, "dequeue", "read") /\ UNCHANGED <<client, req, out, response>>
        /\ conn'[w] = queue[1] /\ 1 \in DOMAIN queue
        /\ \A v \in Workers \ {w} : conn'[v] = conn[v]
    BY <1>4, TakeDoes, Shortened DEF Connected, clients
  <2>2. Answers(w)'
    BY <2>1 DEF Answers, Answering, Served, OnlyMovedAt
  <2> QED BY <2>1, <2>2, OthersAnswer DEF OnlyMovedAt
<1>5. ASSUME NEW w \in Workers, Close(w)
      PROVE  \A v \in Workers : Answers(v)'
  <2>1. /\ OnlyMovedAt(w, "close", "dequeue") /\ OnlyMovedOut(w) /\ out'[w] = NoOut
        /\ UNCHANGED <<client, req, response>>
        /\ \A v \in Workers \ {w} : conn'[v] = conn[v]
    BY <1>5, CloseDoes DEF clients
  <2>2. Answers(w)'
    BY <2>1, NothingOut DEF Answers, Answering, OnlyMovedAt
  <2> QED BY <2>1, <2>2, OthersAnswer DEF OnlyMovedAt, OnlyMovedOut
<1>6. ASSUME NEW w \in Workers, Inner(w)
      PROVE  \A v \in Workers : Answers(v)'
  <2>1. UNCHANGED <<client, req, hung, queue, conn>>
    BY <1>6, InnerKeeps DEF clients
  <2>2. CASE Read(w)
    <3>1. Answers(w)'
      BY <2>1, <2>2, ReadDoes DEF ReadDone, Answers, Answering, Whole, OnlyMovedAt
    <3> QED BY <2>1, <2>2, <3>1, ReadDoes, OthersAnswer DEF ReadDone, OnlyMovedAt, OnlyMovedOut
  <2>3. CASE Serve(w)
    <3>1. Answers(w)'
      BY <2>1, <2>3, ServeDoes DEF Answers, Answering, OnlyMovedAt
    <3> QED BY <2>1, <2>3, <3>1, ServeDoes, OthersAnswer DEF OnlyMovedAt
  <2>4. CASE Decide(w)
    <3>1. DecideDone(w)
      BY <2>4, DecideDoes
    <3>2. req[conn[w]].op = "PUT" => out'[w].code = "OK"
      BY <3>1 DEF DecideDone, InStep, ErrnoIsClean, OnlyMovedAt
    <3>3. Answers(w)'
      BY <2>1, <3>1, <3>2 DEF DecideDone, Answers, Answering, OnlyMovedAt, Whole
    <3> QED BY <2>1, <3>1, <3>3, OthersAnswer DEF DecideDone, OnlyMovedAt, OnlyMovedOut
  <2>5. CASE WriteHeader(w)
    <3>1. HeaderDone(w)
      BY <2>5, WriteHeaderDoes
    <3>2. Answers(w)'
      BY <2>1, <3>1, NothingOut DEF HeaderDone, Answers, Answering, OnlyMovedAt, Whole
    <3> QED BY <2>1, <3>1, <3>2, OthersAnswer DEF HeaderDone, OnlyMovedAt
  <2>6. CASE WriteValue(w)
    <3>1. ValueDone(w)
      BY <2>6, WriteValueDoes
    <3>2. Answers(w)'
      BY <2>1, <3>1 DEF ValueDone, Answers, Answering, OnlyMovedAt, Whole
    <3> QED BY <2>1, <3>1, <3>2, OthersAnswer DEF ValueDone, OnlyMovedAt
  <2>7. CASE MapStep(w)
    BY <2>1, <2>7, MapStepDoes DEF Answers, Whole
  <2>8. CASE Exit(w)
    BY <2>1, <2>8, ExitDoes DEF Answers, Whole
  <2> QED BY <1>6, <2>2, <2>3, <2>4, <2>5, <2>6, <2>7, <2>8 DEF Inner
<1> QED BY CreamSteps, <1>1, <1>2, <1>3, <1>4, <1>5, <1>6

\* Only a worker that writes a header or a value changes what a connection, its
\* own, has received.
LEMMA ResponsesKept ==
  ASSUME Connected, CreamTypes, TypeOK, InStep, \A w \in Workers : Answers(w),
         NEW w \in Workers, Inner(w)
  PROVE  \A c \in Conns : response'[c] # response[c] =>
           /\ c = conn[w] /\ at[w] \in {"header", "value"}
           /\ response'[c].code # "none"
           /\ response'[c].code # response[c].code => response'[c].code = out[w].code
<1>1. CASE WriteHeader(w)
  BY <1>1, WriteHeaderDoes DEF HeaderDone, OnlyMovedAt, Answers, Answering, Whole
<1>2. CASE WriteValue(w)
  BY <1>2, WriteValueDoes DEF ValueDone, OnlyMovedAt, Answers, Answering
<1>3. CASE ~WriteHeader(w) /\ ~WriteValue(w)
  BY <1>3, ReadDoes, ServeDoes, DecideDoes, MapStepDoes, ExitDoes DEF Inner, ReadDone, DecideDone
<1> QED BY <1>1, <1>2, <1>3

LEMMA ServedKept ==
  ASSUME Connected, CreamTypes, TypeOK, OnePlace, InStep, Served,
         \A w \in Workers : Answers(w), CreamNext
  PROVE  Served'
<1>0. \A n \in DOMAIN queue : queue[n] \in Conns
  BY DEF Connected
<1>1. ASSUME NEW c \in Conns, Send(c)
      PROVE  Served'
  BY <1>0, <1>1, SendDoes DEF Served, Closed, Waiting, Whole
<1>2. ASSUME NEW c \in Conns, HangUp(c)
      PROVE  Served'
  BY <1>0, <1>2, HangUpDoes DEF Served, Closed, Waiting, Whole
<1>3. ASSUME NEW c \in Conns, Accept(c)
      PROVE  Served'
  <2>1. /\ client[c] = "new" /\ client'[c] = "silent" /\ \A d \in Conns \ {c} : client'[d] = client[d]
        /\ UNCHANGED <<hung, conn, response>>
        /\ response[c] = NoOut
    BY <1>3, AcceptDoes DEF Served
  <2>2. /\ DOMAIN queue' = DOMAIN queue \cup {Len(queue) + 1}
        /\ \A n \in DOMAIN queue : queue'[n] = queue[n]
        /\ queue'[Len(queue) + 1] = c /\ Len(queue) + 1 \notin DOMAIN queue
    <3>1. queue' = Append(queue, c)
      BY <1>3, AcceptDoes
    <3>2. queue \in Seq(Conns)
      BY DEF Connected
    <3> QED BY <3>1, <3>2, Appended
  <2>3. \A d \in Conns : Closed(d)' => Closed(d)
    BY <2>1, <2>2 DEF Closed, Waiting
  <2>4. \A n \in DOMAIN queue' : response'[queue'[n]] = NoOut
    BY <2>1, <2>2 DEF Served
  <2>5. \A d \in Conns : response'[d].code # "none" => client'[d] # "silent" \/ hung'[d]
    BY <2>1, NothingOut DEF Served
  <2> QED BY <2>1, <2>3, <2>4, <2>5 DEF Served, Whole
<1>4. ASSUME NEW w \in Workers, Take(w)
      PROVE  Served'
  <2>1. /\ UNCHANGED <<client, hung, response>>
        /\ conn[w] = NULL /\ conn'[w] = queue[1] /\ 1 \in DOMAIN queue
        /\ \A v \in Workers \ {w} : conn'[v] = conn[v]
    BY <1>4, TakeDoes, Shortened DEF Connected, clients, OnlyMovedAt
  <2>2. /\ \A n \in DOMAIN queue' : n + 1 \in DOMAIN queue /\ queue'[n] = queue[n + 1]
        /\ \A n \in DOMAIN queue : n # 1 => n - 1 \in DOMAIN queue' /\ queue'[n - 1] = queue[n]
    BY <1>4, TakeDoes, Shortened, SMTT(30) DEF Connected
  <2>3. ASSUME NEW c \in Conns, Waiting(c) PROVE Waiting(c)'
    <3>1. CASE \E n \in DOMAIN queue : queue[n] = c
      BY <2>1, <2>2, <3>1 DEF Waiting
    <3>2. CASE \E v \in Workers : conn[v] = c
      BY <2>1, <3>2, CreamAssumption DEF Waiting
    <3> QED BY <2>3, <3>1, <3>2 DEF Waiting
  <2> QED BY <2>1, <2>2, <2>3 DEF Served, Closed, Whole
<1>5. ASSUME NEW w \in Workers, Close(w)
      PROVE  Served'
  <2>1. /\ UNCHANGED <<client, hung, response, queue>> /\ at[w] = "close"
        /\ \A v \in Workers \ {w} : conn'[v] = conn[v]
    BY <1>5, CloseDoes DEF clients, OnlyMovedAt
  <2>2. Whole(response[conn[w]])
    BY <2>1 DEF Answers
  <2>3. ASSUME NEW c \in Conns, c # conn[w], Waiting(c) PROVE Waiting(c)'
    BY <2>1, <2>3 DEF Waiting
  <2> QED BY <2>1, <2>2, <2>3 DEF Served, Closed, Whole
<1>6. ASSUME NEW w \in Workers, Inner(w)
      PROVE  Served'
  <2>1. UNCHANGED <<client, hung, queue, conn>>
    BY <1>6, InnerKeeps DEF clients
  <2>2. ASSUME NEW c \in Conns, response'[c] # response[c]
        PROVE  /\ client[c] # "new" /\ (client[c] # "silent" \/ hung[c])
               /\ Waiting(c) /\ \A n \in DOMAIN queue : queue[n] # c
    <3>1. c = conn[w] /\ at[w] \in {"header", "value"}
      BY <1>6, <2>2, ResponsesKept
    <3> QED BY <3>1, CreamAssumption DEF OnePlace, InStep, Answering, Waiting
  <2>3. \A c \in Conns : Closed(c)' => Closed(c) /\ response'[c] = response[c]
    BY <2>1, <2>2 DEF Closed, Waiting
  <2> QED BY <1>0, <2>1, <2>2, <2>3 DEF Served, Whole
<1> QED BY CreamSteps, <1>1, <1>2, <1>3, <1>4, <1>5, <1>6

LEMMA PutsKept ==
  ASSUME Connected, CreamTypes, TypeOK, OnePlace, InStep, Served, PutIsAccepted,
         \A w \in Workers : Answers(w), CreamNext
  PROVE  PutIsAccepted'
<1>1. ASSUME NEW c \in Conns, Send(c) \/ HangUp(c) \/ Accept(c)
      PROVE  PutIsAccepted'
  <2>1. /\ UNCHANGED <<req, response>>
        /\ \A d \in Conns : client'[d] = "whole" => client[d] = "whole" \/ response[d].code = "none"
    BY <1>1, SendDoes, HangUpDoes, AcceptDoes DEF Served
  <2> QED BY <2>1 DEF PutIsAccepted
<1>2. ASSUME NEW w \in Workers, Take(w) \/ Close(w)
      PROVE  PutIsAccepted'
  BY <1>2, TakeDoes, CloseDoes DEF PutIsAccepted, clients
<1>3. ASSUME NEW w \in Workers, Inner(w)
      PROVE  PutIsAccepted'
  <2>1. UNCHANGED <<client, req>>
    BY <1>3, InnerKeeps DEF clients
  <2>2. ASSUME NEW c \in Conns, response'[c].code # response[c].code,
               req[c].op = "PUT", client[c] = "whole"
        PROVE  response'[c].code = "OK"
    BY <1>3, <2>2, ResponsesKept DEF Answers, Answering
  <2> QED BY <2>1, <2>2 DEF PutIsAccepted
<1> QED BY CreamSteps, <1>1, <1>2, <1>3

-----------------------------------------------------------------------------
(* The server.                                                             *)

LEMMA CInitially ==
  ASSUME CreamInit
  PROVE  CInv
<1>1. Connected
  BY DEF CreamInit, Connected, WorkerPlaces
<1>2. CreamTypes
  BY NothingOut DEF CreamInit, CreamTypes, Workers
<1>3. OnePlace /\ InStep /\ LengthOrAbsent
  BY DEF CreamInit, OnePlace, InStep, LengthOrAbsent, Init, NoCall, Answering, Workers
<1>4. ErrnoIsClean
  BY DEF CreamInit, ErrnoIsClean, Init, NoCall, KeyCall, Workers, create_map
<1>5. (\A w \in Workers : Answers(w)) /\ Served /\ PutIsAccepted
  BY NothingOut DEF CreamInit, Answers, Answering, Served, PutIsAccepted, Closed
<1> QED BY <1>1, <1>2, <1>3, <1>4, <1>5 DEF CInv

LEMMA CStep ==
  ASSUME HInv, CInv, [CreamNext]_creamVars
  PROVE  CInv'
<1>1. CASE UNCHANGED creamVars
  BY <1>1 DEF creamVars, clients, server, link, vars, map, results, CInv, Connected, CreamTypes,
     OnePlace, InStep, ErrnoIsClean, LengthOrAbsent, Answers, Served, PutIsAccepted, Whole, Closed, Waiting
<1>2. CASE CreamNext
  <2> USE <1>2 DEF CInv
  <2>1. TypeOK
    BY DEF HInv
  <2>2. Connected' /\ CreamTypes' /\ OnePlace' /\ InStep' /\ ErrnoIsClean'
    BY <2>1, ConnectedKept, CreamTypesKept, OnePlaceKept, InStepKept, ErrnoKept
  <2>3. (\A w \in Workers : Answers(w)') /\ Served' /\ PutIsAccepted'
    BY <2>1, AnswersKept, ServedKept, PutsKept
  <2>4. LengthOrAbsent'
    <3>1. CASE Next
      BY <3>1, LengthKept
    <3>2. CASE UNCHANGED vars
      BY <3>2 DEF LengthOrAbsent, vars, map, results
    <3> QED BY MapWorks, <3>1, <3>2
  <2> QED BY <2>2, <2>3, <2>4
<1> QED BY <1>1, <1>2

\* What ties the workers, the connections and the map together, at every moment.
THEOREM CreamInvariant == CreamSpec => []CInv
<1>1. CreamInit => CInv
  BY CInitially
<1>2. HInv /\ CInv /\ [CreamNext]_creamVars => CInv'
  BY CStep
<1> QED BY <1>1, <1>2, MapHolds, PTL DEF CreamSpec

\* One worker at a time answers a connection, and it is closed after its whole
\* response (thread and response_handler).
THEOREM ResponsesAreWhole == CreamSpec => []AnsweredBeforeClose
<1>1. CInv => AnsweredBeforeClose
  BY DEF CInv, OnePlace, Served, Whole, AnsweredBeforeClose
<1> QED BY <1>1, CreamInvariant, PTL

\* No PUT that arrives whole is refused, whatever its worker did before (errno is
\* reset between two connections).
THEOREM PutsAreAccepted == CreamSpec => []PutIsAccepted
<1>1. CInv => PutIsAccepted
  BY DEF CInv
<1> QED BY <1>1, CreamInvariant, PTL

\* NOT_FOUND is decided only when the key was missing at some moment of the call,
\* although get loads the pair after it has released the lock.
THEOREM NotFoundIsTrue == CreamSpec => NotFoundIsJustified
<1>1. HInv /\ CInv /\ [CreamNext]_creamVars =>
        [\A w \in Workers : out'[w].code = "NOT_FOUND" /\ out[w].code = "none" => absent[w]]_creamVars
  <2> SUFFICES ASSUME HInv, CInv, CreamNext, NEW w \in Workers,
                      out'[w].code = "NOT_FOUND", out[w].code = "none"
               PROVE  absent[w]
    OBVIOUS
  <2> USE DEF CInv
  <2>1. TypeOK /\ MissIsJustified
    BY DEF HInv
  <2>2. Decide(w)
    <3>1. ASSUME NEW c \in Conns, Send(c) \/ HangUp(c) \/ Accept(c) PROVE out' = out
      BY <3>1, SendDoes, HangUpDoes, AcceptDoes
    <3>2. ASSUME NEW v \in Workers, Take(v) \/ Close(v) PROVE out'[w] = out[w] \/ out'[w] = NoOut
      BY <2>1, <3>2, TakeDoes, CloseDoes DEF OnlyMovedOut
    <3>3. ASSUME NEW v \in Workers, Inner(v), ~Decide(w)
          PROVE  out'[w] = out[w] \/ out'[w].code # "NOT_FOUND"
      BY <2>1, <3>3, ReadDoes, ServeDoes, DecideDoes, WriteHeaderDoes, WriteValueDoes, MapStepDoes, ExitDoes
         DEF Inner, ReadDone, DecideDone, HeaderDone, ValueDone, OnlyMovedOut
    <3> QED BY CreamSteps, NothingOut, <3>1, <3>2, <3>3
  <2>3. /\ req[conn[w]].op = "GET" /\ (ret[w].base = NULL \/ ret[w].len = NULL)
        /\ at[w] = "await" /\ pc[w] = "ret"
    BY <2>1, <2>2, DecideDoes DEF DecideDone, OnlyMovedAt
  <2>4. call[w].op = "get"
    BY <2>3 DEF InStep
  <2> QED BY <2>1, <2>3, <2>4 DEF MissIsJustified, LengthOrAbsent, Workers
<1> QED BY <1>1, MapHolds, CreamInvariant, PTL DEF CreamSpec, NotFoundIsJustified
=============================================================================
