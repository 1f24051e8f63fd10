------------------------------- MODULE Cream --------------------------------
(***************************************************************************)
(* hw5/src/cream.c: the server.  main accepts connections into the request *)
(* queue; each worker takes one, reads one request, runs it on the map,    *)
(* answers, closes and comes back.  The queue is the abstract Fifo that    *)
(* Queue.tla implements; the map's calls are those of HashMap.tla, step by *)
(* step, with the workers as its threads.  The csapp wrappers call exit    *)
(* when a read or a write fails, which stops every thread.                 *)
(***************************************************************************)
EXTENDS HashMap, Sequences

CONSTANTS Conns,    \* the connections clients open
          Requests  \* what a client may send: [op, key]

ASSUME CreamAssumption ==
  /\ Requests \subseteq [op : {"PUT", "GET", "EVICT", "CLEAR", "malformed"}, key : Keys]
  /\ NULL \notin Conns \cup {"freed"}

VARIABLES running,           \* no thread has called exit
          client, req, hung, \* each client: what it has sent, and whether it is gone
          queue, conn,       \* requestQueue and the worker's connfd
          dropped, shut,     \* what invalidate_queue would change: main never gets there
          at, out,           \* the worker's place in thread(), and its response
          response           \* what the client of a connection has received

link == <<queue, conn, dropped, shut>>
clients == <<client, req, hung>>
server == <<running, link, at, out, response>>
creamVars == <<clients, server, vars>>

Workers == Threads
NoOut == [code |-> "none", val |-> NULL, len |-> NULL]

CreamInit == /\ Init
             /\ running = TRUE
             /\ client = [c \in Conns |-> "new"]
             /\ req \in [Conns -> Requests]
             /\ hung = [c \in Conns |-> FALSE]
             /\ queue = <<>> /\ dropped = {} /\ shut = FALSE
             /\ conn = [w \in Workers |-> NULL]
             /\ at = [w \in Workers |-> "dequeue"]
             /\ out = [w \in Workers |-> NoOut]
             /\ response = [c \in Conns |-> NoOut]

Requested == INSTANCE Fifo WITH Items <- Conns, Threads <- Workers, q <- queue,
                                got <- conn, destroyed <- dropped, closed <- shut

-----------------------------------------------------------------------------
(* The clients.  One may send its request, stop half way through it (the   *)
(* server reads end of file), or say nothing; and close or reset at will.  *)

Send(c) == /\ client[c] = "silent" /\ ~hung[c]
           /\ \E how \in {"whole", "short"} : client' = [client EXCEPT ![c] = how]
           /\ UNCHANGED <<req, hung, server, vars>>

HangUp(c) == /\ client[c] # "new" /\ ~hung[c]
             /\ hung' = [hung EXCEPT ![c] = TRUE]
             /\ UNCHANGED <<client, req, server, vars>>

\* Accept and enqueue, in main.
Accept(c) == /\ client[c] = "new"
             /\ client' = [client EXCEPT ![c] = "silent"]
             /\ Requested!Enqueue(c)
             /\ UNCHANGED <<req, hung, running, at, out, response, vars>>

-----------------------------------------------------------------------------
(* The workers.                                                            *)

Move(w, a, b) == at[w] = a /\ at' = [at EXCEPT ![w] = b]

\* unix_error: the whole process exits.
Exit(w) == /\ hung[conn[w]]
           /\ running' = FALSE
           /\ UNCHANGED <<clients, link, at, out, response, vars>>

Take(w) == /\ Move(w, "dequeue", "read")
           /\ Requested!Dequeue(w)
           /\ UNCHANGED <<clients, running, out, response, vars>>

\* Mutant: no answer to a request that cannot be read.
Read_silently(w) ==
  LET c == conn[w]
      readable == client[c] = "whole" /\ req[c].op # "malformed"
  IN  /\ Move(w, "read", IF readable THEN "serve" ELSE "close")
      /\ client[c] # "silent" \/ hung[c]
      /\ UNCHANGED <<clients, running, link, out, response, vars>>

\* Mutant: the worker waits for the rest of a request that is too short.
Read_waits(w) ==
  LET c == conn[w]
      readable == client[c] = "whole" /\ req[c].op # "malformed"
  IN  /\ Move(w, "read", IF readable THEN "serve" ELSE "header")
      /\ client[c] = "whole"
      /\ out' = [out EXCEPT ![w].code = IF readable THEN "none" ELSE "UNSUPPORTED"]
      /\ UNCHANGED <<clients, running, link, response, vars>>

\* request_handler: a short or malformed request becomes UNKNOWN.
Read(w) ==
  LET c == conn[w]
      readable == client[c] = "whole" /\ req[c].op # "malformed"
  IN  /\ Move(w, "read", IF readable THEN "serve" ELSE "header")
      /\ client[c] # "silent" \/ hung[c]
      /\ out' = [out EXCEPT ![w].code = IF readable THEN "none" ELSE "UNSUPPORTED"]
      /\ UNCHANGED <<clients, running, link, response, vars>>

\* hashmap_handler calls the map; a PUT's key and value are freshly allocated.
Serve(w) ==
  LET r == req[conn[w]]
  IN  /\ Move(w, "serve", "await")
      /\ \/ r.op = "PUT" /\ \E o \in Objs : KeyOf[o] = r.key /\ CallPut(w, o, TRUE)
         \/ r.op = "GET" /\ CallGet(w, r.key)
         \/ r.op = "EVICT" /\ CallDelete(w, r.key)
         \/ r.op = "CLEAR" /\ CallClear(w)
      /\ UNCHANGED <<clients, running, link, out, response, errno>>

\* The response for what the map answered.
Answered(op, stored, found) ==
  CASE op = "PUT" -> [NoOut EXCEPT !.code = IF stored THEN "OK" ELSE "BAD_REQUEST"]
    [] op = "GET" -> IF found.base # NULL /\ found.len # NULL
                       THEN [code |-> "OK", val |-> found.base, len |-> found.len]
                       ELSE [NoOut EXCEPT !.code = "NOT_FOUND"]
    [] OTHER      -> [NoOut EXCEPT !.code = "OK"]

Decide(w) == /\ Move(w, "await", "header")
             /\ out' = [out EXCEPT ![w] = Answered(req[conn[w]].op, ok[w], ret[w])]
             /\ Return(w)
             /\ UNCHANGED <<clients, running, link, response>>

\* response_handler: the header, then the bytes the map's pointer leads to, if
\* nothing has freed them by now.
WriteHeader(w) == /\ Move(w, "header", IF out[w].len # NULL THEN "value" ELSE "close")
                  /\ response' = [response EXCEPT ![conn[w]].code = out[w].code,
                                                  ![conn[w]].len = out[w].len]
                  /\ UNCHANGED <<clients, running, link, out, vars>>

WriteValue(w) == /\ Move(w, "value", "close")
                 /\ response' = [response EXCEPT ![conn[w]].val =
                                   IF out[w].val \in destroyed THEN "freed" ELSE out[w].val]
                 /\ UNCHANGED <<clients, running, link, out, vars>>

\* Mutant: errno is not reset between two connections.
Close_keepsErrno(w) == /\ Move(w, "close", "dequeue")
                       /\ Requested!Release(w)
                       /\ out' = [out EXCEPT ![w] = NoOut]
                       /\ UNCHANGED <<clients, running, response, vars>>

Close(w) == /\ Move(w, "close", "dequeue")
            /\ Requested!Release(w)
            /\ out' = [out EXCEPT ![w] = NoOut]
            /\ ResetErrno(w)
            /\ UNCHANGED <<clients, running, response>>

-----------------------------------------------------------------------------
MapStep(w) == /\ pc[w] # "ret" /\ Step(w)
              /\ UNCHANGED <<clients, server>>

Work(w) == /\ running
           /\ \/ Take(w) \/ Read(w) \/ Serve(w) \/ Decide(w)
              \/ WriteHeader(w) \/ WriteValue(w) \/ Close(w) \/ MapStep(w)
              \/ at[w] \in {"read", "header", "value"} /\ Exit(w)
           /\ NoteAbsence

CreamNext == \/ \E c \in Conns : /\ running
                                 /\ Send(c) \/ HangUp(c) \/ Accept(c)
             \/ \E w \in Workers : Work(w)

CreamSpec == CreamInit /\ [][CreamNext]_creamVars

\* Every worker that can run runs.
CreamFairSpec == CreamSpec /\ \A w \in Workers : WF_creamVars(Work(w))

-----------------------------------------------------------------------------
(* The properties.                                                         *)

Codes == {"none", "OK", "UNSUPPORTED", "BAD_REQUEST", "NOT_FOUND"}
Responses == [code : Codes, val : Objs \cup {NULL, "freed"}, len : Objs \cup {NULL}]

Waiting(c) == \/ \E n \in DOMAIN queue : queue[n] = c
              \/ \E w \in Workers : conn[w] = c
Closed(c) == client[c] # "new" /\ ~Waiting(c)

\* One worker at a time answers a connection, and a connection that is closed has
\* had its whole response: what the header announced, then the value
\* (cream.c 116-137 and 178-192).
AnsweredBeforeClose ==
  /\ \A v, w \in Workers : conn[v] = conn[w] /\ conn[v] # NULL => v = w
  /\ \A c \in Conns : Closed(c) => /\ response[c].code # "none"
                                   /\ response[c].val = NULL <=> response[c].len = NULL

\* A PUT that arrives whole is never refused: the map is told to overwrite, and
\* whatever earlier calls of this worker left in errno, put's answer depends on
\* it (cream.c 145-147 and 191, hashmap.c 64).
PutIsAccepted == \A c \in Conns : /\ req[c].op = "PUT" /\ client[c] = "whole"
                                  /\ response[c].code # "none"
                                  => response[c].code = "OK"

\* NOT_FOUND tells the client the truth about some moment of its request: a value
\* that was there all along is found, although its length is read after the lock
\* is released (cream.c 151-158, hashmap.c 107-108).
NotFoundIsJustified ==
  [][\A w \in Workers : out'[w].code = "NOT_FOUND" /\ out[w].code = "none" => absent[w]]_creamVars

\* If every client sooner or later sends something or goes away, every connection
\* is closed in the end, unless a client that hung up has stopped the server.
EveryConnectionCloses ==
  (\A c \in Conns : []<>(client[c] \in {"short", "whole"} \/ hung[c]))
    => \A c \in Conns : (client[c] # "new") ~> (Closed(c) \/ ~running)
=============================================================================
