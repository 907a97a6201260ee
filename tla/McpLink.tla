-------------------------------- MODULE McpLink --------------------------------
(***************************************************************************)
(* The pipe between an MCPClient and a server such as ormica's own         *)
(* (ormica/mcp/client.py, server.py).  A call of a remote tool is a        *)
(* JSON-RPC request with the next id; the client then reads lines until    *)
(* one has the id it last gave out.  The client has no lock: async agents  *)
(* run its tools in worker threads (asyncio.to_thread, agent.py).          *)
(*                                                                         *)
(* A request is its id, a notification 0.  Whatever the server's tool does *)
(* it answers once and in order; it, or what it calls, may also print a    *)
(* line that is no JSON, and it may die.                                   *)
(***************************************************************************)
EXTENDS Naturals, Sequences, FiniteSets

CONSTANTS
  Callers,    \* threads that use the client
  MaxIds,     \* bound on the requests
  MaxNoise    \* bound on the lines that are no JSON

ASSUME McpAssumption == {MaxIds, MaxNoise} \subseteq Nat

VARIABLES
  lastId,        \* _id
  greeted,       \* _initialized
  requests,      \* the server's stdin
  lines,         \* the server's stdout: ids of answers, 0 where it is no JSON
  serving,       \* the server is alive
  callerAt,      \* caller -> where it is in _rpc
  ownId,         \* caller -> the id its request went out with
  noises,
  taken,         \* ghost: <<id of the request, id of the answer it got>>
  overlapped     \* ghost: two calls were under way at once

mcpVars == <<lastId, greeted, requests, lines, serving, callerAt, ownId, noises, taken, overlapped>>

McpInit ==
  /\ lastId = 0 /\ greeted = FALSE
  /\ requests = <<>> /\ lines = <<>> /\ serving = TRUE
  /\ callerAt = [c \in Callers |-> "idle"]
  /\ ownId = [c \in Callers |-> 0]
  /\ noises = 0 /\ taken = {} /\ overlapped = FALSE

Moves(c, place) == callerAt' = [callerAt EXCEPT ![c] = place]

-------------------------------------------------------------------------------
(* The client *)

\* call, list_tools: a request begins, the handshake's or, once it is done, the
\* caller's own.
Numbered(c) ==
  /\ callerAt[c] \in {"idle", "greeted"}
  /\ lastId < MaxIds
  /\ lastId' = lastId + 1
  /\ Moves(c, IF greeted THEN "call" ELSE "hello")
  /\ overlapped' = (overlapped \/ \E d \in Callers \ {c} : callerAt[d] # "idle")
  /\ UNCHANGED <<greeted, requests, lines, serving, ownId, noises, taken>>

\* The id is read once more for the message; a closed pipe raises.
Posted(c) ==
  /\ callerAt[c] \in {"hello", "call"}
  /\ ownId' = [ownId EXCEPT ![c] = lastId]
  /\ IF serving
     THEN requests' = Append(requests, lastId)
          /\ Moves(c, IF callerAt[c] = "hello" THEN "greets" ELSE "reads")
     ELSE UNCHANGED requests /\ Moves(c, "idle")
  /\ UNCHANGED <<lastId, greeted, lines, serving, noises, taken, overlapped>>

Reading(c) == callerAt[c] \in {"reads", "greets"}

\* The result of the handshake, followed by a notification.
Greets(c) ==
  /\ callerAt[c] = "greets" /\ serving
  /\ greeted' = TRUE
  /\ requests' = Append(requests, 0)
  /\ Moves(c, "greeted")

\* The result of a call; or an error, which _rpc raises, of the handshake too; or
\* the handshake's result where the notification finds the pipe closed.
Ends(c) ==
  /\ Moves(c, "idle")
  /\ UNCHANGED <<greeted, requests>>

Taken(c, id) ==
  /\ taken' = taken \cup {<<ownId[c], id>>}
  /\ Greets(c) \/ Ends(c)

\* Mutant: the next line is the answer.
ReadNext(c) ==
  /\ Reading(c) /\ lines # <<>> /\ Head(lines) # 0
  /\ lines' = Tail(lines)
  /\ Taken(c, Head(lines))
  /\ UNCHANGED <<lastId, serving, ownId, noises, overlapped>>

\* A line with another id is skipped.
ReadAnswer(c) ==
  /\ Reading(c) /\ lines # <<>> /\ Head(lines) # 0
  /\ lines' = Tail(lines)
  /\ IF Head(lines) = lastId
     THEN Taken(c, Head(lines))
     ELSE UNCHANGED <<greeted, requests, callerAt, taken>>
  /\ UNCHANGED <<lastId, serving, ownId, noises, overlapped>>

\* json.loads raises on noise, and the end of the pipe does: the call is over,
\* its answer may still come.
ReadFails(c) ==
  /\ Reading(c)
  /\ \/ lines # <<>> /\ Head(lines) = 0 /\ lines' = Tail(lines)
     \/ lines = <<>> /\ ~serving /\ UNCHANGED lines
  /\ Moves(c, "idle")
  /\ UNCHANGED <<lastId, greeted, requests, serving, ownId, noises, taken, overlapped>>

-------------------------------------------------------------------------------
(* The server *)

\* serve_stdio and handle: every request is answered, notifications are not.
Serves ==
  /\ serving /\ requests # <<>>
  /\ requests' = Tail(requests)
  /\ lines' = IF Head(requests) = 0 THEN lines ELSE Append(lines, Head(requests))
  /\ UNCHANGED <<lastId, greeted, serving, callerAt, ownId, noises, taken, overlapped>>

\* A line of a library or of a tool on stdout.
Noise ==
  /\ serving /\ noises < MaxNoise
  /\ noises' = noises + 1
  /\ lines' = Append(lines, 0)
  /\ UNCHANGED <<lastId, greeted, requests, serving, callerAt, ownId, taken, overlapped>>

\* close, or the process dies.
ServerGone ==
  /\ serving
  /\ serving' = FALSE /\ requests' = <<>>
  /\ UNCHANGED <<lastId, greeted, lines, callerAt, ownId, noises, taken, overlapped>>

McpNext ==
  \/ \E c \in Callers : Numbered(c) \/ Posted(c) \/ ReadAnswer(c) \/ ReadFails(c)
  \/ Serves \/ Noise \/ ServerGone

-------------------------------------------------------------------------------
(* As long as no two calls overlap, a call gets the answer to its own        *)
(* request, whatever earlier calls have left in the pipe when they failed;   *)
(* and while it waits that answer is still to come (MCPClient._rpc).         *)
AnswersMatch ==
  ~overlapped =>
    /\ \A pair \in taken : pair[1] = pair[2]
    /\ \A c \in Callers : Reading(c) /\ serving =>
         Cardinality({i \in DOMAIN requests : requests[i] = ownId[c]})
           + Cardinality({i \in DOMAIN lines : lines[i] = ownId[c]}) = 1
================================================================================
