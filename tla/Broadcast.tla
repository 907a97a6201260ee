-------------------------------- MODULE Broadcast ------------------------------
(***************************************************************************)
(* Events on their way to the browsers of the dashboard: EventBus.emit     *)
(* (ormica/observe/bus.py) notifies the SSEObserver (ormica/dashboard/     *)
(* observer.py), which puts the event into the bounded queue of every      *)
(* browser; a thread of the server takes it from there and writes it to    *)
(* the browser (ormica/dashboard/server.py).  Runners, agents in worker    *)
(* threads and the threads of the browsers run at the same time.           *)
(*                                                                         *)
(* An event is <<emitter, number>>.                                        *)
(***************************************************************************)
EXTENDS Naturals, Sequences, Functions

CONSTANTS
  Emitters,   \* threads that emit
  Browsers,   \* connections, each opened once
  Capacity,   \* of a queue
  MaxEvents   \* bound on the events of one emitter

ASSUME BroadcastAssumption == Capacity \in Nat \ {0} /\ MaxEvents \in Nat

VARIABLES
  queues,      \* _queues: the subscribed browsers
  waitingFor,  \* browser -> the events in its queue
  link,        \* browser -> "new", "open", "broken", "gone"
  emitted,     \* emitter -> events emitted so far
  round,       \* emitter -> the browsers notify goes through
  reached,     \* emitter -> how many of them it has done
  shown,       \* browser -> ghost: the events it was sent
  missed,      \* browser -> ghost: the events its full queue dropped
  due          \* browser -> ghost: events whose notify found it subscribed

feedVars == <<queues, waitingFor, link, emitted, round, reached, shown, missed, due>>

FeedInit ==
  /\ queues = <<>>
  /\ waitingFor = [b \in Browsers |-> <<>>]
  /\ link = [b \in Browsers |-> "new"]
  /\ emitted = [e \in Emitters |-> 0]
  /\ round = [e \in Emitters |-> <<>>]
  /\ reached = [e \in Emitters |-> 0]
  /\ shown = [b \in Browsers |-> <<>>]
  /\ missed = [b \in Browsers |-> {}]
  /\ due = [b \in Browsers |-> {}]

Event(e) == <<e, emitted[e]>>
Notifying(e) == reached[e] < Len(round[e])

-------------------------------------------------------------------------------
(* The emitters *)

\* emit, and notify up to its snapshot of the queues.
EmitEvent(e) ==
  /\ ~Notifying(e) /\ emitted[e] < MaxEvents
  /\ emitted' = [emitted EXCEPT ![e] = @ + 1]
  /\ round' = [round EXCEPT ![e] = queues]
  /\ reached' = [reached EXCEPT ![e] = 0]
  /\ due' = [b \in Browsers |-> IF b \in Range(queues) THEN due[b] \cup {<<e, emitted[e] + 1>>}
                                ELSE due[b]]
  /\ UNCHANGED <<queues, waitingFor, link, shown, missed>>

\* put_nowait into the queue of b.
Offer(e, b) ==
  IF Len(waitingFor[b]) < Capacity
  THEN /\ waitingFor' = [waitingFor EXCEPT ![b] = Append(@, Event(e))]
       /\ UNCHANGED missed
  ELSE /\ missed' = [missed EXCEPT ![b] = @ \cup {Event(e)}]
       /\ UNCHANGED waitingFor

\* One browser further.
Put(e) ==
  /\ Notifying(e)
  /\ Offer(e, round[e][reached[e] + 1])
  /\ reached' = [reached EXCEPT ![e] = @ + 1]
  /\ UNCHANGED <<queues, link, emitted, round, shown, due>>

-------------------------------------------------------------------------------
(* The threads of the browsers *)

\* GET /events.
Connect(b) ==
  /\ link[b] = "new"
  /\ link' = [link EXCEPT ![b] = "open"]
  /\ queues' = Append(queues, b)
  /\ UNCHANGED <<waitingFor, emitted, round, reached, shown, missed, due>>

\* unsubscribe: list.remove.
Unsubscribe(b) ==
  LET i == CHOOSE i \in DOMAIN queues : queues[i] = b
  IN queues' = SubSeq(queues, 1, i - 1) \o SubSeq(queues, i + 1, Len(queues))

\* An event is taken and written, in vain where the browser has gone away, and
\* then the loop ends.
Stream(b) ==
  /\ link[b] \in {"open", "broken"} /\ waitingFor[b] # <<>>
  /\ waitingFor' = [waitingFor EXCEPT ![b] = Tail(@)]
  /\ IF link[b] = "open"
     THEN /\ shown' = [shown EXCEPT ![b] = Append(@, Head(waitingFor[b]))]
          /\ UNCHANGED <<link, queues>>
     ELSE /\ link' = [link EXCEPT ![b] = "gone"]
          /\ Unsubscribe(b)
          /\ UNCHANGED shown
  /\ UNCHANGED <<emitted, round, reached, missed, due>>

\* A keepalive that cannot be written ends the loop as well.
Keepalive(b) ==
  /\ link[b] = "broken" /\ waitingFor[b] = <<>>
  /\ link' = [link EXCEPT ![b] = "gone"]
  /\ Unsubscribe(b)
  /\ UNCHANGED <<waitingFor, emitted, round, reached, shown, missed, due>>

\* The browser goes away.
HangUp(b) ==
  /\ link[b] = "open"
  /\ link' = [link EXCEPT ![b] = "broken"]
  /\ UNCHANGED <<queues, waitingFor, emitted, round, reached, shown, missed, due>>

FeedNext ==
  \/ \E e \in Emitters : EmitEvent(e) \/ Put(e)
  \/ \E b \in Browsers : Connect(b) \/ Stream(b) \/ Keepalive(b) \/ HangUp(b)

-------------------------------------------------------------------------------
\* The events of b that are still to be put into its queue.
OnTheWay(b) ==
  {Event(e) : e \in {e \in Emitters :
     \E i \in DOMAIN round[e] : i > reached[e] /\ round[e][i] = b}}

(* Whoever connects and leaves meanwhile, a browser that stays gets the      *)
(* events of a thread in their order, none twice, and misses one only        *)
(* because its queue was full when the event came to it (SSEObserver.notify).*)
FeedKept ==
  \A b \in Browsers : link[b] = "open" =>
    LET had == shown[b] \o waitingFor[b]
    IN /\ due[b] = Range(had) \cup missed[b] \cup OnTheWay(b)
       /\ Range(had) \cap (missed[b] \cup OnTheWay(b)) = {}
       /\ \A i, j \in DOMAIN had : i < j /\ had[i][1] = had[j][1] => had[i][2] < had[j][2]
================================================================================
