-------------------------------- MODULE Observers ------------------------------
(***************************************************************************)
(* The observers of the event bus that keep something of a run             *)
(* (ormica/observe/bus.py): the feed of the dashboard, module Broadcast,   *)
(* and the traces, module Trails.  The bus notifies each of them by itself *)
(* and neither reads what the other keeps.                                 *)
(***************************************************************************)
EXTENDS Broadcast, Trails

(* What an observer shows of a run is what the run emitted: the feed of the  *)
(* dashboard to each browser, and the trace of each task (SSEObserver,       *)
(* TraceObserver).                                                           *)
ObservedWhole == FeedKept /\ TrailsTell
================================================================================
