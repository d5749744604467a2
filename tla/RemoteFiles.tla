------------------------------ MODULE RemoteFiles ------------------------------
(*****************************************************************************)
(* The Files page of the Human UI on a remote worker: ui/http/remote_files.py *)
(* over the registry of live_state.py. UiRequests share one cached session of  *)
(* the worker, made when it is needed, replaced when the worker works in     *)
(* another directory and made again, once for a call, when the worker does   *)
(* not know it; the close of the registry ends every session it knows of.    *)
(* A request makes one or more calls; the last of them writes.               *)
(*****************************************************************************)
EXTENDS FiniteSets, Naturals

CONSTANTS UiRequests,     \* requests of the page
          LastCall,       \* calls of a request
          MaxUiSessions   \* bound on the sessions of the worker

ASSUME RemoteFilesAssumption == MaxUiSessions \in Nat \ {0} /\ LastCall \in Nat \ {0}

WorkerSessions == 1..MaxUiSessions
Dirs == {1, 2}

VARIABLES
  request,  \* [UiRequests -> the request: its call, the session it uses, its writes]
  cached,   \* the cached session of the machine, 0 for none
  retired,  \* _retired_sessions
  ending,   \* sessions that the close is ending
  filesGate,     \* the registry: "open", "stopped", "draining", "ending" or "closed"
  session,  \* [WorkerSessions -> "none" | "live" | "dead"]: the sessions of the worker
  dirOf,    \* [WorkerSessions -> Dirs]: the directory that each was made for
  strays,   \* sessions that the server never heard of or gave up
  machine    \* the worker's row: online, and its directory

rfVars == <<request, cached, retired, ending, filesGate, session, dirOf, strays, machine>>

\* again: the call is made a second time; answer: of the call under way.
NewUiRequest == [pc |-> "new", step |-> 1, ses |-> 0, dir |-> 1, again |-> FALSE,
               answer |-> "none", wrote |-> 0, cancel |-> FALSE]

FilesInit ==
  /\ request = [r \in UiRequests |-> NewUiRequest]
  /\ cached = 0 /\ retired = {} /\ ending = {} /\ filesGate = "open"
  /\ session = [w \in WorkerSessions |-> "none"] 
  /\ dirOf = [w \in WorkerSessions |-> 1] /\ strays = {}
  /\ machine = [online |-> TRUE, dir |-> 1]

ReqAt(r, pc) == request[r].pc = pc
ReqEnded(r) == [NewUiRequest EXCEPT !.pc = "end", !.wrote = request[r].wrote]
ReqEnds(r) == request' = [request EXCEPT ![r] = ReqEnded(r)]
ReqGoes(r, pc) == request' = [request EXCEPT ![r].pc = pc]
CachedFor(d) == cached # 0 /\ dirOf[cached] = d
Unmade == {w \in WorkerSessions : session[w] = "none"}
NextSession == CHOOSE w \in Unmade : TRUE
CanMake == Unmade # {}
Locked == \E r \in UiRequests : request[r].pc \in {"starting", "undoing"}
registryVars == <<cached, retired, ending, filesGate>>
workerVars == <<session, dirOf, strays, machine>>

--------------------------------------------------------------------------------
\* call_remote_ui_workspace_tool: begin_operation, the row of the worker, the cache.
BeginCall(r) ==
  /\ ReqAt(r, "new") \/ ReqAt(r, "next")
  /\ IF filesGate = "open" THEN ReqGoes(r, "seeking") ELSE ReqEnds(r)
  /\ UNCHANGED <<registryVars, workerVars>>
\* A worker that is unknown or not online has its cached session forgotten.
Offline(r) ==
  /\ ReqAt(r, "seeking") /\ ~machine.online
  /\ ReqEnds(r) /\ cached' = 0 /\ strays' = strays \cup ({cached} \ {0})
  /\ UNCHANGED <<retired, ending, filesGate, session, dirOf, machine>>
Seek(r) ==
  /\ ReqAt(r, "seeking") /\ machine.online
  /\ request' = IF CachedFor(machine.dir)
                  THEN [request EXCEPT ![r].pc = "calling", ![r].ses = cached]
                  ELSE [request EXCEPT ![r].pc = "locking", ![r].dir = machine.dir]
  /\ UNCHANGED <<registryVars, workerVars>>

\* _remote_file_session under the lock of the machine looks again. A slip: it does not.
NeverCached(d) == FALSE
CachedNow(d) == CachedFor(d)
Lock(r) ==
  /\ ReqAt(r, "locking") /\ ~Locked /\ ~request[r].cancel
  /\ IF filesGate # "open" THEN ReqEnds(r)
     ELSE IF CachedNow(request[r].dir)
       THEN request' = [request EXCEPT ![r].pc = "calling", ![r].ses = cached]
       ELSE ReqGoes(r, "starting")
  /\ UNCHANGED <<registryVars, workerVars>>

\* A slip: the session that is replaced is forgotten.
ForgetReplaced == retired
RetireReplaced == retired \cup ({cached} \ {0})
\* start_worker_session, and the registry's store: a replaced session is kept for the
\* close; a registry that was closed meanwhile has the new one ended.
SessionMade(r) ==
  /\ ReqAt(r, "starting") /\ ~request[r].cancel /\ CanMake /\ machine.online
  /\ session' = [session EXCEPT ![NextSession] = "live"]
  /\ dirOf' = [dirOf EXCEPT ![NextSession] = request[r].dir]
  /\ IF filesGate = "open"
       THEN /\ request' = [request EXCEPT ![r].pc = "calling", ![r].ses = NextSession]
            /\ cached' = NextSession /\ retired' = RetireReplaced
       ELSE /\ request' = [request EXCEPT ![r].pc = "undoing", ![r].ses = NextSession]
            /\ UNCHANGED <<cached, retired>>
  /\ UNCHANGED <<ending, filesGate, strays, machine>>
\* The call fails or is given up, and the session may have been made all the same.
MakingFails(r) ==
  /\ ReqAt(r, "starting") /\ ReqEnds(r)
  /\ \/ UNCHANGED workerVars
     \/ /\ CanMake /\ session' = [session EXCEPT ![NextSession] = "live"]
        /\ dirOf' = [dirOf EXCEPT ![NextSession] = request[r].dir]
        /\ strays' = strays \cup {NextSession}
        /\ UNCHANGED machine
  /\ UNCHANGED registryVars
Undone(r) ==
  /\ ReqAt(r, "undoing") /\ ReqEnds(r)
  /\ \/ session' = [session EXCEPT ![request[r].ses] = "dead"] /\ UNCHANGED strays
     \/ strays' = strays \cup {request[r].ses} /\ UNCHANGED session
  /\ UNCHANGED <<registryVars, dirOf, machine>>

--------------------------------------------------------------------------------
\* The calls of a request: it may stat a file and read it chunk by chunk; the last call
\* writes or deletes.
Reads(r) == request[r].step < LastCall
Writes(r) == request[r].step = LastCall
\* External: the worker runs the tool, if it knows the session.
WorkerRuns(r) ==
  /\ ReqAt(r, "calling") /\ request[r].answer = "none" /\ machine.online
  /\ request' =
       IF session[request[r].ses] = "live"
         THEN [request EXCEPT ![r].answer = "done",
                              ![r].wrote = IF Writes(r) THEN @ + 1 ELSE @]
         ELSE [request EXCEPT ![r].answer = "missing"]
  /\ UNCHANGED <<registryVars, workerVars>>

\* The answer: the next call, or the end.
NextCall(r) ==
  [NewUiRequest EXCEPT !.pc = "next", !.step = request[r].step + 1, !.wrote = request[r].wrote]
Answered(r) ==
  /\ ReqAt(r, "calling") /\ request[r].answer = "done" /\ ~request[r].cancel
  /\ \/ Reads(r) /\ request' = [request EXCEPT ![r] = NextCall(r)]
     \/ Writes(r) /\ ReqEnds(r)
  /\ UNCHANGED <<registryVars, workerVars>>
\* A slip: what is forgotten is the session of the machine, whichever it is.
ForgetCached(w) == 0
ForgetOnly(w) == IF cached = w THEN 0 ELSE cached
\* A slip: every failure is tried again.
TryAnyway(r) == ~request[r].again
TryAgain(r) == request[r].answer = "missing" /\ ~request[r].again
\* The worker does not know the session: it is forgotten and the call made once more.
CallAgain(r) ==
  /\ ReqAt(r, "calling") /\ ~request[r].cancel /\ TryAgain(r)
  /\ cached' = ForgetOnly(request[r].ses)
  /\ request' = [request EXCEPT ![r].pc = "next", ![r].answer = "none", ![r].again = TRUE,
                                ![r].ses = 0]
  /\ UNCHANGED <<retired, ending, filesGate, workerVars>>
\* Another error, or no answer in time.
CallFails(r) == ReqAt(r, "calling") /\ ReqEnds(r) /\ UNCHANGED <<registryVars, workerVars>>

Cancelled(r) ==
  /\ request[r].pc \in {"locking", "seeking", "next"} /\ request[r].cancel
  /\ ReqEnds(r) /\ UNCHANGED <<registryVars, workerVars>>

--------------------------------------------------------------------------------
\* stop_admission and aclose of the registry.
StopFiles ==
  /\ filesGate = "open" /\ filesGate' = "stopped"
  /\ UNCHANGED <<request, cached, retired, ending, workerVars>>
CloseFiles ==
  /\ filesGate \in {"open", "stopped"} /\ filesGate' = "draining"
  /\ request' = [r \in UiRequests |-> IF request[r].pc \in {"new", "end"} THEN request[r]
                                    ELSE [request[r] EXCEPT !.cancel = TRUE]]
  /\ UNCHANGED <<cached, retired, ending, workerVars>>
FilesDrained ==
  /\ filesGate = "draining" /\ \A r \in UiRequests : request[r].pc \in {"new", "end"}
  /\ filesGate' = "ending" /\ ending' = retired \cup ({cached} \ {0})
  /\ cached' = 0 /\ retired' = {}
  /\ UNCHANGED <<request, workerVars>>
\* end_worker_session, which may fail.
EndOwned(w) ==
  /\ filesGate = "ending" /\ w \in ending /\ ending' = ending \ {w}
  /\ \/ session' = [session EXCEPT ![w] = "dead"] /\ UNCHANGED strays
     \/ strays' = strays \cup {w} /\ UNCHANGED session
  /\ UNCHANGED <<request, cached, retired, filesGate, dirOf, machine>>
FilesClosed ==
  /\ filesGate = "ending" /\ ending = {} /\ filesGate' = "closed"
  /\ UNCHANGED <<request, cached, retired, ending, workerVars>>

\* External: the worker forgets a session, goes and comes, works in another directory.
WorkerForgets(w) ==
  /\ session[w] = "live" /\ session' = [session EXCEPT ![w] = "dead"]
  /\ UNCHANGED <<request, registryVars, dirOf, strays, machine>>
WorkerChanges ==
  /\ machine' \in {[machine EXCEPT !.online = ~@], [machine EXCEPT !.dir = 3 - @]}
  /\ UNCHANGED <<request, registryVars, session, dirOf, strays>>

FilesNext ==
  \/ \E r \in UiRequests :
       \/ BeginCall(r) \/ Offline(r) \/ Seek(r) \/ Lock(r) \/ SessionMade(r) \/ MakingFails(r)
       \/ Undone(r) \/ WorkerRuns(r) \/ Answered(r) \/ CallAgain(r) \/ CallFails(r)
       \/ Cancelled(r)
  \/ \E w \in WorkerSessions : EndOwned(w) \/ WorkerForgets(w)
  \/ StopFiles \/ CloseFiles \/ FilesDrained \/ FilesClosed \/ WorkerChanges

FilesSpec == FilesInit /\ [][FilesNext]_rfVars

--------------------------------------------------------------------------------
\* A session that lives on the worker is cached, kept for the close, in the hands of the
\* request that made it, or one that the server gave up; none is used by two names.
Held == ({cached} \ {0}) \cup retired \cup ending
           \cup {request[r].ses : r \in {q \in UiRequests : ReqAt(q, "undoing")}}
NoSessionForgotten ==
  /\ \A w \in WorkerSessions : session[w] = "live" => w \in Held \cup strays
  /\ cached \notin retired \cup ending
  /\ filesGate = "closed" => Held = {}
\* UiRequests that need a session at the same time share one: no two live for the same
\* directory, unless one of them was replaced.
SessionShared ==
  \A v, w \in WorkerSessions : session[v] = "live" /\ session[w] = "live" /\ dirOf[v] = dirOf[w]
    /\ {v, w} \cap (strays \cup retired \cup ending) = {} => v = w
\* A request writes once at most, however its session is lost and its call repeated.
WritesOnce == \A r \in UiRequests : request[r].wrote <= 1
\* After the close nothing is under way.
ClosedIsQuiet ==
  filesGate \in {"ending", "closed"} => \A r \in UiRequests : request[r].pc \in {"new", "end"}

FilesSound == NoSessionForgotten /\ SessionShared /\ WritesOnce /\ ClosedIsQuiet
================================================================================
