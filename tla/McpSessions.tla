------------------------------ MODULE McpSessions ------------------------------
(*****************************************************************************)
(* The admission of stateful MCP sessions: http/request_limits.py buffers    *)
(* the body of a request, executors/mcp/session_limits.py reserves a place   *)
(* for the session that the request may create, and the session manager of   *)
(* the MCP SDK creates sessions and terminates them. The requests are tasks  *)
(* of one event loop, and any of them may be cancelled.                      *)
(*****************************************************************************)
EXTENDS FiniteSets, Naturals

CONSTANTS Posts,       \* initialize requests; a session has the name of its request
          MaxMcp,      \* mcp_max_sessions
          BodyLimit,   \* max_http_request_bytes, in chunks
          MaxBody      \* bound on the chunks of a body

ASSUME McpSessionsAssumption ==
  /\ {MaxMcp, BodyLimit} \subseteq Nat \ {0} /\ MaxBody \in Nat
  /\ IsFiniteSet(Posts) /\ FALSE \notin Posts

VARIABLES
  post,       \* [Posts -> the request]
  reserved,   \* _pending_creations
  creation,   \* the holder of _creation_lock, a post or FALSE
  instances   \* the SDK's _server_instances: [Posts -> "none" | "live" | "terminated"]

msVars == <<post, reserved, creation, instances>>

\* held: its reservation is active; started: the response has begun with a session.
NewPost == [pc |-> "new", body |-> 0, held |-> FALSE, started |-> FALSE, cancel |-> FALSE]

McpInit ==
  /\ post = [p \in Posts |-> NewPost] /\ reserved = 0 /\ creation = FALSE
  /\ instances = [p \in Posts |-> "none"]

PostAt(p, pc) == post[p].pc = pc
PostGoes(p, pc) == post' = [post EXCEPT ![p].pc = pc]
PostEnds(p) == post' = [post EXCEPT ![p] = [NewPost EXCEPT !.pc = "end"]]
LiveSessions == {p \in Posts : instances[p] = "live"}

--------------------------------------------------------------------------------
\* RequestBodyLimitMiddleware: a declared length over the limit is rejected, and so is a
\* body once it is over; a disconnect ends the body, and the request goes on.
Arrive(p) ==
  /\ PostAt(p, "new")
  /\ PostGoes(p, "buffering") \/ PostEnds(p)
  /\ UNCHANGED <<reserved, creation, instances>>
\* A slip: the body is looked at when it is complete.
WithinAtEnd(n) == TRUE
Within(n) == n <= BodyLimit
BodyChunk(p) ==
  /\ PostAt(p, "buffering") /\ post[p].body < MaxBody
  /\ IF Within(post[p].body + 1) THEN post' = [post EXCEPT ![p].body = @ + 1] ELSE PostEnds(p)
  /\ UNCHANGED <<reserved, creation, instances>>
Buffered(p) ==
  /\ PostAt(p, "buffering") /\ PostGoes(p, "asking")
  /\ UNCHANGED <<reserved, creation, instances>>

\* Under the lock: terminated sessions are dropped (_active_session_count), and the
\* sessions and the reservations counted. A rejection is sent under the lock.
WithoutTerminated ==
  [p \in Posts |-> IF instances[p] = "terminated" THEN "none" ELSE instances[p]]
\* A slip: what is being created is not counted.
OccupiedBySessions == Cardinality(LiveSessions)
Occupied == Cardinality(LiveSessions) + reserved
AskForPlace(p) ==
  /\ PostAt(p, "asking") /\ creation = FALSE
  /\ instances' = WithoutTerminated
  /\ IF Occupied >= MaxMcp
       THEN PostGoes(p, "rejecting") /\ creation' = p /\ UNCHANGED reserved
       ELSE /\ post' = [post EXCEPT ![p].pc = "inside", ![p].held = TRUE]
            /\ reserved' = reserved + 1 /\ UNCHANGED creation
Rejected(p) ==
  /\ PostAt(p, "rejecting") /\ PostEnds(p) /\ creation' = FALSE
  /\ UNCHANGED <<reserved, instances>>

--------------------------------------------------------------------------------
\* External: the SDK creates the session, and begins the response with its id.
SdkCreates(p) ==
  /\ PostAt(p, "inside") /\ instances[p] = "none" /\ ~post[p].started
  /\ instances' = [instances EXCEPT ![p] = "live"]
  /\ UNCHANGED <<post, reserved, creation>>
\* send_with_release.
SdkAnswers(p) ==
  /\ PostAt(p, "inside") /\ instances[p] # "none" /\ ~post[p].started
  /\ post' = [post EXCEPT ![p].pc = "releasing", ![p].started = TRUE]
  /\ UNCHANGED <<reserved, creation, instances>>
\* The finally clause. A slip: it releases whether or not the reservation is active.
LeaveReleasing(p) == PostGoes(p, "releasing")
LeaveInside(p) == IF post[p].held THEN PostGoes(p, "releasing") ELSE PostEnds(p)
\* The response is complete, is an error or another one without a session, or the
\* request is cancelled.
SdkReturns(p) ==
  /\ PostAt(p, "inside")
  /\ LeaveInside(p)
  /\ UNCHANGED <<reserved, creation, instances>>

\* _release_reservation in a task of its own, which a cancellation does not reach; the
\* caller is told of its cancellation afterwards.
Release(p) ==
  /\ PostAt(p, "releasing") /\ creation = FALSE
  /\ reserved' = IF reserved = 0 THEN 0 ELSE reserved - 1
  /\ IF post[p].started /\ ~post[p].cancel /\ post[p].held
       THEN post' = [post EXCEPT ![p].pc = "inside", ![p].held = FALSE]
       ELSE PostEnds(p)
  /\ UNCHANGED <<creation, instances>>

\* A cancellation, at whatever await the request is.
CancelPost(p) ==
  /\ ~PostAt(p, "new") /\ ~PostAt(p, "end") /\ ~post[p].cancel
  /\ CASE PostAt(p, "inside") -> LeaveInside(p) /\ UNCHANGED creation
       [] PostAt(p, "releasing") -> /\ post' = [post EXCEPT ![p].cancel = TRUE]
                                     /\ UNCHANGED creation
       [] PostAt(p, "rejecting") -> PostEnds(p) /\ creation' = FALSE
       [] OTHER -> PostEnds(p) /\ UNCHANGED creation
  /\ UNCHANGED <<reserved, instances>>

\* External: a session is terminated, by a request or for its idleness, and the SDK may
\* drop it.
SdkTerminates(p) ==
  /\ instances[p] = "live"
  /\ instances' \in {[instances EXCEPT ![p] = "terminated"], [instances EXCEPT ![p] = "none"]}
  /\ PostAt(p, "end") \/ post[p].started
  /\ UNCHANGED <<post, reserved, creation>>

PostStep(p) ==
  \/ Buffered(p) \/ AskForPlace(p) \/ Rejected(p) \/ SdkReturns(p) \/ Release(p)
McpNext ==
  \E p \in Posts : Arrive(p) \/ BodyChunk(p) \/ PostStep(p) \/ SdkCreates(p) \/ SdkAnswers(p)
                     \/ CancelPost(p) \/ SdkTerminates(p)

McpSpec == McpInit /\ [][McpNext]_msVars

--------------------------------------------------------------------------------
Holders == {p \in Posts : post[p].held}
\* A reservation is counted from the admission of its request until it is released,
\* once, however the request ends; and no more sessions run than are allowed, those that
\* are being created included.
PlacesCounted == reserved = Cardinality(Holders)
CapacityHeld == Cardinality(LiveSessions \cup Holders) <= MaxMcp
\* No request has more of its body in memory than is allowed.
BodiesBounded == \A p \in Posts : post[p].body <= BodyLimit
\* A request that ended has neither a place nor the lock.
EndedHoldsNothing == \A p \in Posts : PostAt(p, "end") => p \notin Holders /\ creation # p

McpSound == PlacesCounted /\ CapacityHeld /\ BodiesBounded /\ EndedHoldsNothing
McpAtRest == \A p \in Posts : post[p].pc \in {"new", "end"}
================================================================================
