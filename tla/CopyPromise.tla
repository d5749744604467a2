------------------------------ MODULE CopyPromise ------------------------------
(*****************************************************************************)
(* What session_copy promises to its caller and to the owner of the          *)
(* destination, whatever the transport: the destination changes from what    *)
(* it was to one whole version of the source in one step, and "copied" is    *)
(* only said of a destination that has been replaced.  SessionCopy is shown  *)
(* to implement it.                                                          *)
(*****************************************************************************)

CONSTANT Wholes      \* the contents that are one whole version of the source

VARIABLES dest,      \* what is at the destination path
          verdict    \* what the copy has reported

promiseVars == <<dest, verdict>>

Over == {"failed", "cancelled", "interrupted"}

Init == dest \notin Wholes /\ verdict = "none"

\* The copy is started, or a durable job is retried.
Begin ==
  /\ verdict \in {"none", "failed", "interrupted"}
  /\ verdict' = "running"
  /\ UNCHANGED dest

\* The destination becomes one whole version of the source.  A worker whose
\* caller has given up may still do this.
Publish ==
  /\ verdict # "none"
  /\ dest' \in Wholes
  /\ UNCHANGED verdict

Succeed ==
  /\ verdict = "running"
  /\ dest \in Wholes
  /\ verdict' = "copied"
  /\ UNCHANGED dest

GiveUp ==
  /\ verdict = "running"
  /\ verdict' \in Over
  /\ UNCHANGED dest

\* Somebody else writes the destination path.
Disturb ==
  /\ dest' \notin Wholes
  /\ UNCHANGED verdict

Next == Begin \/ Publish \/ Succeed \/ GiveUp \/ Disturb

Spec == Init /\ [][Next]_promiseVars
================================================================================
