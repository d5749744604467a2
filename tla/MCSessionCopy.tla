---- MODULE MCSessionCopy ----
EXTENDS SessionCopy

\* Every route; a caller's copy that must not replace a file, and a durable job
\* that may.
MCModes == {m \in AllModes : m.managed = m.overwrite}
\* The same, without the durable job between two workers: with two faults it has
\* as many states as all others together, and each of its sides is in another.
MCDeepModes == {m \in MCModes : m.route = "remote_remote" => ~m.managed}
\* A caller's copy.
MCForeground == {m \in AllModes : ~m.managed /\ ~m.overwrite}
====
