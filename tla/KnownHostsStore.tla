--------------------------- MODULE KnownHostsStore ---------------------------
(***************************************************************************)
(* What the known_hosts functions promise their callers (docs/references/  *)
(* api/ssh.md, "Known Hosts Management"): a set of trusted (host, key)     *)
(* pairs on which a removal and an addition take effect at once, somewhere *)
(* between call and return, and a keyscan's save adds its pairs one by one.*)
(* A call that fails or is cut off by a crash changes nothing it has not   *)
(* changed already.                                                        *)
(***************************************************************************)
CONSTANTS
  Tasks,      \* goroutines that call
  Procs, ProcessOf,
  Requests,   \* calls: [kind, host, pairs]
  NoCall,     \* the request of a task that asks for nothing
  Known       \* the pairs that are trusted at first

VARIABLES
  trusted,    \* pairs <<host, key>>
  status,     \* "idle", "called", "ok" or "error", for each task
  request     \* what each task asked for

vars == <<trusted, status, request>>

Init ==
  /\ trusted = Known
  /\ status = [t \in Tasks |-> "idle"]
  /\ request = [t \in Tasks |-> NoCall]

Ask(t) ==
  /\ status[t] = "idle" /\ status' = [status EXCEPT ![t] = "called"]
  /\ \E r \in Requests : request' = [request EXCEPT ![t] = r]
  /\ UNCHANGED trusted

Answer(t, result) ==
  status[t] = "called" /\ status' = [status EXCEPT ![t] = result] /\ UNCHANGED request

Added(t) ==
  /\ request[t].kind = "add" /\ Answer(t, "ok")
  /\ trusted' = trusted \cup request[t].pairs

Removed(t) ==
  /\ request[t].kind = "remove" /\ Answer(t, "ok")
  /\ trusted' = {pair \in trusted : pair[1] # request[t].host}

SavedOne(t) ==
  /\ request[t].kind = "save" /\ status[t] = "called"
  /\ \E pair \in request[t].pairs : trusted' = trusted \cup {pair}
  /\ UNCHANGED <<status, request>>

SavedAll(t) ==
  /\ request[t].kind = "save" /\ request[t].pairs \subseteq trusted
  /\ Answer(t, "ok") /\ UNCHANGED trusted

Failed(t) == Answer(t, "error") /\ UNCHANGED trusted

Return(t) ==
  /\ status[t] \in {"ok", "error"} /\ status' = [status EXCEPT ![t] = "idle"]
  /\ request' = [request EXCEPT ![t] = NoCall] /\ UNCHANGED trusted

Crash(p) ==
  /\ status' = [t \in Tasks |-> IF ProcessOf[t] = p THEN "idle" ELSE status[t]]
  /\ request' = [t \in Tasks |-> IF ProcessOf[t] = p THEN NoCall ELSE request[t]]
  /\ UNCHANGED trusted

Next ==
  \/ \E t \in Tasks : \/ Ask(t) \/ Added(t) \/ Removed(t) \/ SavedOne(t) \/ SavedAll(t)
                      \/ Failed(t) \/ Return(t)
  \/ \E p \in Procs : Crash(p)

Spec == Init /\ [][Next]_vars
=============================================================================
