------------------------------ MODULE Sandbox -------------------------------
(***************************************************************************)
(* One execution of analysis code at a time per call: the parent's side     *)
(* (analyst/sandbox.py), the client of the container runtime and its daemon *)
(* (analyst/container.py), and the interpreter that runs the code           *)
(* (analyst/runner.py).  The child is a subprocess, or the same runner in a *)
(* container, which killing the client does not stop.                       *)
(***************************************************************************)
EXTENDS Integers

CONSTANTS Calls,    \* executions under way at once
          MaxFaults \* bound on faults of the daemon, ends of a client by itself and
                    \* deaths of the API

\* What the constants have to be.
SandboxConstants == MaxFaults \in Nat

VARIABLES
  contained, \* SANDBOX_BACKEND=container
  call,      \* the thread of the API: "idle", "waiting", "killing", "done"
  answer,    \* the ExecutionResult: "none", "ok", "error", "timeout" ...
  client,    \* the container CLI: "none", "asked", "gone"
  fed,       \* the request has reached the stdin of the child
  child,     \* the interpreter, and how far it has come
  code,      \* what the code of the request does: it ends, spins or sleeps
  limited,   \* RLIMIT_CPU is in force
  out,       \* what the parent can learn of its end
  missed,    \* a container was left to itself: no kill, or none that reached it
  faults

parent == <<call, answer>>
inside == <<child, limited, out>>
sandboxVars == <<contained, parent, client, fed, inside, code, missed, faults>>

Alive == {"up", "loading", "guarding", "running"}

SandboxInit ==
  /\ contained \in BOOLEAN
  /\ call = [c \in Calls |-> "idle"]
  /\ answer = [c \in Calls |-> "none"]
  /\ client = [c \in Calls |-> "none"]
  /\ fed = [c \in Calls |-> FALSE]
  /\ child = [c \in Calls |-> "none"]
  /\ code \in [Calls -> {"ends", "spins", "sleeps"}]
  /\ limited = [c \in Calls |-> FALSE]
  /\ out = [c \in Calls |-> "none"]
  /\ missed = [c \in Calls |-> FALSE]
  /\ faults = 0

Answers(c, result) ==
  /\ call' = [call EXCEPT ![c] = "done"]
  /\ answer' = [answer EXCEPT ![c] = result]

-----------------------------------------------------------------------------
(* The parent                                                               *)

\* _run_code: no code, or too much of it; no runtime, or no readable seccomp
\* profile, which is not a reason to fall back to a subprocess; or what was to
\* be started cannot be.
Refuse(c) ==
  /\ call[c] = "idle"
  /\ \/ Answers(c, "refused") \/ Answers(c, "not started")
     \/ contained /\ Answers(c, "unavailable")
  /\ UNCHANGED <<contained, client, fed, inside, code, missed, faults>>

\* _spawn_plan and Popen: the interpreter, or the client of the container.
Spawn(c) ==
  /\ call[c] = "idle"
  /\ call' = [call EXCEPT ![c] = "waiting"]
  /\ IF contained
     THEN client' = [client EXCEPT ![c] = "asked"] /\ UNCHANGED child
     ELSE child' = [child EXCEPT ![c] = "up"] /\ UNCHANGED client
  /\ UNCHANGED <<contained, answer, fed, limited, out, code, missed, faults>>

\* The input of subprocess.run, through the client if there is one.
Feed(c) ==
  /\ call[c] = "waiting" /\ ~fed[c] /\ client[c] # "gone"
  /\ fed' = [fed EXCEPT ![c] = TRUE]
  /\ UNCHANGED <<contained, parent, client, inside, code, missed, faults>>

\* The envelope after the last marker; without one, the signal of the end, or
\* the last lines of stderr.
Result(c) ==
  CASE out[c] = "envelope" -> "ok"
    [] out[c] = "complaint" -> "error"
    [] out[c] = "signal" -> "stopped"
    [] OTHER -> "no result"

\* What the parent waits for has ended: the client is gone without having been
\* told to go, or its container has ended, or the subprocess has.
LeftAlone(c) == contained /\ client[c] = "gone"
Over(c) == LeftAlone(c) \/ child[c] = "ended"

\* subprocess.run returns, whatever its returncode.  No kill follows here: a
\* container whose client has ended by itself is left to itself.
Return(c) ==
  /\ call[c] = "waiting" /\ Over(c)
  /\ IF LeftAlone(c)
     THEN /\ \E result \in {"no result", "stopped"} : Answers(c, result)
          /\ missed' = [missed EXCEPT ![c] = child[c] # "ended"]
     ELSE Answers(c, Result(c)) /\ UNCHANGED missed
  /\ client' = [client EXCEPT ![c] = IF @ = "asked" THEN "gone" ELSE @]
  /\ UNCHANGED <<contained, fed, inside, code, faults>>

\* A slip: the client is killed, and that is all.
TimeoutExpired_OnlyTheClient(c) ==
  /\ call[c] = "waiting" /\ ~Over(c)
  /\ Answers(c, "timeout")
  /\ IF contained
     THEN client' = [client EXCEPT ![c] = "gone"] /\ UNCHANGED child
     ELSE child' = [child EXCEPT ![c] = "ended"] /\ UNCHANGED client
  /\ UNCHANGED <<contained, fed, limited, out, code, missed, faults>>

\* The wall clock has run out, which subprocess.run answers by killing what it
\* started: all there is of a subprocess, but only the client of a container.
TimeoutExpired(c) ==
  /\ call[c] = "waiting" /\ ~Over(c)
  /\ IF contained
     THEN /\ call' = [call EXCEPT ![c] = "killing"]
          /\ client' = [client EXCEPT ![c] = "gone"]
          /\ UNCHANGED <<answer, child>>
     ELSE /\ Answers(c, "timeout")
          /\ child' = [child EXCEPT ![c] = "ended"]
          /\ UNCHANGED client
  /\ UNCHANGED <<contained, fed, limited, out, code, missed, faults>>

\* kill, by name and as well as it can: there may be no such container yet,
\* and the daemon may not answer.
Kill(c) ==
  /\ call[c] = "killing"
  /\ \/ /\ child[c] \in Alive
        /\ child' = [child EXCEPT ![c] = "ended"]
        /\ UNCHANGED <<missed, faults>>
     \/ /\ child[c] = "ended"
        /\ UNCHANGED <<child, missed, faults>>
     \/ /\ child[c] = "none"
        /\ missed' = [missed EXCEPT ![c] = TRUE]
        /\ UNCHANGED <<child, faults>>
     \/ /\ child[c] \in Alive /\ faults < MaxFaults
        /\ missed' = [missed EXCEPT ![c] = TRUE]
        /\ faults' = faults + 1
        /\ UNCHANGED child
  /\ Answers(c, "timeout")
  /\ UNCHANGED <<contained, client, fed, limited, out, code>>

\* The process of the API is killed; the child, or the client, is not.
ApiDies ==
  /\ faults < MaxFaults
  /\ \E c \in Calls : call[c] \in {"waiting", "killing"}
  /\ faults' = faults + 1
  /\ call' = [c \in Calls |-> "done"]
  /\ answer' = [c \in Calls |->
       IF call[c] \in {"waiting", "killing"} THEN "lost" ELSE answer[c]]
  /\ missed' = [c \in Calls |->
       missed[c] \/ call[c] \in {"waiting", "killing"}]
  /\ UNCHANGED <<contained, client, fed, inside, code>>

-----------------------------------------------------------------------------
(* The container runtime                                                    *)

\* The client fails at once, is killed, or loses its daemon.
ClientEnds(c) ==
  /\ call[c] = "waiting" /\ client[c] = "asked" /\ faults < MaxFaults
  /\ client' = [client EXCEPT ![c] = "gone"]
  /\ faults' = faults + 1
  /\ UNCHANGED <<contained, parent, fed, inside, code, missed>>

\* The daemon may still start what a client that is gone has asked for.
DaemonStarts(c) ==
  /\ contained /\ child[c] = "none" /\ client[c] # "none"
  /\ child' = [child EXCEPT ![c] = "up"]
  /\ UNCHANGED <<contained, parent, client, fed, limited, out, code, missed,
                 faults>>

\* ... or never does, when the client is gone before it has asked.
DaemonForgets(c) ==
  /\ contained /\ child[c] = "none" /\ client[c] = "gone"
  /\ child' = [child EXCEPT ![c] = "ended"]
  /\ UNCHANGED <<contained, parent, client, fed, limited, out, code, missed,
                 faults>>

-----------------------------------------------------------------------------
(* The runner                                                               *)

Becomes(c, place) == child' = [child EXCEPT ![c] = place]
EndsWith(c, trace) ==
  /\ Becomes(c, "ended")
  /\ out' = [out EXCEPT ![c] = trace]
Runs(c, from) ==
  /\ child[c] = from
  /\ UNCHANGED <<contained, parent, client, fed, code, missed, faults>>

\* A slip: a request that never comes is waited for.
ReadRequest_Whole(c) ==
  /\ Runs(c, "up")
  /\ fed[c] /\ Becomes(c, "loading")
  /\ UNCHANGED <<out, limited>>

\* main reads the request to its end: an empty one, or half of one, if the
\* writer is gone.
ReadRequest(c) ==
  /\ Runs(c, "up")
  /\ \/ fed[c] /\ Becomes(c, "loading") /\ UNCHANGED out
     \/ /\ ~fed[c] /\ (call[c] # "waiting" \/ LeftAlone(c))
        /\ EndsWith(c, "complaint")
  /\ UNCHANGED limited

\* build_namespace, before the guards take away the access it needs.
BuildNamespace(c) ==
  /\ Runs(c, "loading")
  /\ \/ Becomes(c, "guarding") /\ UNCHANGED out
     \/ EndsWith(c, "complaint")
  /\ UNCHANGED limited

\* apply_resource_limits, install_import_guard, install_audit_hook.  There may
\* be no resource module, and the limit on memory, which is set first, may be
\* refused: the code runs all the same, without one on time.
Guard(c) ==
  /\ Runs(c, "guarding")
  /\ \E enforced \in BOOLEAN : limited' = [limited EXCEPT ![c] = enforced]
  /\ Becomes(c, "running")
  /\ UNCHANGED out

\* The code returns or raises, into the envelope, or leaves the interpreter.
Execute(c) ==
  /\ Runs(c, "running") /\ code[c] = "ends"
  /\ \E trace \in {"envelope", "complaint", "none"} : EndsWith(c, trace)
  /\ UNCHANGED limited

\* The kernel, at the limit of CPU time.
CpuLimit(c) ==
  /\ Runs(c, "running") /\ limited[c] /\ code[c] = "spins"
  /\ EndsWith(c, "signal")
  /\ UNCHANGED limited

SandboxNext ==
  \/ \E c \in Calls :
       \/ Refuse(c) \/ Spawn(c) \/ Feed(c) \/ Return(c)
       \/ TimeoutExpired(c) \/ Kill(c)
       \/ ClientEnds(c) \/ DaemonStarts(c) \/ DaemonForgets(c)
       \/ ReadRequest(c) \/ BuildNamespace(c) \/ Guard(c)
       \/ Execute(c) \/ CpuLimit(c)
  \/ ApiDies

SandboxSpec == SandboxInit /\ [][SandboxNext]_sandboxVars

\* The clock runs, the parent goes on, and so does an interpreter; a daemon
\* that was asked starts the container or forgets it.
Steps(c) ==
  \/ Return(c) \/ TimeoutExpired(c) \/ Kill(c)
  \/ DaemonStarts(c) \/ DaemonForgets(c)
Interprets(c) ==
  ReadRequest(c) \/ BuildNamespace(c) \/ Guard(c) \/ Execute(c) \/ CpuLimit(c)
SandboxFairness ==
  \A c \in Calls : WF_sandboxVars(Steps(c)) /\ WF_sandboxVars(Interprets(c))
FairSpec == SandboxSpec /\ SandboxFairness

-----------------------------------------------------------------------------
(* Properties                                                               *)

\* "A runaway loop costs one process, not the server", and a timed-out
\* analysis does not leak a container (sandbox.py, container.py): a subprocess
\* outlives its call only if the API has died, and a container only if it was
\* left to itself: the API died, the client ended without being told to, which
\* nothing is done about, or the kill came before there was a container or did
\* not get through.  A call that was told what came of its code, or that its
\* code never ran, has left nothing running.
NothingRunsOn ==
  \A c \in Calls : call[c] = "done" /\ child[c] \in Alive =>
    /\ missed[c]
    /\ \/ answer[c] = "lost"
       \/ contained /\ answer[c] \in {"timeout", "no result", "stopped"}

\* A caller gets an answer, whatever the code does and whatever the daemon and
\* its client do; and what nobody waits for any more ends by itself, unless its
\* code sleeps, which no limit of the runner stops, or spins where the limit
\* on CPU time could not be set.
CallsAndStraysEnd ==
  \A c \in Calls :
    /\ call[c] = "waiting" ~> call[c] = "done"
    /\ (child[c] \in Alive /\ code[c] # "sleeps")
         ~> \/ child[c] = "ended"
            \/ (child[c] = "running" /\ code[c] = "spins" /\ ~limited[c])

=============================================================================
