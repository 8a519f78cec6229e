----------------------------- MODULE ScriptAgent -----------------------------
(***************************************************************************)
(* What the agent promises the server about one script command: deliveries *)
(* of the command, each an attempt to run it, and script_cancel commands   *)
(* aimed at it.  ScriptExecutor implements this specification, and         *)
(* ScriptCancellation composes it with the server.                         *)
(***************************************************************************)
EXTENDS Naturals

CONSTANTS
    Attempt,      \* deliveries of the script command
    Cancel,       \* script_cancel commands
    None,         \* no command
    MaxCrashes    \* bound on restarts of the agent

ASSUME AgentAssumption ==
    /\ Attempt \cap Cancel = {}
    /\ None \notin Attempt \cup Cancel
    /\ MaxCrashes \in Nat

VARIABLES
    att,        \* each attempt: not run yet, live, doomed never to run, over
    res,        \* its result, once it is over
    ask,        \* each cancel command on the agent
    answer,     \* its outcome, once it is answered
    crashes     \* restarts so far

agentVars == <<att, res, ask, answer, crashes>>

AttState == {"absent", "waiting", "live", "doomed", "over", "lost"}
AskState == {"absent", "received", "answered", "lost"}
Outcome  == {"none", "terminated", "not_found", "kill_failed"}
Ending   == {"none", "ok", "failed"}

AgentTypeOK ==
    /\ att \in [Attempt -> AttState]
    /\ res \in [Attempt -> Ending]
    /\ ask \in [Cancel -> AskState]
    /\ answer \in [Cancel -> Outcome]
    /\ crashes \in Nat

AgentInit ==
    /\ att = [i \in Attempt |-> "absent"]
    /\ res = [i \in Attempt |-> "none"]
    /\ ask = [k \in Cancel |-> "absent"]
    /\ answer = [k \in Cancel |-> "none"]
    /\ crashes = 0

\* A frame reaches the agent.
Arrive(i) ==
    /\ att[i] = "absent"
    /\ att' = [att EXCEPT ![i] = "waiting"]

Receive(k) ==
    /\ ask[k] = "absent"
    /\ ask' = [ask EXCEPT ![k] = "received"]

\* At most one process for the command id.
Launch(i) ==
    /\ att[i] = "waiting"
    /\ \A j \in Attempt : att[j] # "live"
    /\ att' = [att EXCEPT ![i] = "live"]
    /\ UNCHANGED <<res, ask, answer, crashes>>

\* An attempt that will not run: its setup failed or a cancel was there first.
Doom(i) ==
    /\ att[i] = "waiting"
    /\ att' = [att EXCEPT ![i] = "doomed"]
    /\ UNCHANGED <<res, ask, answer, crashes>>

\* The result is out.
End(i) ==
    /\ att[i] \in {"waiting", "live", "doomed"}
    /\ att' = [att EXCEPT ![i] = "over"]
    /\ \E ending \in {"ok", "failed"} :
          /\ ending = "ok" => att[i] = "live"
          /\ res' = [res EXCEPT ![i] = ending]
    /\ UNCHANGED <<ask, answer, crashes>>

\* `terminated` is said of an attempt that is over or will never run.
Answer(k) ==
    /\ ask[k] = "received"
    /\ ask' = [ask EXCEPT ![k] = "answered"]
    /\ \/ /\ \E i \in Attempt :
                /\ att[i] \in {"waiting", "doomed", "over"}
                /\ att' = [att EXCEPT ![i] = IF @ = "waiting" THEN "doomed" ELSE @]
          /\ answer' = [answer EXCEPT ![k] = "terminated"]
       \/ /\ \E outcome \in {"not_found", "kill_failed"} :
                answer' = [answer EXCEPT ![k] = outcome]
          /\ UNCHANGED att
    /\ UNCHANGED <<res, crashes>>

Crash ==
    /\ crashes < MaxCrashes
    /\ crashes' = crashes + 1
    /\ att' = [i \in Attempt |-> IF att[i] \in {"absent", "over"} THEN att[i] ELSE "lost"]
    /\ ask' = [k \in Cancel |-> IF ask[k] = "received" THEN "lost" ELSE ask[k]]
    /\ UNCHANGED <<res, answer>>

\* What the agent does by itself, and the frames it is sent.
AgentNext ==
    \/ \E i \in Attempt : Launch(i) \/ Doom(i) \/ End(i)
    \/ \E k \in Cancel : Answer(k)
    \/ Crash

FrameNext ==
    \/ \E i \in Attempt : Arrive(i) /\ UNCHANGED <<res, ask, answer, crashes>>
    \/ \E k \in Cancel : Receive(k) /\ UNCHANGED <<att, res, answer, crashes>>

AgentSpec == AgentInit /\ [][AgentNext \/ FrameNext]_agentVars

=============================================================================
