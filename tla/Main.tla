-------------------------------- MODULE Main --------------------------------
(***************************************************************************)
(* The binary as cmd/botreaper/main.go runs it: a process loads config.yaml  *)
(* and .env, makes an agent with its token usage writer, and either chats or *)
(* runs the setup wizard; when that returns, the deferred Close of the agent *)
(* waits for the usage writer.  Setup and UsageWriter are the two parts.     *)
(***************************************************************************)
EXTENDS UsageWriter, Setup

CONSTANT Commands   \* what the command line may say: "chat", "setup"

VARIABLE command

mainVars == <<vars, setupVars, command>>

MainInit ==
  /\ Init
  /\ SetupInit
  /\ command \in Commands

(* A process starts with a usage writer of its own, which has nothing yet. *)
Start ==
  /\ command = "setup"
  /\ Begin
  /\ pend = Zero /\ batch = [f \in Flushers |-> Zero]
  /\ at' = [f \in Flushers |-> "idle"]
  /\ quit' = FALSE /\ final' = FALSE
  /\ UNCHANGED <<pend, notify, batch, db, queued, lost, owed, failures, command>>

(* Turns report tokens only if there is a provider client to answer them. *)
Chat ==
  /\ command = "chat"
  /\ Live(config, env \cup environ)
  /\ \E c \in Callers : CallerStep(c)
  /\ UNCHANGED <<setupVars, command>>

(* The chat may end at any time; the wizard's process ends when Run returns. *)
Deferred ==
  /\ command = "setup" => prompt = "over"
  /\ Close
  /\ UNCHANGED <<setupVars, command>>

(* Beside the wizard, the loop could only flush an empty map before the end. *)
UsageLoop ==
  /\ command = "setup" => prompt = "over"
  /\ LoopStep
  /\ UNCHANGED <<setupVars, command>>

(* Close has returned, and so does main. *)
Exit ==
  /\ prompt = "over" /\ quit /\ at[Loop] = "stopped"
  /\ Leave
  /\ UNCHANGED <<vars, command>>

SetupStep ==
  /\ SetupNext
  /\ UNCHANGED <<vars, command>>

MainNext == Start \/ Chat \/ Deferred \/ UsageLoop \/ Exit \/ SetupStep

MainSpec == MainInit /\ [][MainNext]_mainVars

(* The goroutines of the usage writer are scheduled as in UsageWriter; the   *)
(* wizard goes on whenever its prompt is answered, and at the end of the     *)
(* input every prompt is; main calls Close when the wizard has returned.     *)
MainFairSpec ==
  /\ MainSpec
  /\ WF_mainVars(Wizard /\ UNCHANGED <<vars, command>>)
  /\ WF_mainVars(Exit)
  /\ WF_mainVars(command = "setup" /\ Deferred)
  /\ WF_mainVars(UsageLoop /\ (at[Loop] = "writing"))
  /\ SF_mainVars(UsageLoop /\ quit /\ final')
  /\ \A c \in Callers : WF_mainVars(Chat /\ (Notify(c) \/ Flush(c)))
=============================================================================
