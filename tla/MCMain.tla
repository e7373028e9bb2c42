------------------------------- MODULE MCMain -------------------------------
(* A chat, or the wizard, on three homes. *)
EXTENDS Main

CONSTANTS main, aux, turn, reader

(* Only `setup terminal` has been run. *)
MCTerminal == [config |-> [NoConfig EXCEPT !.backend = "ssh", !.host = TRUE], env |-> {},
               said |-> Unset, saidBackend |-> "ssh"]

MCUsed == [config |-> [provider |-> "openai", model |-> "model",
                       backend |-> "ssh", host |-> TRUE],
           env |-> {"openai", "telegram"}, said |-> "openai", saidBackend |-> "ssh"]

(* A custom endpoint without a model. *)
MCCustom == [config |-> [NoConfig EXCEPT !.provider = "custom"],
             env |-> {}, said |-> Unset, saidBackend |-> Unset]

MCHomes == {MCTerminal, MCUsed, MCCustom}

MCEnvirons == {{}, {"openai", "discord"}}
=============================================================================
