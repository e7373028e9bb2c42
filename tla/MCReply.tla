------------------------------ MODULE MCReply -------------------------------
(* Telegram messages of five runes, so that a newline can be in the second   *)
(* half; Discord messages of two, and three of them.                         *)
EXTENDS Reply

MCLimit == [p \in Platforms |-> IF p = "telegram" THEN 5 ELSE 2]

MCOrigins == [forum : BOOLEAN, topicMsg : BOOLEAN, id : Threads]
=============================================================================
