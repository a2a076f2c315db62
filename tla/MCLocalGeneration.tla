------------------------- MODULE MCLocalGeneration --------------------------
(***************************************************************************)
(* A small instance of LocalGeneration: two calls of AIaaS, one of the      *)
(* Transformers agent, which no server can hold, two of Ollama, two places. *)
(***************************************************************************)
EXTENDS LocalGeneration

CONSTANTS aiass1, aiass2, local, ollama1, ollama2
=============================================================================
