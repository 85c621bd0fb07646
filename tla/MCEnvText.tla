----------------------------- MODULE MCEnvText -----------------------------
(***************************************************************************)
(* EnvText for two keys, whose values between them have every form.        *)
(***************************************************************************)
EXTENDS EnvText

TwoKeys == <<"a", "b">>

Styles ==
  [k \in {"a", "b"} |->
     IF k = "a" THEN {"word", "quote", "hash", "escape", "lines"}
     ELSE {"colon", "newline"}]

ShortStyles == [k \in {"a", "b"} |-> {"word", "spaced"}]
=============================================================================
