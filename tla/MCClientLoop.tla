---------------------------- MODULE MCClientLoop ----------------------------
(***************************************************************************)
(* Instances of ClientLoop for TLC.                                        *)
(***************************************************************************)
EXTENDS ClientLoop

Line(word, arg, rest) == [word |-> word, arg |-> arg, rest |-> rest]
Bare(words) == {Line(w, "none", "none") : w \in words}

(* The answers to the prompt, a line of each outcome of a command (nothing,  *)
(* a request or two, the end of the client), and one without an end, which   *)
(* may be read as any command with any argument.                             *)
Commands ==
    Bare({"", "Y", "N", "/who", "/quit"})
    \cup {Line("/nick", a, "none") : a \in {"name", "long"}}
    \cup {Line("/send", "name", "single"), Endless}
=============================================================================
