----------------------------- MODULE Responses -----------------------------
(***************************************************************************)
(* What interrupted generation promises about each response: tokens are    *)
(* only ever appended to it, until it is complete; after that it never     *)
(* changes.                                                                *)
(***************************************************************************)
EXTENDS Sequences, SequencesExt

CONSTANT Writers        (* one response each                                *)

VARIABLES text,         (* text[w]: the tokens so far                       *)
          complete      (* the writers whose response is complete           *)

Init == /\ text = [w \in Writers |-> <<>>]
        /\ complete = {}

Extend(w) == /\ w \notin complete
             /\ IsPrefix(text[w], text'[w])
             /\ text' = [text EXCEPT ![w] = text'[w]]

Write(w)    == Extend(w) /\ UNCHANGED complete
Complete(w) == Extend(w) /\ complete' = complete \cup {w}

Next == \E w \in Writers : Write(w) \/ Complete(w)

vars == <<text, complete>>

Spec == Init /\ [][Next]_vars
=============================================================================
