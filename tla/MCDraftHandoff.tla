---------------------------- MODULE MCDraftHandoff ----------------------------
(* Model values, scripts and symmetry for checking DraftHandoff with TLC. *)
EXTENDS DraftHandoff, TLC

CONSTANTS m1, m2, m3, w1, w2, a1, a2

Describe(w, a) == [what |-> w, account |-> a, reset |-> FALSE, cancel |-> FALSE]
Name(a) == Describe(None, a)
StartOver == [Name(None) EXCEPT !.reset = TRUE]
CancelIt == [Name(None) EXCEPT !.cancel = TRUE]

Script(first, second, third) ==
    [m \in {m1, m2, m3} |-> CASE m = m1 -> first [] m = m2 -> second [] m = m3 -> third]

(* A transaction described without its account, then completed and          *)
(* cancelled, completed twice, or repeated with its account and abandoned;  *)
(* and two complete ones, then cancelled: in every order, overlap and       *)
(* repetition of the messages.                                              *)
Conversations ==
    {Script(Describe(w1, None), Name(a1), CancelIt),
     Script(Describe(w1, None), Name(a1), Name(a2)),
     Script(Describe(w1, None), Describe(w1, a2), StartOver),
     Script(Describe(w1, a2), Describe(w2, a1), CancelIt)}

(* Two answers that name different accounts *)
TwoAnswers == {Script(Describe(w1, None), Name(a1), Name(a2))}

Symmetry == Permutations(Turns)
=============================================================================
