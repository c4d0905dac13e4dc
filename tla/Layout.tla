------------------------------- MODULE Layout -------------------------------
(* How the editor breaks a text into the lines it shows (ed_layout).       *)
EXTENDS Integers, Sequences

CONSTANTS Space, Newline,
          ECOLS,      \* columns of the screen
          MaxLines    \* ED_MAXLN: lines that may be begun

ASSUME LayoutAssumption ==
    ECOLS \in Nat \ {0} /\ MaxLines \in Nat \ {0} /\ Space # Newline

\* A position is the number of characters before it.
Starts_Unlimited(ls, i) == Append(ls, i)         \* mutant: the table of lines overflows
Starts(ls, i) == IF Len(ls) < MaxLines THEN Append(ls, i) ELSE ls

WordEnd(t, i) ==
    CHOOSE w \in i..Len(t) : /\ w = Len(t) \/ t[w + 1] \in {Space, Newline}
                             /\ \A j \in i + 1..w : t[j] \notin {Space, Newline}

TooLong_Late(col, n) == col + n > ECOLS + 1      \* mutant: one column too many
TooLong(col, n) == col + n > ECOLS

\* One round of the loop, from position i and column col, with the lines begun so far.  What
\* a line takes of a word longer than a line is a round of its own.
Round(t, s) ==
    IF s.i >= Len(t) THEN s
    ELSE IF t[s.i + 1] = Newline THEN [i |-> s.i + 1, col |-> 0, ls |-> Starts(s.ls, s.i + 1)]
    ELSE LET w     == WordEnd(t, s.i)
             wraps == s.col > 0 /\ TooLong(s.col, w - s.i)
             ls    == IF wraps THEN Starts(s.ls, s.i) ELSE s.ls
             col   == (IF wraps THEN 0 ELSE s.col) + (w - s.i)
             space == w < Len(t) /\ t[w + 1] = Space
         IN  IF w - s.i > ECOLS
             THEN [i |-> s.i + ECOLS, col |-> 0, ls |-> Starts(ls, s.i + ECOLS)]
             ELSE IF ~space THEN [i |-> w, col |-> col, ls |-> ls]
             ELSE IF col + 1 >= ECOLS
             THEN [i |-> w + 1, col |-> 0, ls |-> Starts(ls, w + 1)]
             ELSE [i |-> w + 1, col |-> col + 1, ls |-> ls]

\* ed_ls: where the lines start, and the end of the text; there are no more rounds than
\* characters.
ed_layout(t) ==
    LET at[k \in 0..Len(t)] == IF k = 0 THEN [i |-> 0, col |-> 0, ls |-> <<0>>]
                               ELSE Round(t, at[k - 1])
    IN  Append(at[Len(t)].ls, Len(t))
=============================================================================
