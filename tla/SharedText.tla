------------------------------ MODULE SharedText ------------------------------
(***************************************************************************)
(* What fifo.c promises the handlers of the web server: one shared text    *)
(* that is put and got in one step each, and that never goes back to an    *)
(* older reading.  A text is a sequence of characters, each with the       *)
(* number of its reading in front.                                         *)
(***************************************************************************)
EXTENDS Naturals, Sequences

CONSTANTS Handlers, BufLen

VARIABLES
    text,       \* the shared text
    got         \* the handlers that answer, with what they got

textVars == <<text, got>>

Init == text = << >> /\ got = << >>

NoOlder(s, t) == \A i \in 1 .. Len(s), j \in 1 .. Len(t) : s[i][1] <= t[j][1]

Put == text' # << >> /\ NoOlder(text, text') /\ UNCHANGED got

\* The text if it fits the handler's buffer with an end mark, else nothing.
Get(h) ==
    /\ h \notin DOMAIN got
    /\ got' = [g \in DOMAIN got \union {h} |->
                 IF g # h THEN got[g] ELSE IF Len(text) < BufLen THEN text ELSE << >>]
    /\ UNCHANGED text

Answer(h) ==
    /\ h \in DOMAIN got
    /\ got' = [g \in DOMAIN got \ {h} |-> got[g]]
    /\ UNCHANGED text

\* The server ends.
Lose == text' = << >> /\ got' = << >>

Next ==
    \/ Put
    \/ \E h \in Handlers : Get(h) \/ Answer(h)
    \/ Lose

Spec == Init /\ [][Next]_textVars
=============================================================================
