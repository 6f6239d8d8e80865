---------------------------- MODULE MCCardWrite ----------------------------
(* Three cells: a message of one record fills two of them, one of two records *)
(* the third.  Every family of card, fresh, written, locked, corrupt, keyed.  *)
EXTENDS CardWrite, TLC

Old == <<"a">>
New == <<"n">>

Card(c)     == [card |-> c, held |-> FALSE]
WithKey(c)  == [card |-> c, held |-> TRUE]
Right(r, w, c)  == [read |-> r, write |-> w, change |-> c]
AllFree     == Right("free", "free", "free")
AllKey      == Right("key", "key", "key")
Trailers(special) == [s \in 0..Chunks |-> IF s \in DOMAIN special THEN special[s] ELSE Factory]
Formatted   == [s \in 0..Chunks |-> IF s = 0 THEN Formats.mad ELSE Formats.ndef]

TheCards ==
    {Card(c) : c \in
        {NewPages("NTAG215", Old, FALSE, FALSE), NewPages("NTAG215", Old, TRUE, FALSE),
         NewPages("UltralightC", Blank, FALSE, TRUE), NewPages("Ultralight", Old, FALSE, FALSE),
         NewPages("UltralightEV1", Blank, FALSE, FALSE), NewPages("NTAG213", Garbage, FALSE, FALSE),
         NewClassic(Old, Formatted), NewClassic(Blank, Trailers(<< >>)),
         NewClassic(Blank, Trailers((2 :> Foreign))), NewClassic(Old, Trailers((1 :> HalfKept))),
         NewType4(Old),
         NewDESFire("DESFireEV2", Old, AllFree, "plain"),
         NewDESFire("DESFireEV2", Old, Right("free", "key", "never"), "mac")}}
    \cup
    {WithKey(c) : c \in
        {NewDESFire("DESFireEV2", Old, AllKey, "mac"), NewDESFire("DESFireEV1", Old, AllKey, "mac"),
         NewDESFire("DESFireEV1", Old, Right("free", "key", "free"), "plain")}}

Plain == [kind |-> "write", msg |-> New, overwrite |-> TRUE, replace |-> FALSE, verify |-> TRUE,
          lock |-> FALSE, force |-> FALSE, over |-> -10, unchecked |-> FALSE, attempts |-> 2]

TheRequests ==
    {Plain,
     [Plain EXCEPT !.overwrite = FALSE, !.lock = TRUE],
     [Plain EXCEPT !.overwrite = FALSE, !.replace = TRUE, !.over = 0],
     [Plain EXCEPT !.verify = FALSE, !.lock = TRUE, !.over = 9, !.unchecked = TRUE],
     [Plain EXCEPT !.verify = FALSE, !.lock = TRUE],
     [Plain EXCEPT !.force = TRUE],
     [Plain EXCEPT !.kind = "lock", !.attempts = 1]}

NoKeys == << >>
=============================================================================
