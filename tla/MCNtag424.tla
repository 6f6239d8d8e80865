---------------------------- MODULE MCNtag424 ----------------------------
EXTENDS Ntag424, TLC

MCKeyNos == {0, 1}
MCKeySets == {[of |-> (0 :> "k0" @@ 1 :> "k1"), lrp |-> FALSE],
              [of |-> (0 :> "k0" @@ 1 :> "bad"), lrp |-> TRUE],
              [of |-> (0 :> "k0" @@ 1 :> "div"), lrp |-> TRUE],
              [of |-> (0 :> "none" @@ 1 :> "k1"), lrp |-> FALSE]}

\* Factory settings; a file behind key 1 in MAC mode; a file anyone reads and
\* key 1 writes, in plain; a file that mirrors taps under key 1.
Factory == [read |-> Free, write |-> Free, rw |-> Free, change |-> 0,
            secured |-> FALSE, sdm |-> FALSE, tapKey |-> 0]
Guarded == [Factory EXCEPT !.read = Never, !.write = Never, !.rw = 1, !.secured = TRUE]
Shared  == [Factory EXCEPT !.write = 1, !.rw = Never]
Tapped  == [Factory EXCEPT !.write = 0, !.rw = Never, !.sdm = TRUE, !.tapKey = 1]

K0K1   == 0 :> "k0" @@ 1 :> "k1"
K0Real == 0 :> "k0" @@ 1 :> "real"

MCProvisioned == {NewCard(K0K1, Old, Factory, FALSE, FALSE),
                  NewCard(K0K1, Old, Guarded, FALSE, FALSE),
                  NewCard(K0Real, Old, Shared, FALSE, TRUE),
                  NewCard(K0Real, Old, Guarded, TRUE, TRUE)}
MCPlans == {Tapped, Guarded}
=============================================================================
