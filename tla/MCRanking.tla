----------------------------- MODULE MCRanking -----------------------------
(* An instance of Ranking for TLC. *)
EXTENDS Ranking, TLC

CONSTANTS t1, t2, a1, q1, q2

MCTrainers == {t1, t2}
MCReplicas == {a1}
MCRequests == {q1, q2}
TrainerSymmetry == Permutations(MCTrainers)
MCDiscount == <<100, 63, 50, 43>>

\* The default, another version with its prefix, and one without.
MCFallbackNames == {FallbackVersion, "ranking-fallback-v2"}
MCSettings ==
    {[path |-> p, version |-> v, expected |-> n] :
        p \in BOOLEAN, v \in MCFallbackNames \cup {"ranking-lgbm-v1"}, n \in {8, 9}}

Lines(columns, labels) ==
    [i \in DOMAIN labels |->
        [columns |-> columns, sound |-> TRUE, label |-> labels[i], request |-> q1]]
DatasetOf(columns, train, validation, test) ==
    [train |-> Lines(columns, train), validation |-> Lines(columns, validation),
     test |-> Lines(columns, test), manifest |-> TRUE]

\* Two good datasets of different width, one with a test split of a single label,
\* one with a broken line and one without a manifest.
Good == DatasetOf(9, <<0, 2, 0>>, <<0, 2>>, <<2, 0>>)
MCDatasets ==
    {Good, DatasetOf(8, <<0, 2>>, <<0, 2>>, <<2, 0>>),
     DatasetOf(9, <<0, 2>>, <<0, 2>>, <<2, 2>>),
     [Good EXCEPT !.test[1].sound = FALSE],
     [Good EXCEPT !.manifest = FALSE]}
=============================================================================
