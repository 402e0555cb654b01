----------------------------- MODULE MCMediaCache -----------------------------
(* Instances of MediaCache for TLC. *)
EXTENDS MediaCache, TLC

\* Every asset is fetched from a URL of its own; any of them may be refused.
OwnSources == {c \in [Assets -> [source : Sources, declared : {0, 1, FileLimit + 1},
                                 small : BOOLEAN]] :
                 /\ \A a, b \in Assets : a # b => c[a].source # c[b].source
                 /\ \A a \in Assets : c[a].declared > 0 => ~c[a].small}

\* Two assets are fetched from one URL, the third perhaps too. Assets and URLs are
\* numbered here, so that no two of these collections differ by a renaming only.
SharedSources == {c \in [Assets -> [source : Allowed, declared : {0, 1}, small : {FALSE}]] :
                    /\ c[1].source = 1 /\ c[2].source = 1
                    /\ c[1].declared <= c[2].declared}

MediaSymmetry == Permutations(Assets) \cup Permutations(Workers) \cup Permutations(Allowed)
===============================================================================
