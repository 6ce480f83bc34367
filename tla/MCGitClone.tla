----------------------------- MODULE MCGitClone -----------------------------
(***************************************************************************)
(* An instance of GitClone: a tree "r" with a subtree "t" that has a       *)
(* .gitattributes of its own, and packs that give their objects in         *)
(* different ways.  "q" is a root with a submodule, "e" one without items. *)
(***************************************************************************)
EXTENDS GitClone, TLC

CONSTANTS r, t, q, e, a, b, c, p, big, small

Item(kind, name, object) == [kind |-> kind, name |-> name, object |-> object]

Trees ==
    r :> <<Item("blob", "a", a), Item("tree", "d", t), Item("link", "l", b), Item("blob", "b", p)>>
    @@ t :> <<Item("blob", "c", c), Item("blob", "p", p)>>
    @@ q :> <<Item("submodule", "s", a)>>
    @@ e :> <<>>

Plain(o) == [gives |-> o, parent |-> None, key |-> 0]
Delta(o, of, k) == [gives |-> o, parent |-> of, key |-> k]

\* All of it, with a chain of deltas, and an object that is there twice; one
\* where two deltas have the same instructions; one with an orphan.
PackSet == {
    <<Plain(r), Plain(q), Plain(e), Delta(c, b, 1), Delta(b, a, 2), Plain(a), Plain(t),
      Delta(a, b, 3), Delta(p, c, 4)>>,
    <<Plain(r), Plain(q), Plain(t), Plain(a), Plain(b), Delta(c, a, 1), Delta(p, b, 1)>>,
    <<Plain(r), Plain(t), Plain(a), Plain(p), Delta(c, b, 1)>>,
    <<Plain(t), Plain(a)>>}

GlobSets == <<>> :> {<<"a">>, <<"b">>, <<"d", "p">>} @@ <<"d">> :> {<<"d", "p">>, <<"d", "c">>}

Pointers == p :> big @@ c :> small
=============================================================================
