----------------------------- MODULE MCPlayTree -----------------------------
(* Small playlists for PlayTree. *)
EXTENDS PlayTree

MCNodes == 1 .. 8

Leaves == [n \in MCNodes |-> <<>>]
NoLoops == [n \in MCNodes |-> 0]
NoLists == [n \in MCNodes |-> None]
Forward == {<<"step", 1>>}
AllKeys == {<<"step", 1>>, <<"step", -1>>, <<"up", 1>>, <<"up", -1>>}
OneFile(S) == [n \in MCNodes |-> IF n \in S THEN 1 ELSE 0]

Tree(k, f, lp, ls, r, ks) ==
    [kids |-> k @@ Leaves, files |-> f, loops |-> lp @@ NoLoops,
     list |-> ls @@ NoLists, shuffle |-> r, keys |-> ks]

\* a { b { c } } d: any key.
Groups == Tree(1 :> <<2, 3, 7>> @@ 3 :> <<4, 5>> @@ 5 :> <<6>>,
               OneFile({2, 4, 6, 7}), <<>>, <<>>, FALSE, AllKeys)

\* { a { b c } x2 } x3 d: repeated groups.
Repeats == Tree(1 :> <<2, 8>> @@ 2 :> <<3, 4>> @@ 4 :> <<5, 6>>,
                OneFile({3, 5, 6, 8}), 2 :> 3 @@ 4 :> 2, <<>>, FALSE, Forward)

\* A group repeated for ever, with one repeated group in it.
Endless == Tree(1 :> <<2, 3>> @@ 3 :> <<4>> @@ 4 :> <<5>>,
                OneFile({2, 5}), 3 :> -1 @@ 4 :> 1, <<>>, FALSE,
                {<<"step", 1>>, <<"step", -1>>})

\* a { playlist } b, the playlist file naming { c d }.
Lists == Tree(1 :> <<2, 3, 4>> @@ 5 :> <<6, 7>>,
              OneFile({2, 3, 4, 6, 7}), <<>>, 3 :> 5, FALSE, AllKeys)

\* Two files and an entry with three alternatives.
Alternatives == Tree(1 :> <<2, 3, 4>>, (3 :> 3) @@ OneFile({2, 4}),
                     <<>>, <<>>, FALSE, {<<"step", 1>>, <<"step", -1>>})

\* Four files in random order.
Shuffle == Tree(1 :> <<2, 3, 4, 5>>, OneFile({2, 3, 4, 5}), <<>>, <<>>, TRUE, Forward)

MCTrees == {Groups, Repeats, Endless, Lists, Alternatives, Shuffle}
=============================================================================
