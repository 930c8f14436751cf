-------------------------- MODULE MCLinkExtraction --------------------------
(* Instances of LinkExtraction for TLC. *)
EXTENDS LinkExtraction

MCStrings == {Blank, Up, "a", "b", "d", "p", "s", "x", "z", "api", "q"}

Href(host, path) ==
    [tag |-> "a", host |-> host, path |-> path, params |-> "", fragment |-> FALSE]

Private == <<"", "p">>
AtRoot == {Private, <<"", "s", "p">>}
ApiPaths == {<<"", "api">>}

SitePathSection == <<"", "s", "">>
SitePathRoot == Root

Plain == {Href("none", <<"a">>), Href("none", <<"d", "">>), Href("none", <<"", "s", "a">>),
          Href("own", SitePathSection)}
Queries == {[Href("none", Empty) EXCEPT !.params = "q"],
            [Href("none", <<"a">>) EXCEPT !.params = "q"]}
Fragments == {[Href("none", Empty) EXCEPT !.fragment = TRUE]}
Excluded == {Href("none", <<"", "s", "p">>), Href("none", <<"p">>),
             Href("none", <<"", "api", "x">>),
             [Href("none", <<"", "api", "x">>) EXCEPT !.tag = "img"]}
Foreign == {Href("foreign", <<"", "z">>)}
Odd == {Href("own", Empty), Href("none", <<"..", "a">>), Href("none", <<"", "s", "b", "..", "p">>),
        Href("own", <<"", "..", "a">>), Href("own", <<"", "s", "..", "a">>)}

One(refs) == {{r} : r \in refs}

AllBodies == {{}} \cup One(Plain \cup Queries \cup Fragments \cup Excluded \cup Foreign \cup Odd)
                \cup {Plain}
PlainBodies == {{}} \cup One(Plain \cup Excluded)
OddBodies == {{}} \cup One({Href("none", <<"", "a">>), Href("own", Empty), Href("none", <<"..", "a">>)})
=============================================================================
