------------------------------ MODULE MCConfig ------------------------------
(* Instances of Config for TLC: files of the lines below.                  *)
EXTENDS Config

MCNames == {"a", "b", "c", "s"}

Setting(word, path) ==
  [text |-> "setting", key |-> {word}, val |-> path, comment |-> FALSE]
Other(shape, comment) ==
  [text |-> shape, key |-> {}, val |-> << >>, comment |-> comment]

Locs == {<< >>, <<"a">>, <<"/", "a", "/">>, <<"a", "/", "/">>, <<"/", "/", "/", "a">>}
Dirs == {<< >>, <<"b">>, <<"/", "b">>, <<"b", "/">>, <<"/", "/", "/", "b">>}

MCLines ==
  {Setting("location", p) : p \in Locs} \cup {Setting("html_pages", p) : p \in Dirs}
    \cup {Setting("static_path", <<"s">>), Setting("listen_port", << >>),
          [Setting("html_pages", <<"c">>) EXCEPT !.key = @ \cup {"location"},
                                                  !.comment = TRUE]}
    \cup {Other("none", TRUE), Other("spaces", FALSE), Other("junk", FALSE)}

\* Blank and commented lines.
CommentLines ==
  {Setting("location", <<"a">>), Setting("html_pages", <<"b">>)}
    \cup {Other(shape, c) : shape \in {"none", "spaces"}, c \in BOOLEAN}
=============================================================================
