----------------------------- MODULE MCWebSearch -----------------------------
(* Results with a text, a link, both or neither, snippets, other anchors,   *)
(* names outside of tags and tags that do not end.                         *)
EXTENDS WebSearch

Anchor(attributes, content) == <<"<a">> \o attributes \o <<">">> \o content \o <<"</a>">>

Pieces ==
  {Anchor(<<"result__a">> \o attributes, content) : attributes \in {<<>>, <<"href">>},
                                                    content \in {<<>>, <<"text">>}}
  \cup {Anchor(<<"result__snippet", "href">>, <<"text">>),
        Anchor(<<"href">>, <<"text">>), Anchor(<<>>, <<>>),
        <<"result__a">>, <<"text">>, <<"<a", "result__a">>, <<"<a", ">", "result__snippet">>}

=============================================================================
